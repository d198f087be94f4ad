-------------------------- MODULE RegistriesProofs --------------------------
(***************************************************************************)
(* Proofs about transaction event logs, for any registries, credentials    *)
(* and key events, in any order, with stops and recoveries: an event is    *)
(* logged on its anchor, and a credential's log is a chain.  A credential  *)
(* is saved only when all it chains to holds, and is not forgotten while it*)
(* waits.                                                                  *)
(***************************************************************************)
EXTENDS Registries, SequenceTheorems, FiniteSetTheorems, WellFoundedInduction, TLAPS

LogType(K) ==
    /\ K \in [Aid -> [0..MaxSn -> Seq(KelEvent)]]
    /\ \A p \in Aid, n \in 0..MaxSn : \A i \in DOMAIN K[p][n] : Kel[K[p][n][i]].pre = p

Types ==
    /\ LogType(kels)
    /\ tels \in [Registry \cup Cred -> [0..MaxSn -> TelEvent \cup {None}]]
    /\ ancs \in [TelEvent -> KelEvent \cup {None}]
    /\ \A row \in rows : row[2] \in TelEvent
    /\ net \subseteq Message

Inv == Types /\ LogChained

------------------------------------------------------------------------------
(* Whether an event counts *)

LEMMA AcceptNeeds ==
    ASSUME NEW K, NEW e, NEW k, NEW sigs, Verdict(K, e, k, sigs) = "accept"
    PROVE  Anchored(K, e, k) /\ ~Misfit(e)
BY DEF Verdict, Judged

LEMMA EventFields ==
    ASSUME NEW e \in TelEvent
    PROVE  /\ Tel[e].pre \in Registry \cup Cred /\ Tel[e].sn \in 0..MaxSn
           /\ Owner(e) \in Aid
BY RegistriesAssumption, FormAssumption DEF Owner

(* The last at its number in the owner's log is one of the owner's.        *)
LEMMA AnchorSeals ==
    ASSUME NEW K, LogType(K), NEW e \in TelEvent, NEW k \in KelEvent \cup {None}, Anchored(K, e, k)
    PROVE  SealedIn(K, e)
<1>1. k \in KelEvent /\ LastAt(K, Owner(e), Kel[k].sn) = k /\ Kel[k].seals = {e} /\ k # None
  BY DEF Anchored
<1>2. Owner(e) \in Aid /\ Kel[k].sn \in 0..MaxSn
  BY <1>1, EventFields, RegistriesAssumption
<1> DEFINE s == K[Owner(e)][Kel[k].sn]
<1>3. s # <<>> /\ Last(s) = k
  BY <1>1 DEF LastAt
<1>4. s \in Seq(KelEvent)
  BY <1>2 DEF LogType
<1>5. Len(s) \in DOMAIN s /\ s[Len(s)] = k
  BY <1>3, <1>4 DEF Last
<1>6. Kel[k].pre = Owner(e)
  BY <1>2, <1>5 DEF LogType
<1> QED BY <1>1, <1>6 DEF SealedIn

------------------------------------------------------------------------------
(* The steps *)

(* A key event extends its own owner's log.                                *)
LEMMA ExtendedType ==
    ASSUME LogType(kels), NEW k \in KelEvent
    PROVE  LogType(Extended(k))
<1> DEFINE p == Kel[k].pre
           n == Kel[k].sn
           s == Append(kels[p][n], k)
<1>1. p \in Aid /\ n \in 0..MaxSn
  BY RegistriesAssumption
<1>2. kels[p] \in [0..MaxSn -> Seq(KelEvent)] /\ kels[p][n] \in Seq(KelEvent)
  BY <1>1 DEF LogType
<1>3. s \in Seq(KelEvent) /\ \A i \in DOMAIN s : Kel[s[i]].pre = p
  <2>1. s \in Seq(KelEvent) /\ Len(s) = Len(kels[p][n]) + 1
    BY <1>2
  <2>2. \A i \in DOMAIN s : IF i = Len(s) THEN s[i] = k ELSE i \in DOMAIN kels[p][n] /\ s[i] = kels[p][n][i]
    BY <1>2
  <2>3. \A i \in DOMAIN kels[p][n] : Kel[kels[p][n][i]].pre = p
    BY <1>1 DEF LogType
  <2> QED BY <2>1, <2>2, <2>3
<1> DEFINE row == [kels[p] EXCEPT ![n] = s]
<1>4. Extended(k) = [kels EXCEPT ![p] = row]
  BY DEF Extended
<1>5. /\ row \in [0..MaxSn -> Seq(KelEvent)]
      /\ \A m \in 0..MaxSn : row[m] = IF m = n THEN s ELSE kels[p][m]
  BY <1>1, <1>2, <1>3
<1> HIDE DEF row, s
<1>6. Extended(k) \in [Aid -> [0..MaxSn -> Seq(KelEvent)]]
  BY <1>1, <1>4, <1>5 DEF LogType
<1>7. \A q \in Aid : Extended(k)[q] = IF q = p THEN row ELSE kels[q]
  BY <1>1, <1>4 DEF LogType
<1>8. \A q \in Aid, m \in 0..MaxSn : \A i \in DOMAIN Extended(k)[q][m] :
        Kel[Extended(k)[q][m][i]].pre = q
  <2> SUFFICES ASSUME NEW q \in Aid, NEW m \in 0..MaxSn, NEW i \in DOMAIN Extended(k)[q][m]
               PROVE  Kel[Extended(k)[q][m][i]].pre = q
    OBVIOUS
  <2>1. CASE q = p /\ m = n
    <3>1. Extended(k)[q][m] = row[n] /\ row[n] = s
      BY <2>1, <1>5, <1>7
    <3> QED BY <2>1, <3>1, <1>3
  <2>2. CASE q # p \/ m # n
    <3>1. Extended(k)[q][m] = kels[q][m]
      BY <2>2, <1>5, <1>7
    <3> QED BY <3>1 DEF LogType
  <2> QED BY <2>1, <2>2
<1> QED BY <1>6, <1>8 DEF LogType

(* Judging an event at a log K, which the step leaves behind.              *)
Judges(K, e, k) ==
    /\ e \in TelEvent /\ k \in KelEvent \cup {None} /\ LogType(K) /\ kels' = K
    /\ ancs' \in {ancs, [ancs EXCEPT ![e] = k]}
    /\ \/ tels' = tels
       \/ /\ Anchored(K, e, k) /\ ~Misfit(e) /\ tels[Tel[e].pre][Tel[e].sn] = None
          /\ tels' = [tels EXCEPT ![Tel[e].pre][Tel[e].sn] = e]

LEMMA RecordJudges ==
    ASSUME NEW K, LogType(K), NEW e \in TelEvent, NEW k \in KelEvent \cup {None}, NEW sigs,
           NEW v, v = Verdict(K, e, k, sigs), Record(e, k, sigs, v), kels' = K
    PROVE  Judges(K, e, k)
BY AcceptNeeds DEF Record, Judges

(* What a step may add to the logs.                                        *)
LogsSealed == \A e \in TelEvent : ~Logged(e) /\ Logged(e)' => SealedIn(kels', e)

(* At most the event judged is new, at a place that was free, and then its *)
(* anchor and the event before it are there.                               *)
LEMMA JudgesLogs ==
    ASSUME Inv, NEW K, NEW e, NEW k, Judges(K, e, k)
    PROVE  /\ tels' \in [Registry \cup Cred -> [0..MaxSn -> TelEvent \cup {None}]]
           /\ ancs' \in [TelEvent -> KelEvent \cup {None}]
           /\ LogChained' /\ LogsSealed
<1> DEFINE p == Tel[e].pre
           n == Tel[e].sn
<1>1. e \in TelEvent /\ p \in Registry \cup Cred /\ n \in 0..MaxSn
  BY EventFields DEF Judges
<1>2. ancs' \in [TelEvent -> KelEvent \cup {None}]
  BY DEF Judges, Inv, Types
<1>3. CASE tels' = tels
  BY <1>2, <1>3 DEF Inv, Types, LogChained, LogsSealed, Logged
<1>4. CASE /\ Anchored(K, e, k) /\ ~Misfit(e) /\ tels[p][n] = None
           /\ tels' = [tels EXCEPT ![p][n] = e]
  <2> DEFINE row == [tels[p] EXCEPT ![n] = e]
  <2>1. tels[p] \in [0..MaxSn -> TelEvent \cup {None}]
    BY <1>1 DEF Inv, Types
  <2>2. /\ row \in [0..MaxSn -> TelEvent \cup {None}]
        /\ \A m \in 0..MaxSn : row[m] = IF m = n THEN e ELSE tels[p][m]
    BY <1>1, <2>1
  <2>3. tels' = [tels EXCEPT ![p] = row]
    BY <1>4
  <2> HIDE DEF row
  <2>4. tels' \in [Registry \cup Cred -> [0..MaxSn -> TelEvent \cup {None}]]
    BY <1>1, <2>2, <2>3 DEF Inv, Types
  <2>5. \A q \in Registry \cup Cred, m \in 0..MaxSn :
          tels'[q][m] = IF q = p /\ m = n THEN e ELSE tels[q][m]
    BY <1>1, <2>2, <2>3 DEF Inv, Types
  <2>6. LogChained'
    <3> SUFFICES ASSUME NEW c \in Cred, NEW m \in 0..MaxSn, tels'[c][m] # None
                 PROVE  IF m = 0 THEN Tel[tels'[c][m]].ilk \in {"iss", "bis"}
                        ELSE tels'[c][m - 1] # None /\ Tel[tels'[c][m]].prior = tels'[c][m - 1]
      BY DEF LogChained
    <3>1. m # 0 => m - 1 \in 0..MaxSn
      BY RegistriesAssumption
    <3>2. CASE c = p /\ m = n
      <4>1. Tel[e].ilk \in {"iss", "bis", "rev", "brv"}
        <5>1. Tel[e].ilk \in Ilk /\ Tel[e].reg \in Registry
          BY <1>1, RegistriesAssumption
        <5>2. Tel[e].ilk \in {"vcp", "vrt"} => p \in Registry
          BY <5>1, <1>1, FormAssumption
        <5> QED BY <5>1, <5>2, <3>2, RegistriesAssumption DEF Ilk
      <4>2. CASE Tel[e].ilk \in {"iss", "bis"}
        BY <4>2, <3>2, <2>5, <1>1, FormAssumption
      <4>3. CASE Tel[e].ilk \in {"rev", "brv"}
        <5>1. Tel[e].sn # 0 /\ Tel[e].prior # None /\ Tel[e].prior = tels[p][n - 1]
          BY <4>3, <1>4 DEF Misfit
        <5>2. tels'[c][m] = e /\ tels'[c][m - 1] = tels[c][m - 1]
          BY <5>1, <3>1, <3>2, <2>5, <1>1
        <5> QED BY <5>1, <5>2, <3>2
      <4> QED BY <4>1, <4>2, <4>3
    <3>3. CASE c # p \/ m # n
      <4>1. tels'[c][m] = tels[c][m]
        BY <3>3, <2>5
      <4>2. IF m = 0 THEN Tel[tels[c][m]].ilk \in {"iss", "bis"}
            ELSE tels[c][m - 1] # None /\ Tel[tels[c][m]].prior = tels[c][m - 1]
        BY <4>1 DEF Inv, LogChained
      <4>3. m # 0 => tels'[c][m - 1] = tels[c][m - 1]
        BY <4>2, <3>1, <2>5, <1>4
      <4> QED BY <4>1, <4>2, <4>3
    <3> QED BY <3>2, <3>3
  <2>7. LogsSealed
    <3> SUFFICES ASSUME NEW x \in TelEvent, ~Logged(x), Logged(x)' PROVE SealedIn(kels', x)
      BY DEF LogsSealed
    <3>1. x = e
      BY <2>5, EventFields DEF Logged
    <3>2. SealedIn(K, e)
      BY <1>1, <1>4, AnchorSeals DEF Judges
    <3> QED BY <3>1, <3>2 DEF Judges
  <2> QED BY <1>2, <2>4, <2>6, <2>7
<1> QED BY <1>3, <1>4 DEF Judges

(* A step that judges nothing, but may extend a log, keep a message out or *)
(* drop a row.                                                             *)
LEMMA QuietStep ==
    ASSUME Inv, LogType(kels'), UNCHANGED <<tels, ancs>>,
           rows' \subseteq rows, net' \subseteq net
    PROVE  Inv' /\ LogsSealed
<1>1. LogsSealed
  BY DEF LogsSealed, Logged
<1>2. Types'
  BY DEF Inv, Types, LogType
<1>3. LogChained'
  BY DEF Inv, LogChained
<1> QED BY <1>1, <1>2, <1>3 DEF Inv

LEMMA JudgeStep ==
    ASSUME Inv, NEW K, NEW e, NEW k, Judges(K, e, k), net' \subseteq net,
           \A row \in rows' : row[2] \in TelEvent
    PROVE  Inv' /\ LogsSealed
<1>1. /\ tels' \in [Registry \cup Cred -> [0..MaxSn -> TelEvent \cup {None}]]
      /\ ancs' \in [TelEvent -> KelEvent \cup {None}]
      /\ LogChained' /\ LogsSealed
  BY JudgesLogs
<1>2. LogType(kels')
  BY DEF Judges
<1>3. Types'
  BY <1>1, <1>2 DEF Inv, Types, LogType
<1> QED BY <1>1, <1>3 DEF Inv

LEMMA EventMessage ==
    ASSUME Inv, NEW m \in Of("event")
    PROVE  m \in net /\ m.event \in TelEvent /\ m.couple \in KelEvent \cup {None}
BY DEF Of, Inv, Types, Message

LEMMA NewRows ==
    ASSUME Inv, NEW e \in TelEvent, NEW v, rows' \subseteq rows \cup Escrowed(e, v)
    PROVE  \A row \in rows' : row[2] \in TelEvent
BY DEF Escrowed, Inv, Types

LEMMA ReceiveStep ==
    ASSUME Inv, NEW m \in Of("event"), (Receive(m) /\ Bring(m)) \/ StopBeforeCache(m)
    PROVE  Inv' /\ LogsSealed
<1>1. m.event \in TelEvent /\ m.couple \in KelEvent \cup {None}
  BY EventMessage
<1>2. PICK v : /\ v = Verdict(kels, m.event, m.couple, m.sigs)
               /\ Record(m.event, m.couple, m.sigs, v) /\ UNCHANGED kels
               /\ rows' \in {rows, rows \cup Escrowed(m.event, v)} /\ net' \subseteq net
  BY DEF Receive, Bring, StopBeforeCache
<1>3. Judges(kels, m.event, m.couple)
  BY <1>1, <1>2, RecordJudges DEF Inv, Types
<1>4. \A row \in rows' : row[2] \in TelEvent
  BY <1>1, <1>2, NewRows
<1> QED BY <1>2, <1>3, <1>4, JudgeStep

LEMMA ReplayStep ==
    ASSUME Inv, NEW row \in Replayable, Replay(row[1], row[2])
    PROVE  Inv' /\ LogsSealed
<1> DEFINE e == row[2]
<1>1. e \in TelEvent
  BY DEF Replayable, Inv, Types
<1>2. PICK k, sigs, v :
        /\ k \in KelEvent \cup {None}
        /\ v = Verdict(kels, e, k, sigs) /\ Record(e, k, sigs, v) /\ UNCHANGED <<kels, net>>
        /\ rows' \subseteq rows \cup Escrowed(e, v)
  BY <1>1 DEF Replay, Kept, Inv, Types
<1>3. Judges(kels, e, k)
  BY <1>1, <1>2, RecordJudges DEF Inv, Types
<1> QED BY <1>1, <1>2, <1>3, NewRows, JudgeStep

LEMMA MakeStep ==
    ASSUME Inv, NEW e \in TelEvent, NEW k \in KelEvent, Make(e, k) \/ StopAfterAnchor(e, k)
    PROVE  Inv' /\ LogsSealed
<1>1. LogType(Extended(k)) /\ kels' = Extended(k) /\ net' = net
  BY ExtendedType DEF Make, StopAfterAnchor, Inv, Types
<1>2. CASE Make(e, k)
  <2>1. PICK v : /\ v = Verdict(Extended(k), e, k, {}) /\ Record(e, k, {}, v)
                 /\ rows' = rows \cup Escrowed(e, v)
    BY <1>2 DEF Make
  <2>2. Judges(Extended(k), e, k)
    BY <1>1, <2>1, RecordJudges
  <2> QED BY <1>1, <2>1, <2>2, NewRows, JudgeStep
<1>3. CASE StopAfterAnchor(e, k)
  BY <1>1, <1>3, QuietStep DEF StopAfterAnchor, telVars
<1> QED BY <1>2, <1>3

LEMMA NextStep == ASSUME Inv, [Next]_vars PROVE Inv' /\ LogsSealed
<1>1. ASSUME NEW m \in Of("event"), (Receive(m) /\ Bring(m)) \/ StopBeforeCache(m)
      PROVE  Inv' /\ LogsSealed
  BY <1>1, ReceiveStep
<1>2. ASSUME NEW row \in Replayable, Replay(row[1], row[2]) PROVE Inv' /\ LogsSealed
  BY <1>2, ReplayStep
<1>3. ASSUME NEW e \in Makeable, NEW k \in KelEvent, Make(e, k) \/ StopAfterAnchor(e, k)
      PROVE  Inv' /\ LogsSealed
  BY <1>3, MakeStep DEF Makeable
<1>4. ASSUME NEW m \in Of("kel"), AcceptKel(m.kel), Bring(m) PROVE Inv' /\ LogsSealed
  <2>1. m.kel \in KelEvent
    BY DEF Of, Inv, Types, Message
  <2>2. LogType(kels')
    BY <1>4, <2>1, ExtendedType DEF AcceptKel, Inv, Types
  <2> QED BY <1>4, <2>2, QuietStep DEF AcceptKel, Bring, telVars
<1>5. ASSUME NEW e \in TelEvent, DropUnanchored(e) PROVE Inv' /\ LogsSealed
  BY <1>5, QuietStep DEF DropUnanchored, Inv, Types
<1>6. ASSUME \/ \E m \in Of("cred") : Show(m) /\ Bring(m)
             \/ \E row \in waits : Retry(row[1], row[2])
             \/ \E row \in late : GiveUp(row[1], row[2])
             \/ HourPasses
             \/ \E c \in cmse : Finish(c)
             \/ \E x \in Schema : Resolve(x)
             \/ UNCHANGED vars
      PROVE  Inv' /\ LogsSealed
  <2>1. UNCHANGED <<kels, tels, ancs, rows>> /\ net' \subseteq net
    BY <1>6 DEF Show, Bring, Retry, GiveUp, HourPasses, Finish, Resolve, vars, telVars
  <2> QED BY <2>1, QuietStep DEF Inv, Types
<1> QED BY <1>1, <1>2, <1>3, <1>4, <1>5, <1>6 DEF Next

LEMMA InitInv == ASSUME Init PROVE Inv
<1>1. PICK first \in [Aid -> KelEvent] :
        /\ \A p \in Aid : Kel[first[p]].pre = p /\ Kel[first[p]].sn = 0
        /\ kels = [p \in Aid |-> [n \in 0..MaxSn |-> IF n = 0 THEN <<first[p]>> ELSE <<>>]]
  BY DEF Init
<1>2. \A p \in Aid : <<first[p]>> \in Seq(KelEvent) /\ <<>> \in Seq(KelEvent)
  OBVIOUS
<1>3. LogType(kels)
  BY <1>1, <1>2 DEF LogType
<1>4. Types /\ LogChained
  BY <1>3 DEF Init, Types, LogChained
<1> QED BY <1>4 DEF Inv

LEMMA Invariant == Spec => []Inv
<1>1. Init => Inv
  BY InitInv
<1>2. Inv /\ [Next]_vars => Inv'
  BY NextStep
<1> QED BY <1>1, <1>2, PTL DEF Spec

------------------------------------------------------------------------------
(* What the number of events of a credential says of its log *)

LEMMA LeastOf == ASSUME NEW T \in SUBSET Nat, T # {} PROVE \E m \in T : \A y \in T : m <= y
<1> DEFINE R == {ss \in Nat \X Nat : ss[1] < ss[2]}
<1>1. IsWellFoundedOn(OpToRel(<, Nat), Nat) /\ OpToRel(<, Nat) = R
  BY NatLessThanWellFounded DEF OpToRel
<1>2. IsWellFoundedOn(R, Nat)
  BY <1>1, Zenon
<1> HIDE DEF R
<1>3. \E m \in T : \A y \in T : ~(<<y, m>> \in R)
  BY <1>2, WFMin
<1>4. \A x, y \in Nat : ~(<<y, x>> \in R) => x <= y
  BY DEF R
<1> QED BY <1>3, <1>4

(* As the log is a chain, none of its first places is free.                *)
LEMMA LogFromStart ==
    ASSUME Inv, NEW c \in Cred
    PROVE  /\ Count(c) > 0 => tels[c][0] # None
           /\ Count(c) > 1 <=> tels[c][1] # None
<1> DEFINE Taken == {n \in 0..MaxSn : tels[c][n] # None}
<1>0. MaxSn \in Nat /\ MaxSn > 0 /\ Count(c) = Cardinality(Taken)
  BY RegistriesAssumption DEF Count
<1>1. IsFiniteSet(Taken)
  <2>1. IsFiniteSet(0..MaxSn) /\ Taken \in SUBSET (0..MaxSn)
    BY <1>0, FS_Interval
  <2> HIDE DEF Taken
  <2> QED BY <2>1, FS_Subset
<1>2. \A n \in Taken : n # 0 => n - 1 \in Taken
  BY <1>0 DEF Inv, LogChained
<1>3. \A b \in 0..1 : (\E n \in Taken : n >= b) => b \in Taken
  <2> SUFFICES ASSUME NEW b \in 0..1, \E n \in Taken : n >= b PROVE b \in Taken
    OBVIOUS
  <2> DEFINE Above == {n \in Taken : n >= b}
  <2>1. Above \in SUBSET Nat /\ Above # {}
    BY <1>0
  <2> HIDE DEF Above
  <2>2. PICK m \in Above : \A y \in Above : m <= y
    BY <2>1, LeastOf
  <2>3. m \in Taken /\ m >= b /\ m \in Nat
    BY <1>0, <2>2 DEF Above
  <2>4. CASE m = b
    BY <2>3, <2>4
  <2>5. CASE m # b
    <3>1. m - 1 \in Taken /\ m - 1 >= b
      BY <1>2, <2>3, <2>5
    <3>2. m - 1 \in Above
      BY <3>1 DEF Above
    <3> QED BY <2>2, <2>3, <3>2
  <2> QED BY <2>4, <2>5
<1>4. Count(c) \in Nat /\ (Count(c) = 0 <=> Taken = {})
  BY <1>0, <1>1, FS_CardinalityType, FS_EmptySet
<1>5. ASSUME Count(c) > 0 PROVE tels[c][0] # None
  <2>1. \E n \in Taken : n >= 0
    BY <1>0, <1>4, <1>5
  <2> QED BY <1>3, <2>1
<1>6. ASSUME Count(c) > 1 PROVE tels[c][1] # None
  <2>1. ~(Taken \subseteq {0})
    <3> SUFFICES ASSUME Taken \subseteq {0} PROVE FALSE
      OBVIOUS
    <3>1. Cardinality(Taken) <= Cardinality({0}) /\ Cardinality({0}) = 1
      BY FS_Singleton, FS_Subset
    <3> QED BY <1>0, <1>4, <1>6, <3>1
  <2>2. \E n \in Taken : n >= 1
    BY <1>0, <2>1
  <2> QED BY <1>3, <2>2
<1>7. ASSUME tels[c][1] # None PROVE Count(c) > 1
  <2>1. 1 \in Taken /\ 0 \in Taken
    BY <1>0, <1>2, <1>7
  <2>2. Cardinality({0} \cup {1}) = 2
    <3>1. IsFiniteSet({0}) /\ Cardinality({0}) = 1
      BY FS_Singleton, Zenon
    <3>2. 1 \notin {0}
      OBVIOUS
    <3> QED BY <3>1, <3>2, FS_AddElement
  <2>3. {0} \cup {1} \in SUBSET Taken
    BY <2>1
  <2>4. Cardinality({0} \cup {1}) <= Cardinality(Taken)
    BY <1>1, <2>3, FS_Subset
  <2> QED BY <1>0, <1>4, <2>2, <2>4
<1> QED BY <1>5, <1>6, <1>7

------------------------------------------------------------------------------
(* What a credential's fate says *)

LEMMA EdgeFields ==
    ASSUME NEW c \in Cred
    PROVE  /\ DOMAIN Card[c].edges \in SUBSET Nat
           /\ \A i \in DOMAIN Card[c].edges :
                 Card[c].edges[i] \in [node : Cred, op : {"I2I", "DI2I", "NI2I", "none"}]
<1> DEFINE EdgeType == [node : Cred, op : {"I2I", "DI2I", "NI2I", "none"}]
<1>1. PICK s : s = Card[c].edges /\ s \in Seq(EdgeType)
  BY RegistriesAssumption
<1> HIDE DEF EdgeType
<1>2. DOMAIN s = 1..Len(s) /\ Len(s) \in Nat /\ \A i \in DOMAIN s : s[i] \in EdgeType
  BY <1>1
<1> QED BY <1>1, <1>2 DEF EdgeType

(* An edge is good only to a saved credential, issued and not revoked.     *)
LEMMA GoodEdge ==
    ASSUME Inv, NEW c \in Cred, NEW edge \in [node : Cred, op : {"I2I", "DI2I", "NI2I", "none"}],
           Edge(c, edge) = "good"
    PROVE  /\ edge.node \in saved /\ tels[edge.node][0] # None /\ tels[edge.node][1] = None
           /\ edge.op # "NI2I" => Card[edge.node].issuee \in {Card[c].issuer, None}
<1>1. /\ edge.node \in saved /\ ~Misnamed(c, edge) /\ OpOf(edge) # "DI2I"
      /\ Issued(edge.node) /\ ~Revoked(edge.node)
  BY DEF Edge
<1>2. tels[edge.node][0] # None /\ tels[edge.node][1] = None
  BY <1>1, LogFromStart DEF Issued, Revoked
<1>3. edge.op # "NI2I" => Card[edge.node].issuee \in {Card[c].issuer, None}
  BY <1>1 DEF Misnamed, OpOf
<1> QED BY <1>1, <1>2, <1>3

LEMMA SavedNeeds == ASSUME Inv, NEW c \in Cred, Fate(c) = "saved" PROVE Vouched(c)
<1>1. Fate(c) = "saved" => Issued(c) /\ (Flawed(c) = {} \/ Edge(c, Card[c].edges[Min(Flawed(c))]) = "saved")
  BY DEF Fate
<1>2. \A edge : Edge(c, edge) # "saved"
  BY DEF Edge
<1>3. Issued(c) /\ Flawed(c) = {}
  BY <1>1, <1>2
<1>4. tels[c][0] # None
  BY <1>3, LogFromStart DEF Issued
<1>5. \A i \in DOMAIN Card[c].edges : Edge(c, Card[c].edges[i]) = "good"
  BY <1>3 DEF Flawed
<1> QED BY <1>4, <1>5, EdgeFields, GoodEdge DEF Vouched

(* A credential is refused only for what it is chained to.                 *)
LEMMA RefusedNeeds == ASSUME Inv, NEW c \in Cred, Fate(c) = "refused" PROVE Hopeless(c)
<1>1. Flawed(c) # {} /\ Edge(c, Card[c].edges[Min(Flawed(c))]) = "refused"
  BY DEF Fate
<1>2. Flawed(c) \in SUBSET Nat
  BY EdgeFields DEF Flawed
<1>3. Min(Flawed(c)) \in Flawed(c)
  BY <1>1, <1>2, LeastOf DEF Min
<1>4. PICK i \in DOMAIN Card[c].edges : Edge(c, Card[c].edges[i]) = "refused"
  BY <1>1, <1>3 DEF Flawed
<1>5. OpOf(Card[c].edges[i]) = "DI2I" \/ Revoked(Card[c].edges[i].node)
  BY <1>4 DEF Edge
<1>6. CASE OpOf(Card[c].edges[i]) = "DI2I"
  BY <1>6 DEF OpOf, Hopeless
<1>7. CASE Revoked(Card[c].edges[i].node)
  BY <1>7, EdgeFields, LogFromStart DEF Revoked, Hopeless
<1> QED BY <1>5, <1>6, <1>7

LEMMA Fates == ASSUME NEW c \in Cred PROVE Fate(c) \in Table \cup {"saved", "refused"}
<1>1. CASE Flawed(c) = {}
  BY <1>1 DEF Fate, Table
<1>2. CASE Flawed(c) # {}
  <2>1. Min(Flawed(c)) \in Flawed(c)
    BY <1>2, EdgeFields, LeastOf DEF Min, Flawed
  <2>2. Edge(c, Card[c].edges[Min(Flawed(c))]) # "good"
    BY <2>1 DEF Flawed
  <2>3. Edge(c, Card[c].edges[Min(Flawed(c))]) \in {"mce", "refused"}
    BY <2>2 DEF Edge
  <2> QED BY <1>2, <2>3 DEF Fate, Table
<1> QED BY <1>1, <1>2

------------------------------------------------------------------------------
(* Steps of the verifier *)

CardTypes == (\A row \in waits : row[2] \in Cred) /\ cmse \subseteq Cred

SavedFirst == \A c \in saved' \ saved : Vouched(c)

Remembers ==
    \A c \in Cred : InEscrow(c) /\ ~InEscrow(c)' =>
        c \in saved' \/ Hopeless(c) \/ \E t \in Table : <<t, c>> \in late

LEMMA JudgedSaved ==
    ASSUME Inv, NEW c \in Cred, Judge(c, Fate(c))
    PROVE  SavedFirst /\ (Fate(c) = "saved" => c \in saved')
BY SavedNeeds DEF Judge, SavedFirst

LEMMA ShowStep ==
    ASSUME Inv, CardTypes, NEW c \in Cred, Judge(c, Fate(c)), waits' = waits \cup Waiting(c, Fate(c)),
           cmse' \subseteq cmse
    PROVE  CardTypes' /\ SavedFirst /\ Remembers
<1>1. CardTypes'
  BY DEF CardTypes, Waiting
<1>2. Remembers
  BY DEF Remembers, InEscrow
<1> QED BY <1>1, <1>2, JudgedSaved

(* The row is removed after another was written, if the credential waits   *)
(* for something else.                                                     *)
LEMMA RetryStep ==
    ASSUME Inv, CardTypes, NEW row \in waits, Retry(row[1], row[2])
    PROVE  CardTypes' /\ SavedFirst /\ Remembers
<1>1. PICK t, c : t = row[1] /\ c = row[2]
  OBVIOUS
<1>2. /\ c \in Cred /\ Judge(c, Fate(c)) /\ cmse' = cmse
      /\ waits' = (waits \cup Waiting(c, Fate(c))) \ (IF Fate(c) = t THEN {} ELSE {<<t, c>>})
  BY <1>1 DEF CardTypes, Retry, Left, ownVars
<1>3. CardTypes'
  BY <1>2 DEF CardTypes, Waiting
<1>4. Remembers
  <2> SUFFICES ASSUME NEW d \in Cred, InEscrow(d), ~InEscrow(d)'
               PROVE  d \in saved' \/ Hopeless(d)
    BY DEF Remembers
  <2>1. PICK u \in Table : <<u, d>> \in waits /\ <<u, d>> \notin waits'
    BY DEF InEscrow
  <2>2. d = c /\ u = t /\ Fate(c) # t
    BY <1>2, <2>1
  <2>3. Fate(c) \notin Table
    <3> SUFFICES ASSUME Fate(c) \in Table PROVE FALSE
      OBVIOUS
    <3>1. <<Fate(c), c>> \in waits'
      BY <1>2, <2>2 DEF Waiting
    <3> QED BY <2>2, <3>1 DEF InEscrow
  <2> QED BY <1>2, <2>2, <2>3, Fates, JudgedSaved, RefusedNeeds
<1> QED BY <1>2, <1>3, <1>4, JudgedSaved

LEMMA GiveUpStep ==
    ASSUME CardTypes, NEW row \in late, GiveUp(row[1], row[2])
    PROVE  CardTypes' /\ SavedFirst /\ Remembers
<1>1. PICK t, c : t = row[1] /\ c = row[2]
  OBVIOUS
<1>2. <<t, c>> \in late /\ waits' = waits \ {<<t, c>>} /\ UNCHANGED <<saved, cmse>>
  BY <1>1 DEF GiveUp, ownVars
<1>3. CardTypes' /\ SavedFirst
  BY <1>2 DEF CardTypes, SavedFirst
<1>4. Remembers
  <2> SUFFICES ASSUME NEW d \in Cred, InEscrow(d), ~InEscrow(d)'
               PROVE  \E u \in Table : <<u, d>> \in late
    BY DEF Remembers
  <2>1. PICK u \in Table : <<u, d>> \in waits /\ <<u, d>> \notin waits'
    BY DEF InEscrow
  <2> QED BY <1>2, <2>1
<1> QED BY <1>3, <1>4

LEMMA VerifierStep ==
    ASSUME Inv, CardTypes, [Next]_vars PROVE CardTypes' /\ SavedFirst /\ Remembers
<1> DEFINE Done == CardTypes' /\ SavedFirst /\ Remembers
<1>1. ASSUME NEW m \in Of("cred"), Show(m), Bring(m) PROVE Done
  <2>1. m.cred \in Cred
    BY DEF Of, Inv, Types, Message
  <2>2. Judge(m.cred, Fate(m.cred)) /\ waits' = waits \cup Waiting(m.cred, Fate(m.cred)) /\ cmse' = cmse
    BY <1>1 DEF Show, ownVars
  <2> QED BY <2>1, <2>2, ShowStep
<1>2. ASSUME NEW row \in waits, Retry(row[1], row[2]) PROVE Done
  BY <1>2, RetryStep
<1>3. ASSUME NEW row \in late, GiveUp(row[1], row[2]) PROVE Done
  BY <1>3, GiveUpStep
<1>4. ASSUME NEW c \in cmse, Finish(c) PROVE Done
  <2>1. /\ c \in Cred /\ Judge(c, Fate(c)) /\ waits' = waits \cup Waiting(c, Fate(c))
        /\ cmse' \subseteq cmse
    BY <1>4 DEF CardTypes, Finish
  <2> QED BY <2>1, ShowStep
<1>5. ASSUME waits' = waits, saved' = saved, cmse' \subseteq Cred PROVE Done
  BY <1>5 DEF CardTypes, SavedFirst, Remembers, InEscrow
<1>6. ASSUME NEW e \in Makeable, NEW k \in KelEvent, Make(e, k) \/ StopAfterAnchor(e, k) PROVE Done
  <2>1. e \in TelEvent /\ (Tel[e].ilk \in {"iss", "bis"} => Tel[e].pre \in Cred)
    BY FormAssumption DEF Makeable
  <2>2. waits' = waits /\ saved' = saved /\ cmse' \subseteq cmse \cup (IF Tel[e].ilk \in {"iss", "bis"} THEN {Tel[e].pre} ELSE {})
    BY <1>6 DEF Make, StopAfterAnchor, credVars, ownVars
  <2> QED BY <1>5, <2>1, <2>2 DEF CardTypes
<1>7. ASSUME \/ \E m \in Of("event") : Receive(m) /\ Bring(m)
             \/ \E m \in Of("event") : StopBeforeCache(m)
             \/ \E row \in Replayable : Replay(row[1], row[2])
             \/ \E e \in TelEvent : DropUnanchored(e)
             \/ HourPasses
             \/ \E m \in Of("kel") : AcceptKel(m.kel) /\ Bring(m)
             \/ \E x \in Schema : Resolve(x)
             \/ UNCHANGED vars
      PROVE  Done
  <2>1. waits' = waits /\ saved' = saved /\ cmse' = cmse
    BY <1>7 DEF Receive, StopBeforeCache, Replay, DropUnanchored, HourPasses, AcceptKel, Resolve,
                vars, credVars, ownVars
  <2> QED BY <1>5, <2>1 DEF CardTypes
<1> HIDE DEF Done
<1>8. Done
  BY <1>1, <1>2, <1>3, <1>4, <1>6, <1>7 DEF Next
<1> QED BY <1>8 DEF Done

LEMMA VerifierAlways == Spec => [](Inv /\ CardTypes)
<1>1. Init => CardTypes
  BY DEF Init, CardTypes
<1>2. Inv /\ CardTypes /\ [Next]_vars => CardTypes'
  BY VerifierStep
<1> QED BY <1>1, <1>2, Invariant, PTL DEF Spec

------------------------------------------------------------------------------
(***************************************************************************)
(* Tevery.processEvent, issue, revoke: for any messages in any order, with *)
(* stops and sweeps between them, the log of a credential is an issuance   *)
(* and events that each name the one before.                               *)
(***************************************************************************)
THEOREM CredentialLogsChained == Spec => []LogChained
<1>1. Inv => LogChained
  BY DEF Inv
<1> QED BY <1>1, Invariant, PTL

(***************************************************************************)
(* verifyAnchor: whatever couple came with an event or was kept, it enters *)
(* its log only while the last key event at the number the couple names    *)
(* seals it and nothing else.                                              *)
(***************************************************************************)
THEOREM LoggedOnAnchor == Spec => LoggedAnchored
<1>1. Inv /\ [Next]_vars => [LogsSealed]_vars
  BY NextStep
<1> QED BY <1>1, Invariant, PTL DEF Spec, LoggedAnchored, LogsSealed
(***************************************************************************)
(* processCredential, verifyChain and the escrows: in whatever order the   *)
(* issuance, the schema, the credentials chained to and their revocations  *)
(* come, a credential is saved only when its issuance is logged and all it *)
(* chains to are saved, issued and not revoked, each to this one's issuer  *)
(* where the edge asks for it.                                             *)
(***************************************************************************)
THEOREM SavedAreVouched == Spec => SavedVouched
<1>1. Inv /\ CardTypes /\ [Next]_vars => [SavedFirst]_vars
  BY VerifierStep
<1> QED BY <1>1, VerifierAlways, PTL DEF Spec, SavedVouched, SavedFirst

(***************************************************************************)
(* processEscrow: a credential that waits changes escrows without being    *)
(* forgotten; it leaves them saved, late, or chained to what refuses it.   *)
(***************************************************************************)
THEOREM WaitingAreKept == Spec => NothingForgotten
<1>1. Inv /\ CardTypes /\ [Next]_vars => [Remembers]_vars
  BY VerifierStep
<1> QED BY <1>1, VerifierAlways, PTL DEF Spec, NothingForgotten, Remembers
==============================================================================
