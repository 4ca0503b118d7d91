-------------------------- MODULE Services_proofs --------------------------
(***************************************************************************)
(* Theorems about the machines of MCServices, for any values of their      *)
(* constants.  First the lemmas about the mutexes of the coordinator, the  *)
(* dead-man's switch, the monitors, the notices, the observations,         *)
(* maintenance and the status page, each an inductive invariant of the     *)
(* machine and what follows from it; those about access, the network  *)
(* and the prober are in modules of their own.  At the end the theorems,   *)
(* about every behaviour in which the machine moves.                       *)
(***************************************************************************)
EXTENDS MCServices, FunctionTheorems, FiniteSetTheorems, SequenceTheorems, TLAPS

-----------------------------------------------------------------------------
(* The mutexes.  They have ranks, and every goroutine takes them in        *)
(* ascending order, whatever it computes with what they protect.           *)

(* A goroutine that holds a mutex takes only those of greater rank.        *)
Rank(k) ==
    CASE k \in {"catalogMu", "haMu", "deliveryMu"} -> 0
      [] k = "persistMu" -> 1
      [] k \in Waiting!Entity    -> 2
      [] k = "historyMu" -> 3

Op == [op : {"take", "free"}, what : Waiting!Mutex] \cup {[op |-> "await", what |-> "answer"]}

\* Behind its i-th step p frees k, and takes only what is above k until then.
FreesAfter(p, i, k) ==
    \E l \in DOMAIN p :
        /\ i < l /\ p[l] = [op |-> "free", what |-> k]
        /\ \A j \in DOMAIN p : i < j /\ j < l /\ p[j].op = "take" => Rank(k) < Rank(p[j].what)

Ascending(p) ==
    \A i \in DOMAIN p : p[i].op = "take" => FreesAfter(p, i, p[i].what)

\* A program that takes nothing below r, and can run where nothing above r is held.
From(r, p) ==
    /\ p \in Seq(Op) /\ Ascending(p)
    /\ \A i \in DOMAIN p : p[i].op = "take" => r <= Rank(p[i].what)

MutexInv ==
    /\ program = [g \in DOMAIN Goroutine |-> program[g]]
    /\ \A g \in DOMAIN Goroutine : program[g] \in Seq(Op) /\ Ascending(program[g])
    /\ holder \in [Waiting!Mutex -> DOMAIN Goroutine \cup {Waiting!Nobody}]
    /\ \A g \in DOMAIN Goroutine, k \in Waiting!Mutex : holder[k] = g => FreesAfter(program[g], 0, k)

-----------------------------------------------------------------------------
(* Ranks, and the programs that respect them.                              *)

LEMMA Ranks ==
    ASSUME Waiting!MutexesAssumption
    PROVE  /\ \A k \in Waiting!Mutex : Rank(k) \in 0 .. 3
           /\ \A k \in Waiting!Entity : Rank(k) = 2
           /\ Rank("catalogMu") = 0 /\ Rank("haMu") = 0 /\ Rank("deliveryMu") = 0
           /\ Rank("persistMu") = 1 /\ Rank("historyMu") = 3
BY DEF Waiting!MutexesAssumption, Rank, Waiting!Mutex, Waiting!Lone, Waiting!Entity

LEMMA Nothing == ASSUME NEW r PROVE From(r, <<>>)
BY DEF From, Ascending

LEMMA Awaits == ASSUME NEW r PROVE From(r, Waiting!Await)
BY DEF From, Ascending, Waiting!Await, Op

LEMMA Weaker ==
    ASSUME Waiting!MutexesAssumption, NEW r \in Nat, NEW s \in Nat, s <= r, NEW p, From(r, p)
    PROVE  From(s, p)
<1>1. \A i \in DOMAIN p : p[i].op = "take" => p[i].what \in Waiting!Mutex
    BY DEF From, Op
<1>2. QED
    BY <1>1, Ranks DEF From

LEMMA InTurn ==
    ASSUME NEW r, NEW p, NEW q, From(r, p), From(r, q)
    PROVE  From(r, p \o q)
<1> DEFINE s == p \o q
<1>1. /\ p \in Seq(Op) /\ q \in Seq(Op) /\ s \in Seq(Op)
      /\ Len(p) \in Nat /\ Len(q) \in Nat /\ Len(s) = Len(p) + Len(q)
      /\ \A i \in 1 .. Len(p) : s[i] = p[i]
      /\ \A i \in 1 .. Len(q) : s[i + Len(p)] = q[i]
      /\ DOMAIN p = 1 .. Len(p) /\ DOMAIN q = 1 .. Len(q) /\ DOMAIN s = 1 .. Len(p) + Len(q)
    BY DEF From
<1> HIDE DEF s
<1>2. ASSUME NEW i \in DOMAIN s, s[i].op = "take"
      PROVE  FreesAfter(s, i, s[i].what) /\ r <= Rank(s[i].what)
    <2>1. CASE i <= Len(p)
        <3>1. i \in DOMAIN p /\ s[i] = p[i]
            BY <1>1, <2>1
        <3>2. PICK l \in DOMAIN p :
                  /\ i < l /\ p[l] = [op |-> "free", what |-> p[i].what]
                  /\ \A j \in DOMAIN p : i < j /\ j < l /\ p[j].op = "take" =>
                         Rank(p[i].what) < Rank(p[j].what)
            BY <1>2, <3>1 DEF From, Ascending, FreesAfter
        <3>3. l \in DOMAIN s /\ s[l] = p[l]
            BY <1>1
        <3>4. ASSUME NEW j \in DOMAIN s, i < j, j < l PROVE j \in DOMAIN p /\ s[j] = p[j]
            BY <1>1, <3>1, <3>4
        <3>5. QED
            BY <1>2, <3>1, <3>2, <3>3, <3>4 DEF FreesAfter, From
    <2>2. CASE i > Len(p)
        <3> DEFINE n == i - Len(p)
        <3>1. n \in DOMAIN q /\ i = n + Len(p) /\ s[i] = q[n]
            BY <1>1, <2>2
        <3>2. PICK l \in DOMAIN q :
                  /\ n < l /\ q[l] = [op |-> "free", what |-> q[n].what]
                  /\ \A j \in DOMAIN q : n < j /\ j < l /\ q[j].op = "take" =>
                         Rank(q[n].what) < Rank(q[j].what)
            BY <1>2, <3>1 DEF From, Ascending, FreesAfter
        <3>3. l + Len(p) \in DOMAIN s /\ s[l + Len(p)] = q[l] /\ i < l + Len(p)
            BY <1>1, <3>1, <3>2
        <3>4. ASSUME NEW j \in DOMAIN s, i < j, j < l + Len(p)
              PROVE  j - Len(p) \in DOMAIN q /\ s[j] = q[j - Len(p)] /\ n < j - Len(p) /\ j - Len(p) < l
            BY <1>1, <3>1, <3>4
        <3>5. QED
            BY <1>2, <3>1, <3>2, <3>3, <3>4 DEF FreesAfter, From
    <2>3. QED
        BY <1>1, <2>1, <2>2
<1>3. QED
    BY <1>1, <1>2 DEF From, Ascending, s

LEMMA Inside ==
    ASSUME Waiting!MutexesAssumption, NEW k \in Waiting!Mutex, NEW p, From(Rank(k) + 1, p)
    PROVE  From(Rank(k), Waiting!Within(k, p))
<1> DEFINE s == Waiting!Within(k, p)
           n == Len(p)
<1>1. /\ p \in Seq(Op) /\ n \in Nat /\ DOMAIN p = 1 .. n
      /\ s \in Seq(Op) /\ Len(s) = n + 2 /\ DOMAIN s = 1 .. n + 2
      /\ s[1] = [op |-> "take", what |-> k] /\ s[n + 2] = [op |-> "free", what |-> k]
      /\ \A i \in 1 .. n : s[i + 1] = p[i]
    BY DEF From, Waiting!Within, Waiting!Take, Waiting!Free, Op
<1>2. Rank(k) \in 0 .. 3
    BY Ranks
<1> HIDE DEF s, n
<1>3. ASSUME NEW i \in 2 .. n + 1 PROVE i - 1 \in DOMAIN p /\ s[i] = p[i - 1]
    BY <1>1
<1>4. \A i \in DOMAIN p : p[i].op = "take" => p[i].what \in Waiting!Mutex /\ Rank(k) < Rank(p[i].what)
    <2>1. \A i \in DOMAIN p : p[i].op = "take" => p[i].what \in Waiting!Mutex /\ Rank(p[i].what) \in 0 .. 3
        BY Ranks DEF From, Op
    <2>2. QED
        BY <1>2, <2>1 DEF From
<1>5. FreesAfter(s, 1, k)
    <2>1. ASSUME NEW j \in DOMAIN s, 1 < j, j < n + 2, s[j].op = "take" PROVE Rank(k) < Rank(s[j].what)
        <3>1. j \in 2 .. n + 1
            BY <1>1, <2>1
        <3>2. j - 1 \in DOMAIN p /\ s[j] = p[j - 1]
            BY <1>3, <3>1
        <3>3. QED
            BY <1>4, <2>1, <3>2
    <2>2. n + 2 \in DOMAIN s /\ 1 < n + 2
        BY <1>1
    <2>3. QED
        BY <1>1, <2>1, <2>2 DEF FreesAfter
<1>6. ASSUME NEW i \in 2 .. n + 1, s[i].op = "take"
      PROVE  FreesAfter(s, i, s[i].what) /\ Rank(k) <= Rank(s[i].what)
    <2>1. i - 1 \in DOMAIN p /\ s[i] = p[i - 1]
        BY <1>3
    <2>2. PICK l \in DOMAIN p :
              /\ i - 1 < l /\ p[l] = [op |-> "free", what |-> p[i - 1].what]
              /\ \A j \in DOMAIN p : i - 1 < j /\ j < l /\ p[j].op = "take" =>
                     Rank(p[i - 1].what) < Rank(p[j].what)
        BY <1>6, <2>1 DEF From, Ascending, FreesAfter
    <2>3. l + 1 \in DOMAIN s /\ s[l + 1] = p[l] /\ i < l + 1
        BY <1>1, <2>2
    <2>4. ASSUME NEW j \in DOMAIN s, i < j, j < l + 1
          PROVE  j - 1 \in DOMAIN p /\ s[j] = p[j - 1] /\ i - 1 < j - 1 /\ j - 1 < l
        <3>1. j \in 2 .. n + 1
            BY <1>1, <2>4
        <3>2. j - 1 \in DOMAIN p /\ s[j] = p[j - 1]
            BY <1>3, <3>1
        <3>3. i \in Int /\ j \in Int /\ l \in Int
            BY <1>1, <3>1
        <3>4. QED
            BY <2>4, <3>2, <3>3
    <2>5. FreesAfter(s, i, s[i].what)
        BY <2>1, <2>2, <2>3, <2>4 DEF FreesAfter
    <2>6. p[i - 1].what \in Waiting!Mutex /\ Rank(k) < Rank(p[i - 1].what) /\ Rank(p[i - 1].what) \in 0 .. 3
        BY <1>4, <1>6, <2>1, Ranks
    <2>7. QED
        BY <1>2, <2>1, <2>5, <2>6
<1>7. ASSUME NEW i \in DOMAIN s, s[i].op = "take"
      PROVE  FreesAfter(s, i, s[i].what) /\ Rank(k) <= Rank(s[i].what)
    BY <1>1, <1>2, <1>5, <1>6, <1>7
<1>8. QED
    BY <1>1, <1>7 DEF From, Ascending, s

LEMMA OneAfterTheOther ==
    ASSUME Waiting!MutexesAssumption, NEW S \in SUBSET Waiting!Entity
    PROVE  From(2, Waiting!OneByOne(S))
<1> DEFINE c == Waiting!Cardinality(S)
           q == Waiting!SetToSeq(S)
           s == Waiting!OneByOne(S)
<1>1. IsFiniteSet(S)
    <2>1. IsFiniteSet(Member) /\ IsFiniteSet({"component"})
        BY FS_Singleton DEF Waiting!MutexesAssumption, Waiting!IsFiniteSet, IsFiniteSet
    <2>2. IsFiniteSet(Waiting!Entity)
        BY <2>1, FS_Union DEF Waiting!Entity
    <2>3. QED
        BY <2>2, FS_Subset
<1>2. c \in Nat /\ q \in [1 .. c -> S]
    <2>1. c \in Nat /\ ExistsBijection(1 .. c, S)
        BY <1>1, FS_CardinalityType DEF Waiting!Cardinality, Cardinality
    <2>2. \E f \in [1 .. c -> S] : IsInjective(f)
        BY <2>1 DEF ExistsBijection, Bijection, Injection, Surjection, IsInjective
    <2>3. QED
        BY <2>1, <2>2 DEF Waiting!SetToSeq, Waiting!IsInjective, IsInjective
<1> HIDE DEF c, q
<1>3. s = [i \in 1 .. 2 * c |->
              [op |-> IF i % 2 = 1 THEN "take" ELSE "free", what |-> q[(i + 1) \div 2]]]
    BY DEF Waiting!OneByOne, c, q
<1> HIDE DEF s
<1>4. 2 * c \in Nat /\ \A i \in 1 .. 2 * c : (i + 1) \div 2 \in 1 .. c
    BY <1>2
<1>5. DOMAIN s = 1 .. 2 * c /\ s \in Seq(Op)
    <2>1. \A i \in 1 .. 2 * c : q[(i + 1) \div 2] \in Waiting!Mutex
        BY <1>2, <1>4 DEF Waiting!Mutex
    <2>2. s \in [1 .. 2 * c -> Op]
        BY <1>3, <2>1 DEF Op
    <2>3. QED
        BY <1>4, <2>2
<1>6. ASSUME NEW i \in DOMAIN s, s[i].op = "take"
      PROVE  FreesAfter(s, i, s[i].what) /\ 2 <= Rank(s[i].what)
    <2>1. i \in 1 .. 2 * c /\ i % 2 = 1 /\ s[i].what = q[(i + 1) \div 2]
        BY <1>3, <1>5, <1>6
    <2>2. i + 1 \in 1 .. 2 * c /\ (i + 1) % 2 # 1 /\ (i + 2) \div 2 = (i + 1) \div 2
        BY <1>2, <2>1
    <2>3. s[i + 1] = [op |-> "free", what |-> s[i].what]
        BY <1>3, <2>1, <2>2
    <2>4. \A j \in DOMAIN s : ~ (i < j /\ j < i + 1)
        BY <1>5, <2>1
    <2>5. FreesAfter(s, i, s[i].what)
        BY <1>5, <2>1, <2>2, <2>3, <2>4 DEF FreesAfter
    <2>6. s[i].what \in Waiting!Entity
        BY <1>2, <1>4, <2>1
    <2>7. QED
        BY <2>5, <2>6, Ranks
<1>7. QED
    BY <1>5, <1>6 DEF From, Ascending, s

-----------------------------------------------------------------------------
(* What the goroutines do.                                                 *)

LEMMA Parts ==
    ASSUME Waiting!MutexesAssumption
    PROVE  /\ From(1, Waiting!Persist) /\ From(0, Waiting!Emit)
           /\ From(2, Waiting!RollUp) /\ From(0, Waiting!RollUpAndEmit)
           /\ From(3, Waiting!RecordObservation) /\ From(3, Waiting!Corroborate)
<1>1. From(1, Waiting!Persist)
    <2>1. From(2, Waiting!OneByOne(Waiting!Entity) \o Waiting!Await)
        BY OneAfterTheOther, Awaits, InTurn
    <2>2. "persistMu" \in Waiting!Mutex /\ Rank("persistMu") = 1
        BY Ranks DEF Waiting!Mutex, Waiting!Lone
    <2>3. From(1, Waiting!Within("persistMu", Waiting!OneByOne(Waiting!Entity) \o Waiting!Await))
        BY <2>1, <2>2, Inside
    <2>4. QED
        BY <2>3 DEF Waiting!Persist
<1>2. From(0, Waiting!Emit)
    <2>1. "deliveryMu" \in Waiting!Mutex /\ Rank("deliveryMu") = 0
        BY Ranks DEF Waiting!Mutex, Waiting!Lone
    <2>2. From(1, Waiting!Await \o Waiting!Persist) /\ From(1, <<>>)
        BY <1>1, Awaits, Nothing, InTurn
    <2>3. From(0, Waiting!Within("deliveryMu", <<>>)) /\
             From(0, Waiting!Within("deliveryMu", Waiting!Await \o Waiting!Persist))
        BY <2>1, <2>2, Inside
    <2>4. From(0, Waiting!Persist)
        BY <1>1, Weaker
    <2>5. From(0, Waiting!Within("deliveryMu", <<>>) \o Waiting!Persist)
        BY <2>3, <2>4, InTurn
    <2>6. QED
        BY <2>3, <2>5, InTurn DEF Waiting!Emit
<1>3. From(2, Waiting!RollUp)
    <2>1. "component" \in Waiting!Mutex /\ Rank("component") = 2
        BY Ranks DEF Waiting!Mutex, Waiting!Entity
    <2>2. From(2, Waiting!Within("component", <<>>))
        BY <2>1, Inside, Nothing
    <2>3. From(2, Waiting!OneByOne(Member))
        BY OneAfterTheOther DEF Waiting!Entity
    <2>4. QED
        BY <2>2, <2>3, InTurn DEF Waiting!RollUp
<1>4. From(0, Waiting!RollUpAndEmit)
    <2>1. From(0, Waiting!RollUp) /\ From(0, Waiting!OneByOne(Member))
        BY <1>3, OneAfterTheOther, Weaker DEF Waiting!Entity
    <2>2. From(0, Waiting!RollUp \o Waiting!OneByOne(Member))
        BY <2>1, InTurn
    <2>3. From(0, (Waiting!RollUp \o Waiting!OneByOne(Member)) \o Waiting!OneByOne(Member))
        BY <2>1, <2>2, InTurn
    <2>4. QED
        BY <1>2, <2>3, InTurn DEF Waiting!RollUpAndEmit
<1>5. From(3, Waiting!RecordObservation)
    <2>1. "historyMu" \in Waiting!Mutex /\ Rank("historyMu") = 3
        BY Ranks DEF Waiting!Mutex, Waiting!Lone
    <2>2. From(3, Waiting!Within("historyMu", Waiting!Await))
        BY <2>1, Inside, Awaits
    <2>3. QED
        BY <2>2 DEF Waiting!RecordObservation
<1>6. From(3, Waiting!Corroborate)
    BY <1>5, Awaits, InTurn DEF Waiting!Corroborate
<1>7. QED
    BY <1>1, <1>2, <1>3, <1>4, <1>5, <1>6

LEMMA EveryProgram ==
    ASSUME Waiting!MutexesAssumption, NEW g \in DOMAIN Goroutine, NEW ops \in Waiting!Programs(Goroutine[g])
    PROVE  ops \in Seq(Op) /\ Ascending(ops)
<1>1. CASE Goroutine[g] = "result"
    <2>1. PICK c \in Member : ops \in Waiting!Process(c)
        BY <1>1 DEF Waiting!Programs
    <2>2. PICK roll \in {Waiting!RollUp, Waiting!RollUpAndEmit} :
              ops = Waiting!Within(c, Waiting!Corroborate) \o Waiting!RecordObservation \o roll \o
                 Waiting!Persist
        BY <2>1 DEF Waiting!Process
    <2>3. From(0, Waiting!Within(c, Waiting!Corroborate))
        <3>1. c \in Waiting!Mutex /\ Rank(c) = 2
            BY Ranks DEF Waiting!Mutex, Waiting!Entity
        <3>2. From(2, Waiting!Within(c, Waiting!Corroborate))
            BY <3>1, Parts, Inside
        <3>3. QED
            BY <3>2, Weaker
    <2>4. From(0, Waiting!RecordObservation) /\ From(0, roll) /\ From(0, Waiting!Persist)
        BY Parts, Weaker
    <2>5. From(0, Waiting!Within(c, Waiting!Corroborate) \o Waiting!RecordObservation)
        BY <2>3, <2>4, InTurn
    <2>6. From(0, (Waiting!Within(c, Waiting!Corroborate) \o Waiting!RecordObservation) \o roll)
        BY <2>4, <2>5, InTurn
    <2>7. From(0, ((Waiting!Within(c, Waiting!Corroborate) \o Waiting!RecordObservation) \o roll) \o
             Waiting!Persist)
        BY <2>4, <2>6, InTurn
    <2>8. QED
        BY <2>2, <2>7 DEF From
<1>2. CASE Goroutine[g] = "others"
    <2>1. From(1, Waiting!Persist) /\ From(1, Waiting!RecordObservation)
        BY Parts, Weaker
    <2>2. From(1, Waiting!Persist \o Waiting!Await \o Waiting!Persist) /\
             From(1, Waiting!RecordObservation \o Waiting!Persist)
        BY <2>1, Awaits, InTurn
    <2>3. \A k \in {"deliveryMu", "catalogMu", "haMu"} : k \in Waiting!Mutex /\ Rank(k) = 0
        BY Ranks DEF Waiting!Mutex, Waiting!Lone
    <2>4. \A k \in {"deliveryMu", "catalogMu", "haMu"} :
              \A p : From(1, p) => From(0, Waiting!Within(k, p))
        BY <2>3, Inside
    <2>5. ops \in {Waiting!Within("deliveryMu", Waiting!Persist \o Waiting!Await \o Waiting!Persist),
                   Waiting!Within("deliveryMu", Waiting!Persist), Waiting!Within("catalogMu", Waiting!Persist),
                   Waiting!Within("haMu", Waiting!Persist),
                      Waiting!Within("haMu", Waiting!RecordObservation \o Waiting!Persist)}
        BY <1>2 DEF Waiting!Programs
    <2>6. From(0, ops)
        BY <2>1, <2>2, <2>4, <2>5
    <2>7. QED
        BY <2>6 DEF From
<1>3. QED
    BY <1>1, <1>2 DEF Waiting!MutexesAssumption

-----------------------------------------------------------------------------
(* The steps of a goroutine keep what it has still to free ahead of it.    *)

LEMMA Onward ==
    ASSUME NEW p \in Seq(Op), p # <<>>, Ascending(p)
    PROVE  /\ Tail(p) \in Seq(Op) /\ Ascending(Tail(p))
           /\ Head(p).op = "take" => FreesAfter(Tail(p), 0, Head(p).what)
           /\ \A k : FreesAfter(p, 0, k) /\ Head(p) # [op |-> "free", what |-> k] =>
                  FreesAfter(Tail(p), 0, k)
<1> DEFINE n == Len(p)
           t == Tail(p)
<1>1. /\ n \in Nat /\ 1 \in DOMAIN p /\ DOMAIN p = 1 .. n /\ Head(p) = p[1]
      /\ t \in Seq(Op) /\ DOMAIN t = 1 .. n - 1
      /\ \A i \in 1 .. n - 1 : t[i] = p[i + 1]
    OBVIOUS
<1> HIDE DEF n, t
<1>2. ASSUME NEW i \in Nat, NEW k, FreesAfter(p, i + 1, k) PROVE FreesAfter(t, i, k)
    <2>1. PICK l \in DOMAIN p :
              /\ i + 1 < l /\ p[l] = [op |-> "free", what |-> k]
              /\ \A j \in DOMAIN p : i + 1 < j /\ j < l /\ p[j].op = "take" =>
                     Rank(k) < Rank(p[j].what)
        BY <1>2 DEF FreesAfter
    <2>2. l - 1 \in DOMAIN t /\ i < l - 1 /\ t[l - 1] = p[l]
        BY <1>1, <2>1
    <2>3. ASSUME NEW j \in DOMAIN t, i < j, j < l - 1
          PROVE  j + 1 \in DOMAIN p /\ i + 1 < j + 1 /\ j + 1 < l /\ t[j] = p[j + 1]
        BY <1>1, <2>1, <2>3
    <2>4. QED
        BY <2>1, <2>2, <2>3 DEF FreesAfter
<1>3. Ascending(t)
    <2>1. ASSUME NEW i \in DOMAIN t, t[i].op = "take" PROVE FreesAfter(t, i, t[i].what)
        <3>1. i \in Nat /\ i + 1 \in DOMAIN p /\ t[i] = p[i + 1]
            BY <1>1
        <3>2. FreesAfter(p, i + 1, t[i].what)
            BY <2>1, <3>1 DEF Ascending
        <3>3. QED
            BY <1>2, <3>1, <3>2
    <2>2. QED
        BY <2>1 DEF Ascending
<1>4. Head(p).op = "take" => FreesAfter(t, 0, Head(p).what)
    <2>1. Head(p).op = "take" => FreesAfter(p, 0 + 1, Head(p).what)
        BY <1>1 DEF Ascending
    <2>2. QED
        BY <1>2, <2>1
<1>5. ASSUME NEW k, FreesAfter(p, 0, k), Head(p) # [op |-> "free", what |-> k]
      PROVE  FreesAfter(t, 0, k)
    <2>1. PICK l \in DOMAIN p :
              /\ 0 < l /\ p[l] = [op |-> "free", what |-> k]
              /\ \A j \in DOMAIN p : 0 < j /\ j < l /\ p[j].op = "take" =>
                     Rank(k) < Rank(p[j].what)
        BY <1>5 DEF FreesAfter
    <2>2. 1 < l
        BY <1>1, <1>5, <2>1
    <2>3. \A j \in DOMAIN p : 1 < j /\ j < l /\ p[j].op = "take" => Rank(k) < Rank(p[j].what)
        BY <1>1, <2>1
    <2>4. FreesAfter(p, 0 + 1, k)
        BY <2>1, <2>2, <2>3 DEF FreesAfter
    <2>5. QED
        BY <1>2, <2>4
<1>6. QED
    BY <1>1, <1>3, <1>4, <1>5 DEF t

LEMMA MutexInit == ASSUME Waiting!MutexesAssumption PROVE Waiting!Init => MutexInv
BY DEF Waiting!MutexesAssumption, Waiting!Init, MutexInv, Ascending

LEMMA MutexStep == ASSUME Waiting!MutexesAssumption PROVE MutexInv /\ [Waiting!Next]_(Waiting!vars) => MutexInv'
<1> SUFFICES ASSUME Waiting!MutexesAssumption, MutexInv, [Waiting!Next]_(Waiting!vars) PROVE MutexInv'
    OBVIOUS
<1> USE DEF MutexInv
<1>1. ASSUME NEW g \in DOMAIN Goroutine, NEW p,
             program' = [program EXCEPT ![g] = p], p \in Seq(Op), Ascending(p),
             holder' \in [Waiting!Mutex -> DOMAIN Goroutine \cup {Waiting!Nobody}],
             \A h \in DOMAIN Goroutine \ {g}, k \in Waiting!Mutex : holder'[k] = h => holder[k] = h,
             \A k \in Waiting!Mutex : holder'[k] = g => FreesAfter(p, 0, k)
      PROVE  MutexInv'
    <2>1. /\ DOMAIN program = DOMAIN Goroutine
          /\ program' = [h \in DOMAIN Goroutine |-> IF h = g THEN p ELSE program[h]]
        BY <1>1
    <2>2. /\ program'[g] = p
          /\ \A h \in DOMAIN Goroutine \ {g} : program'[h] = program[h]
          /\ program' = [h \in DOMAIN Goroutine |-> program'[h]]
        BY <2>1
    <2>3. \A h \in DOMAIN Goroutine, k \in Waiting!Mutex :
              holder'[k] = h => FreesAfter(program'[h], 0, k)
        BY <1>1, <2>2
    <2>4. \A h \in DOMAIN Goroutine : program'[h] \in Seq(Op) /\ Ascending(program'[h])
        BY <1>1, <2>2
    <2>5. QED
        BY <1>1, <2>2, <2>3, <2>4
<1>2. ASSUME NEW g \in DOMAIN Goroutine, Waiting!Begin(g) PROVE MutexInv'
    <2>1. PICK ops \in Waiting!Programs(Goroutine[g]) : program' = [program EXCEPT ![g] = ops]
        BY <1>2 DEF Waiting!Begin
    <2>2. ops \in Seq(Op) /\ Ascending(ops)
        BY EveryProgram
    <2>3. \A k \in Waiting!Mutex : holder[k] # g
        <3>1. \A k : ~ FreesAfter(<<>>, 0, k)
            BY DEF FreesAfter
        <3>2. program[g] = <<>>
            BY <1>2 DEF Waiting!Begin
        <3>3. QED
            BY <3>1, <3>2
    <2>4. QED
        BY <1>1, <1>2, <2>1, <2>2, <2>3 DEF Waiting!Begin
<1>3. ASSUME NEW g \in DOMAIN Goroutine, Waiting!Goes(g), program[g] # <<>>
      PROVE  /\ Tail(program[g]) \in Seq(Op) /\ Ascending(Tail(program[g]))
             /\ Head(program[g]) \in Op
             /\ Head(program[g]).op = "take" => FreesAfter(Tail(program[g]), 0, Head(program[g]).what)
             /\ \A k \in Waiting!Mutex : holder[k] = g /\ Head(program[g]) # [op |-> "free", what |-> k] =>
                    FreesAfter(Tail(program[g]), 0, k)
             /\ program' = [program EXCEPT ![g] = Tail(program[g])]
    <2>1. program[g] \in Seq(Op) /\ Ascending(program[g])
        OBVIOUS
    <2>2. Head(program[g]) \in Op
        BY <1>3, <2>1
    <2>3. \A k \in Waiting!Mutex : holder[k] = g => FreesAfter(program[g], 0, k)
        OBVIOUS
    <2> HIDE DEF MutexInv
    <2>4. /\ Tail(program[g]) \in Seq(Op) /\ Ascending(Tail(program[g]))
          /\ Head(program[g]).op = "take" =>
                 FreesAfter(Tail(program[g]), 0, Head(program[g]).what)
          /\ \A k : FreesAfter(program[g], 0, k) /\ Head(program[g]) # [op |-> "free", what |-> k] =>
                 FreesAfter(Tail(program[g]), 0, k)
        BY <1>3, <2>1, Onward
    <2>5. QED
        BY <1>3, <2>2, <2>3, <2>4 DEF Waiting!Goes
<1>4. ASSUME NEW g \in DOMAIN Goroutine, Waiting!Lock(g) PROVE MutexInv'
    <2> DEFINE m == Head(program[g]).what
    <2>1. program[g] # <<>> /\ Head(program[g]).op = "take" /\ Waiting!Goes(g)
        BY <1>4 DEF Waiting!Lock, Waiting!Does
    <2>2. m \in Waiting!Mutex
        BY <1>3, <2>1 DEF Op
    <2>3. holder' = [holder EXCEPT ![m] = g]
        BY <1>4 DEF Waiting!Lock
    <2> HIDE DEF m
    <2>4. /\ holder' \in [Waiting!Mutex -> DOMAIN Goroutine \cup {Waiting!Nobody}]
          /\ holder'[m] = g /\ \A k \in Waiting!Mutex \ {m} : holder'[k] = holder[k]
        BY <2>2, <2>3
    <2>5. \A k \in Waiting!Mutex : holder'[k] = g => FreesAfter(Tail(program[g]), 0, k)
        <3>1. FreesAfter(Tail(program[g]), 0, m)
            BY <1>3, <2>1 DEF m
        <3>2. \A k : Head(program[g]) # [op |-> "free", what |-> k]
            BY <2>1
        <3>3. QED
            BY <1>3, <2>1, <2>4, <3>1, <3>2
    <2>6. \A h \in DOMAIN Goroutine \ {g}, k \in Waiting!Mutex : holder'[k] = h => holder[k] = h
        BY <2>4
    <2>7. QED
        BY <1>1, <1>3, <2>1, <2>4, <2>5, <2>6
<1>5. ASSUME NEW g \in DOMAIN Goroutine, Waiting!Unlock(g) PROVE MutexInv'
    <2> DEFINE m == Head(program[g]).what
    <2>1. program[g] # <<>> /\ Head(program[g]).op = "free" /\ Waiting!Goes(g)
        BY <1>5 DEF Waiting!Unlock, Waiting!Does
    <2>2. m \in Waiting!Mutex /\ Head(program[g]) = [op |-> "free", what |-> m]
        BY <1>3, <2>1 DEF Op
    <2>3. holder' = [holder EXCEPT ![m] = Waiting!Nobody]
        BY <1>5 DEF Waiting!Unlock
    <2> HIDE DEF m
    <2>4. /\ holder' \in [Waiting!Mutex -> DOMAIN Goroutine \cup {Waiting!Nobody}]
          /\ holder'[m] = Waiting!Nobody /\ \A k \in Waiting!Mutex \ {m} : holder'[k] = holder[k]
        BY <2>2, <2>3
    <2>5. \A k \in Waiting!Mutex \ {m} : Head(program[g]) # [op |-> "free", what |-> k]
        BY <2>2
    <2>6. \A k \in Waiting!Mutex : holder'[k] = g => FreesAfter(Tail(program[g]), 0, k)
        BY <1>3, <2>1, <2>4, <2>5 DEF Waiting!MutexesAssumption
    <2>7. \A h \in DOMAIN Goroutine \ {g}, k \in Waiting!Mutex : holder'[k] = h => holder[k] = h
        BY <2>4 DEF Waiting!MutexesAssumption
    <2>8. /\ Tail(program[g]) \in Seq(Op) /\ Ascending(Tail(program[g]))
          /\ program' = [program EXCEPT ![g] = Tail(program[g])]
        BY <1>3, <2>1
    <2>9. QED
        BY <1>1, <2>4, <2>6, <2>7, <2>8
<1>6. ASSUME NEW g \in DOMAIN Goroutine, Waiting!Answered(g) PROVE MutexInv'
    <2>1. program[g] # <<>> /\ Head(program[g]).op = "await" /\ Waiting!Goes(g) /\ holder' = holder
        BY <1>6 DEF Waiting!Answered, Waiting!Does
    <2>2. \A k : Head(program[g]) # [op |-> "free", what |-> k]
        BY <2>1
    <2>3. \A k \in Waiting!Mutex : holder'[k] = g => FreesAfter(Tail(program[g]), 0, k)
        BY <1>3, <2>1, <2>2
    <2>4. QED
        BY <1>1, <1>3, <2>1, <2>3
<1>7. CASE UNCHANGED Waiting!vars
    BY <1>7 DEF Waiting!vars
<1>8. QED
    BY <1>2, <1>4, <1>5, <1>6, <1>7 DEF Waiting!Next

\* A goroutine that waits for another wants a mutex of less rank than the one
\* the other waits for, if that waits too: whoever holds a mutex has its
\* release ahead, behind none but greater ones.
LEMMA RanksRise ==
    ASSUME Waiting!MutexesAssumption, MutexInv,
           NEW g \in DOMAIN Goroutine, NEW h \in DOMAIN Goroutine, Waiting!WaitsFor(g) = h,
              Waiting!Does(h, "take")
    PROVE  Rank(Head(program[g]).what) < Rank(Head(program[h]).what)
<1> DEFINE k == Head(program[g]).what
           p == program[h]
<1>1. Waiting!Does(g, "take") /\ holder[k] = h
    BY DEF Waiting!WaitsFor, Waiting!MutexesAssumption
<1>2. k \in Waiting!Mutex
    BY <1>1 DEF MutexInv, Waiting!Does, Op
<1>3. p \in Seq(Op) /\ FreesAfter(p, 0, k)
    BY <1>1, <1>2 DEF MutexInv
<1>4. 1 \in DOMAIN p /\ Head(p) = p[1] /\ p[1].op = "take" /\ DOMAIN p = 1 .. Len(p) /\ Len(p) \in Nat
    BY <1>3 DEF Waiting!Does
<1> HIDE DEF k, p
<1>5. PICK l \in DOMAIN p :
          /\ 0 < l /\ p[l] = [op |-> "free", what |-> k]
          /\ \A j \in DOMAIN p : 0 < j /\ j < l /\ p[j].op = "take" => Rank(k) < Rank(p[j].what)
    BY <1>3 DEF FreesAfter
<1>6. 1 < l
    BY <1>4, <1>5
<1>7. Rank(k) < Rank(p[1].what)
    BY <1>4, <1>5, <1>6
<1>8. QED
    BY <1>4, <1>7 DEF k, p

LEMMA NoCircleThen == ASSUME Waiting!MutexesAssumption, MutexInv PROVE Waiting!NoCircle
<1> SUFFICES ASSUME NEW group \in SUBSET DOMAIN Goroutine, group # {},
                    \A g \in group : Waiting!WaitsFor(g) \in group
             PROVE  FALSE
    BY DEF Waiting!NoCircle
<1> DEFINE R(g) == Rank(Head(program[g]).what)
<1>1. \A g \in group : Waiting!Does(g, "take") /\ R(g) \in 0 .. 3
    <2>1. \A g \in group : Waiting!Does(g, "take")
        BY DEF Waiting!WaitsFor, Waiting!MutexesAssumption
    <2>2. ASSUME NEW g \in group PROVE Head(program[g]).what \in Waiting!Mutex
        <3>1. program[g] \in Seq(Op) /\ program[g] # <<>> /\ Head(program[g]).op = "take"
            BY <2>1 DEF MutexInv, Waiting!Does
        <3>2. Head(program[g]) \in Op
            BY <3>1
        <3>3. QED
            BY <3>1, <3>2 DEF Op
    <2>3. QED
        BY <2>1, <2>2, Ranks
<1>2. \A g \in group : Waiting!WaitsFor(g) \in group /\ R(g) < R(Waiting!WaitsFor(g))
    BY <1>1, RanksRise
<1> HIDE DEF R
<1>3. PICK g0 \in group : TRUE
    OBVIOUS
<1>4. PICK g1 \in group : R(g0) < R(g1)
    BY <1>2
<1>5. PICK g2 \in group : R(g1) < R(g2)
    BY <1>2
<1>6. PICK g3 \in group : R(g2) < R(g3)
    BY <1>2
<1>7. PICK g4 \in group : R(g3) < R(g4)
    BY <1>2
<1>8. QED
    BY <1>1, <1>4, <1>5, <1>6, <1>7

-----------------------------------------------------------------------------
(* The dead-man's switch.  A coordinator that no longer signs beats is     *)
(* noticed, and a quiet period ends every alarm, on both sides.            *)

\* How long after it was signed a beat may count: the grace period, and the lead
\* of the clock that signed it.
Countable == Grace + Skew

\* A beat that may still count is no newer than the last one signed; hence the
\* watcher's silence begins in time, and its look is not far behind.
NoticeInv ==
    /\ \A b \in beats : b.at <= Skew - mute \/ b.at < -Grace
    /\ silence >= mute - Countable \/ silence = Grace + 1
    /\ alive => \/ mute <= Countable + Grace
                \/ silence = Grace + 1 /\ sinceLook >= mute - (Countable + Grace)

\* The request that waits is the one of the last beat, and no other beat has
\* a request that waits for it.
Awaited ==
    /\ asking # Switch!Idle => asking = sinceBeat
    /\ asking = Switch!Idle => answer = "none"
    /\ \A b \in beats : b.waited => asking # Switch!Idle /\ answer = "none"
    /\ \A b, c \in beats : b.waited /\ c.waited => b = c

\* What the coordinator holds of its watcher: while it counts failures, the
\* first beat of the calm is not yet answered.
CountsFailures ==
    /\ calm > 0 => mode = "up"
    /\ unwatched => failures >= Switch!UnwatchedAfter
    /\ failures # 0 => calm <= sinceBeat \/ (asking # Switch!Idle /\ calm <= Every + sinceBeat)

\* No beat is newer than the last one of this calm; those of an earlier time may
\* have been signed by another clock.
NoNewer(at) == at <= Skew - calm \/ at <= offset - sinceBeat

\* The last beat was signed when the calm was older than any clock's lead.
SignedInCalm == calm - sinceBeat > Skew

Heard ==
    /\ \A b \in beats : NoNewer(b.at)
    /\ NoNewer(lastAt)
    /\ SignedInCalm =>
        /\ asking = Switch!Idle => alive /\ silence <= sinceBeat
        /\ asking # Switch!Idle =>
            /\ \A b \in beats : b.waited => b.at = offset - sinceBeat
            /\ answer = "accepted" => lastAt >= offset - sinceBeat
            /\ lastAt >= offset - sinceBeat => alive /\ silence <= sinceBeat
    /\ calm - sinceBeat > Skew + Every /\ asking # Switch!Idle => alive /\ silence <= Every + sinceBeat

CalmInv == Awaited /\ CountsFailures /\ Heard

-----------------------------------------------------------------------------
LEMMA Intervals ==
    ASSUME Switch!SwitchAssumption
    PROVE  /\ Timeout \in Nat /\ Every \in Nat /\ Grace \in Nat /\ LookEvery \in Nat /\ Skew \in Nat
           /\ Timeout < Every /\ Grace >= Every + Timeout /\ LookEvery >= 1
           /\ \A o \in Offsets : o \in Nat /\ o <= Skew
           /\ Switch!Far = Grace + Skew + 1 /\ Switch!NoBeat = -Switch!Far - 1 /\ Switch!Idle = -1 /\
                 Switch!UnwatchedAfter = 3
           /\ Switch!NoticedWithin = 2 * Grace + Skew + LookEvery /\ Switch!CalmFor = Every + Timeout + Skew + 1
BY DEF Switch!SwitchAssumption, Switch!Far, Switch!NoBeat, Switch!Idle, Switch!UnwatchedAfter,
   Switch!NoticedWithin, Switch!CalmFor

\* OpenHeartbeat lets no beat count for longer than the grace period.
LEMMA BeatCounts ==
    ASSUME Switch!SwitchAssumption, NEW at \in Int,
           Switch!E!OpenHeartbeat(Switch!Ring, Switch!E!Seal("key", "heartbeat", "coordinator",
                                        [prober |-> "coordinator", at |-> at]), 0, Grace)
    PROVE  -Grace <= at
<1> DEFINE beat == [prober |-> "coordinator", at |-> at]
           envelope == Switch!E!Seal("key", "heartbeat", "coordinator", beat)
<1>1. envelope.doc = beat /\ beat.at = at
    BY DEF Switch!E!Seal
<1>2. Grace > 0 => envelope.doc.at >= 0 - Grace
    BY DEF Switch!E!OpenHeartbeat
<1>3. Grace > 0
    BY Intervals
<1> HIDE DEF beat, envelope
<1>4. QED
    BY <1>1, <1>2, <1>3, Intervals

\* What an arrival leaves: the beat is recorded or is an older view, and is
\* accepted in either case, or it does not count.
LEMMA BeatArrives ==
    ASSUME Switch!SwitchAssumption, Switch!TypeOK, NEW b \in beats, NEW again \in BOOLEAN,
           Switch!Arrives(b, again)
    PROVE  /\ \/ /\ -Grace <= b.at /\ (lastAt = Switch!NoBeat \/ b.at > lastAt)
                 /\ lastAt' = b.at /\ silence' = 0 /\ alive' = TRUE
              \/ UNCHANGED <<lastAt, silence, alive>>
           /\ answer' \in {"none", "accepted", "rejected"}
           /\ ~b.waited => answer' = answer
           /\ b.waited /\ answer' = "accepted" => lastAt' >= b.at
           /\ \A c \in beats' : \/ c \in beats /\ c # b
                                \/ c.at = b.at /\ c.waited = FALSE /\
                                      c \in [at : -Switch!Far .. Skew, waited : BOOLEAN]
<1> DEFINE accepted == Switch!E!OpenHeartbeat(Switch!Ring, Switch!E!Seal("key", "heartbeat", "coordinator",
                                           [prober |-> "coordinator", at |-> b.at]), 0, Grace)
<1>1. /\ b.at \in -Switch!Far .. Skew /\ b.waited \in BOOLEAN /\ lastAt \in Switch!NoBeat .. Skew
      /\ b \in [at : -Switch!Far .. Skew, waited : BOOLEAN]
      /\ answer \in {"none", "accepted", "rejected"} /\ b.at \in Int /\ lastAt \in Int
    BY Intervals DEF Switch!TypeOK
<1>2. accepted => -Grace <= b.at
    BY <1>1, BeatCounts
<1>3. /\ IF accepted THEN Switch!Record(b.at) ELSE UNCHANGED <<lastAt, silence, alive>>
      /\ answer' = IF ~b.waited THEN answer ELSE IF accepted THEN "accepted" ELSE "rejected"
      /\ beats' = (beats \ {b}) \cup (IF again THEN {[b EXCEPT !.waited = FALSE]} ELSE {})
    BY DEF Switch!Arrives
<1> HIDE DEF accepted
<1>4. \/ /\ accepted /\ -Grace <= b.at /\ (lastAt = Switch!NoBeat \/ b.at > lastAt)
         /\ lastAt' = b.at /\ silence' = 0 /\ alive' = TRUE
      \/ UNCHANGED <<lastAt, silence, alive>> /\ (accepted => lastAt >= b.at)
    BY <1>1, <1>2, <1>3 DEF Switch!Record
<1>5. b.waited /\ answer' = "accepted" => lastAt' >= b.at
    BY <1>1, <1>3, <1>4
<1>6. \A c \in beats' : (c \in beats /\ c # b) \/ c = [b EXCEPT !.waited = FALSE]
    BY <1>3
<1>7. /\ [b EXCEPT !.waited = FALSE].at = b.at /\ [b EXCEPT !.waited = FALSE].waited = FALSE
      /\ [b EXCEPT !.waited = FALSE] \in [at : -Switch!Far .. Skew, waited : BOOLEAN]
    BY <1>1
<1>8. answer' \in {"none", "accepted", "rejected"} /\ (~b.waited => answer' = answer)
    BY <1>1, <1>3
<1>9. QED
    BY <1>4, <1>5, <1>6, <1>7, <1>8

\* Time passes for every beat in the network.
LEMMA BeatsAge ==
    ASSUME Switch!SwitchAssumption, Switch!TypeOK, Switch!Tick
    PROVE  \A c \in beats' : \E b \in beats :
               /\ c = [at |-> Switch!Older(b.at), waited |-> b.waited]
               /\ c.at = Switch!Older(b.at) /\ c.waited = b.waited
               /\ Switch!Older(b.at) \in -Switch!Far .. Skew
<1>1. \A b \in beats : b.at \in -Switch!Far .. Skew /\ Switch!Older(b.at) \in -Switch!Far .. Skew
                       /\ b \in [at : -Switch!Far .. Skew, waited : BOOLEAN]
    BY Intervals DEF Switch!TypeOK, Switch!Older
<1>2. \A b \in beats : [b EXCEPT !.at = Switch!Older(@)] = [at |-> Switch!Older(b.at), waited |-> b.waited]
    BY <1>1
<1>3. QED
    BY <1>1, <1>2 DEF Switch!Tick

\* Where nobody waits for an answer any more, the beats are still on their way.
LEMMA Unwaited ==
    ASSUME Switch!TypeOK, beats' = {[b EXCEPT !.waited = FALSE] : b \in beats}
    PROVE  \A c \in beats' :
               /\ c \in [at : -Switch!Far .. Skew, waited : BOOLEAN]
               /\ c.waited = FALSE /\ \E b \in beats : c.at = b.at
<1>1. \A b \in beats : b \in [at : -Switch!Far .. Skew, waited : BOOLEAN]
    BY DEF Switch!TypeOK
<1>2. QED
    BY <1>1

-----------------------------------------------------------------------------
(* Types.                                                                  *)

LEMMA SwitchTypeStep ==
    ASSUME Switch!SwitchAssumption, Switch!TypeOK, [Switch!Next]_(Switch!vars)
    PROVE  Switch!TypeOK'
<1> USE Intervals DEF Switch!TypeOK, Switch!UpTo, Switch!coordinator, Switch!watcher, Switch!Disturbed
<1>1. CASE Switch!Tick
    <2>1. beats' \subseteq [at : -Switch!Far .. Skew, waited : BOOLEAN]
        BY <1>1, BeatsAge
    <2>2. lastAt' \in Switch!NoBeat .. Skew
        BY <1>1 DEF Switch!Tick, Switch!Older
    <2>3. sinceBeat' \in 0 .. Every /\ asking' \in Switch!Idle .. Timeout
        BY <1>1 DEF Switch!Tick
    <2>4. silence' \in 0 .. Grace + 1 /\ sinceLook' \in 0 .. LookEvery
        BY <1>1 DEF Switch!Tick
    <2>5. mute' \in 0 .. Switch!NoticedWithin + 1 /\ calm' \in 0 .. Switch!CalmFor
        BY <1>1 DEF Switch!Tick
    <2>6. QED
        BY <1>1, <2>1, <2>2, <2>3, <2>4, <2>5 DEF Switch!Tick
<1>2. CASE Switch!Beat
    <2>1. [at |-> offset, waited |-> TRUE] \in [at : -Switch!Far .. Skew, waited : BOOLEAN]
        OBVIOUS
    <2>2. beats' \subseteq [at : -Switch!Far .. Skew, waited : BOOLEAN]
        BY <1>2, <2>1 DEF Switch!Beat
    <2>3. QED
        BY <1>2, <2>2 DEF Switch!Beat
<1>3. CASE Switch!SkipBeat
    BY <1>3 DEF Switch!SkipBeat
<1>4. CASE Switch!Answered
    <2>1. failures' \in 0 .. Switch!UnwatchedAfter + 1 /\ unwatched' \in BOOLEAN
        <3>1. CASE Switch!beatSucceeded
            BY <3>1 DEF Switch!beatSucceeded
        <3>2. CASE Switch!beatFailed
            BY <3>2 DEF Switch!beatFailed
        <3>3. QED
            BY <1>4, <3>1, <3>2 DEF Switch!Answered
    <2>2. QED
        BY <1>4, <2>1 DEF Switch!Answered
<1>5. CASE Switch!TimedOut
    <2>1. beats' \subseteq [at : -Switch!Far .. Skew, waited : BOOLEAN]
        BY <1>5, Unwaited DEF Switch!TimedOut
    <2>2. QED
        BY <1>5, <2>1 DEF Switch!TimedOut, Switch!beatFailed
<1>6. CASE Switch!Look
    BY <1>6 DEF Switch!Look
<1>7. CASE Switch!WatcherRestarts
    BY <1>7 DEF Switch!WatcherRestarts
<1>8. ASSUME NEW b \in beats, NEW again \in BOOLEAN, Switch!Arrives(b, again) PROVE Switch!TypeOK'
    <2>1. beats' \subseteq [at : -Switch!Far .. Skew, waited : BOOLEAN]
        BY <1>8, BeatArrives
    <2>2. lastAt' \in Switch!NoBeat .. Skew /\ silence' \in 0 .. Grace + 1 /\ alive' \in BOOLEAN
        <3>1. CASE UNCHANGED <<lastAt, silence, alive>>
            BY <3>1
        <3>2. CASE lastAt' = b.at /\ silence' = 0 /\ alive' = TRUE
            <4>1. b.at \in -Switch!Far .. Skew
                OBVIOUS
            <4>2. QED
                BY <3>2, <4>1
        <3>3. QED
            BY <1>8, <3>1, <3>2, BeatArrives
    <2>3. QED
        BY <1>8, <2>1, <2>2, BeatArrives DEF Switch!Arrives
<1>9. ASSUME NEW b \in beats, Switch!Lost(b) PROVE Switch!TypeOK'
    BY <1>9 DEF Switch!Lost
<1>10. ASSUME NEW m \in {"up", "wedged", "down"}, Switch!CoordinatorTurns(m) PROVE Switch!TypeOK'
    <2>1. beats' \subseteq [at : -Switch!Far .. Skew, waited : BOOLEAN]
        <3>1. CASE beats' = {[b EXCEPT !.waited = FALSE] : b \in beats}
            BY <3>1, Unwaited
        <3>2. CASE beats' = beats
            BY <3>2
        <3>3. QED
            BY <1>10, <3>1, <3>2 DEF Switch!CoordinatorTurns
    <2>2. CASE "down" \in {m, mode}
        <3>1. /\ asking' = Switch!Idle /\ answer' = "none" /\ failures' = 0 /\ unwatched' = FALSE
              /\ sinceBeat' = Every /\ calm' = 0 /\ mode' = m
              /\ UNCHANGED <<offset, lastAt, silence, alive, sinceLook, mute>>
            BY <1>10, <2>2 DEF Switch!CoordinatorTurns
        <3>2. /\ asking' \in Switch!Idle .. Timeout /\ sinceBeat' \in 0 .. Every /\
                    calm' \in 0 .. Switch!CalmFor
            BY <3>1
        <3>3. failures' \in 0 .. Switch!UnwatchedAfter + 1 /\ unwatched' \in BOOLEAN
            <4>1. 0 \in 0 .. Switch!UnwatchedAfter + 1
                OBVIOUS
            <4>2. QED
                BY <3>1, <4>1
        <3>4. mode' \in {"up", "wedged", "down"} /\ answer' \in {"none", "accepted", "rejected"}
            BY <3>1
        <3>5. QED
            BY <2>1, <3>1, <3>2, <3>3, <3>4
    <2>3. CASE "down" \notin {m, mode}
        BY <1>10, <2>3 DEF Switch!CoordinatorTurns
    <2>4. QED
        BY <2>2, <2>3
<1>11. ASSUME NEW o \in Offsets, Switch!ClockSet(o) PROVE Switch!TypeOK'
    BY <1>11 DEF Switch!ClockSet
<1>12. CASE UNCHANGED Switch!vars
    BY <1>12 DEF Switch!vars
<1>13. QED
    BY <1>1, <1>2, <1>3, <1>4, <1>5, <1>6, <1>7, <1>8, <1>9, <1>10, <1>11, <1>12 DEF Switch!Next

LEMMA SwitchStart ==
    ASSUME Switch!SwitchAssumption, Switch!Init
    PROVE  Switch!TypeOK /\ NoticeInv /\ CalmInv
<1>1. /\ sinceBeat \in 0 .. Every /\ asking \in Switch!Idle .. Timeout
      /\ failures \in 0 .. Switch!UnwatchedAfter + 1 /\ lastAt \in Switch!NoBeat .. Skew
      /\ silence \in 0 .. Grace + 1 /\ sinceLook \in 0 .. LookEvery
      /\ mute \in 0 .. Switch!NoticedWithin + 1 /\ calm \in 0 .. Switch!CalmFor
    BY Intervals DEF Switch!Init
<1>2. Switch!TypeOK
    BY <1>1, Intervals DEF Switch!Init, Switch!TypeOK
<1>3. NoticeInv
    BY Intervals DEF Switch!Init, NoticeInv, Countable
<1>4. CalmInv
    BY Intervals DEF Switch!Init, CalmInv, Awaited, CountsFailures, Heard, NoNewer, SignedInCalm
<1>5. QED
    BY <1>2, <1>3, <1>4

-----------------------------------------------------------------------------
(* A coordinator that signs no beat is declared dead.                      *)

LEMMA NoticeStep ==
    ASSUME Switch!SwitchAssumption, Switch!TypeOK, Switch!TypeOK', NoticeInv, [Switch!Next]_(Switch!vars)
    PROVE  NoticeInv'
<1> USE Intervals DEF Switch!TypeOK, NoticeInv, Countable, Switch!UpTo, Switch!coordinator, Switch!watcher,
        Switch!Disturbed
<1>1. CASE Switch!Tick
    <2>1. \A c \in beats' : c.at <= Skew - mute' \/ c.at < -Grace
        <3>1. SUFFICES ASSUME NEW c \in beats'
                       PROVE  c.at <= Skew - mute' \/ c.at < -Grace
            OBVIOUS
        <3>2. PICK b \in beats : c.at = Switch!Older(b.at)
            BY <1>1, BeatsAge
        <3>3. b.at \in -Switch!Far .. Skew /\ (b.at <= Skew - mute \/ b.at < -Grace)
            OBVIOUS
        <3>4. mute \in Int /\ mute' \in Int /\ mute' <= mute + 1
            BY <1>1 DEF Switch!Tick
        <3>5. QED
            BY <3>2, <3>3, <3>4 DEF Switch!Older
    <2>2. /\ mute \in Int /\ mute' \in Int /\ mute' <= mute + 1
          /\ silence \in 0 .. Grace + 1 /\ silence' = (IF silence < Grace + 1 THEN silence + 1 ELSE Grace + 1)
          /\ sinceLook \in Int /\ sinceLook' = sinceLook + 1 /\ alive' = alive
        BY <1>1 DEF Switch!Tick
    <2>3. silence' >= mute' - Countable \/ silence' = Grace + 1
        BY <2>2
    <2>4. alive' => \/ mute' <= Countable + Grace
                    \/ silence' = Grace + 1 /\ sinceLook' >= mute' - (Countable + Grace)
        <3>1. CASE mute <= Countable + Grace
            BY <2>2, <3>1
        <3>2. CASE silence = Grace + 1 /\ sinceLook >= mute - (Countable + Grace)
            BY <2>2, <3>2
        <3>3. QED
            BY <2>2, <3>1, <3>2
    <2>5. QED
        BY <2>1, <2>3, <2>4
<1>2. CASE Switch!Beat
    <2>1. mute' = 0 /\ UNCHANGED <<silence, sinceLook, alive>> /\ beats' \subseteq beats'
        BY <1>2 DEF Switch!Beat
    <2>2. \A c \in beats' : c.at <= Skew - mute'
        BY <2>1
    <2>3. QED
        BY <2>1, <2>2
<1>3. CASE Switch!SkipBeat
    BY <1>3 DEF Switch!SkipBeat
<1>4. CASE Switch!Answered
    BY <1>4 DEF Switch!Answered
<1>5. CASE Switch!TimedOut
    <2>1. UNCHANGED <<mute, silence, sinceLook, alive>> /\ \A c \in beats' : \E b \in beats : c.at = b.at
        BY <1>5, Unwaited DEF Switch!TimedOut
    <2>2. QED
        BY <2>1
<1>6. CASE Switch!Look
    <2>1. /\ UNCHANGED <<mute, silence, beats>> /\ sinceLook' = 0
          /\ alive' <=> alive /\ silence <= Grace
        BY <1>6 DEF Switch!Look
    <2>2. QED
        BY <2>1
<1>7. CASE Switch!WatcherRestarts
    <2>1. mute' = 0 /\ silence' = 0 /\ beats' = beats
        BY <1>7 DEF Switch!WatcherRestarts
    <2>2. QED
        BY <2>1
<1>8. ASSUME NEW b \in beats, NEW again \in BOOLEAN, Switch!Arrives(b, again) PROVE NoticeInv'
    <2>1. UNCHANGED <<mute, sinceLook>>
        BY <1>8 DEF Switch!Arrives
    <2>2. \A c \in beats' : \E d \in beats : c.at = d.at
        BY <1>8, BeatArrives
    <2>3. \A c \in beats' : c.at <= Skew - mute' \/ c.at < -Grace
        BY <2>1, <2>2
    <2>4. CASE UNCHANGED <<lastAt, silence, alive>>
        BY <2>1, <2>3, <2>4
    <2>5. CASE -Grace <= b.at /\ silence' = 0
        <3>1. b.at \in Int /\ b.at <= Skew - mute /\ mute \in Int
            BY <2>5
        <3>2. mute' <= Countable
            BY <2>1, <2>5, <3>1
        <3>3. QED
            BY <2>3, <2>5, <3>2
    <2>6. QED
        BY <1>8, <2>4, <2>5, BeatArrives
<1>9. ASSUME NEW b \in beats, Switch!Lost(b) PROVE NoticeInv'
    BY <1>9 DEF Switch!Lost
<1>10. ASSUME NEW m \in {"up", "wedged", "down"}, Switch!CoordinatorTurns(m) PROVE NoticeInv'
    <2>1. \A c \in beats' : \E b \in beats : c.at = b.at
        <3>1. CASE beats' = {[b EXCEPT !.waited = FALSE] : b \in beats}
            BY <3>1, Unwaited
        <3>2. CASE beats' = beats
            BY <3>2
        <3>3. QED
            BY <1>10, <3>1, <3>2 DEF Switch!CoordinatorTurns
    <2>2. UNCHANGED <<mute, silence, sinceLook, alive>>
        BY <1>10 DEF Switch!CoordinatorTurns
    <2>3. QED
        BY <2>1, <2>2
<1>11. ASSUME NEW o \in Offsets, Switch!ClockSet(o) PROVE NoticeInv'
    BY <1>11 DEF Switch!ClockSet
<1>12. CASE UNCHANGED Switch!vars
    BY <1>12 DEF Switch!vars
<1>13. QED
    BY <1>1, <1>2, <1>3, <1>4, <1>5, <1>6, <1>7, <1>8, <1>9, <1>10, <1>11, <1>12 DEF Switch!Next

LEMMA NoticedThen ==
    ASSUME Switch!SwitchAssumption PROVE Switch!TypeOK /\ NoticeInv => Switch!DeathIsNoticed
BY Intervals DEF Switch!TypeOK, NoticeInv, Countable, Switch!DeathIsNoticed

-----------------------------------------------------------------------------
(* A quiet period ends every alarm.                                        *)

LEMMA AwaitedStep ==
    ASSUME Switch!SwitchAssumption, Switch!TypeOK, Switch!TypeOK', Awaited, [Switch!Next]_(Switch!vars)
    PROVE  Awaited'
<1> USE Intervals DEF Switch!TypeOK, Awaited, Switch!coordinator, Switch!watcher
<1>1. CASE Switch!Tick
    <2>1. asking' # Switch!Idle => asking' = sinceBeat'
        BY <1>1 DEF Switch!Tick, Switch!UpTo
    <2>2. UNCHANGED answer /\ (asking # Switch!Idle => asking' # Switch!Idle)
        BY <1>1 DEF Switch!Tick
    <2>3. \A c \in beats' : c.waited => asking' # Switch!Idle /\ answer' = "none"
        BY <1>1, <2>2, BeatsAge
    <2>4. \A c, d \in beats' : c.waited /\ d.waited => c = d
        <3>1. SUFFICES ASSUME NEW c \in beats', NEW d \in beats', c.waited, d.waited
                       PROVE  c = d
            OBVIOUS
        <3>2. PICK b \in beats : c = [at |-> Switch!Older(b.at), waited |-> b.waited] /\ c.waited = b.waited
            BY <1>1, BeatsAge
        <3>3. PICK e \in beats : d = [at |-> Switch!Older(e.at), waited |-> e.waited] /\ d.waited = e.waited
            BY <1>1, BeatsAge
        <3>4. b = e
            BY <3>1, <3>2, <3>3
        <3>5. QED
            BY <3>2, <3>3, <3>4
    <2>5. asking' = Switch!Idle => answer' = "none"
        BY <1>1 DEF Switch!Tick
    <2>6. QED
        BY <2>1, <2>3, <2>4, <2>5
<1>2. CASE Switch!Beat
    <2>1. \A b \in beats : ~b.waited
        BY <1>2 DEF Switch!Beat
    <2>2. asking' = 0 /\ sinceBeat' = 0 /\ answer = "none"
        BY <1>2 DEF Switch!Beat
    <2>3. beats' = beats \cup {[at |-> offset, waited |-> TRUE]} /\ answer' = answer
        BY <1>2 DEF Switch!Beat
    <2>4. QED
        BY <2>1, <2>2, <2>3
<1>3. CASE Switch!SkipBeat
    BY <1>3 DEF Switch!SkipBeat
<1>4. CASE Switch!Answered
    <2>1. \A b \in beats : ~b.waited
        BY <1>4 DEF Switch!Answered
    <2>2. asking' = Switch!Idle /\ answer' = "none" /\ beats' = beats
        BY <1>4 DEF Switch!Answered
    <2>3. QED
        BY <2>1, <2>2
<1>5. CASE Switch!TimedOut
    <2>1. asking' = Switch!Idle /\ answer' = "none" /\ \A b \in beats' : ~b.waited
        BY <1>5, Unwaited DEF Switch!TimedOut
    <2>2. QED
        BY <2>1
<1>6. CASE Switch!Look
    BY <1>6 DEF Switch!Look
<1>7. CASE Switch!WatcherRestarts
    BY <1>7 DEF Switch!WatcherRestarts
<1>8. ASSUME NEW b \in beats, NEW again \in BOOLEAN, Switch!Arrives(b, again) PROVE Awaited'
    <2>1. UNCHANGED <<asking, sinceBeat>>
        BY <1>8 DEF Switch!Arrives
    <2>2. \A c \in beats' : c.waited => c \in beats /\ c # b
        BY <1>8, BeatArrives
    <2>3. \A c \in beats' : c.waited => asking' # Switch!Idle /\ answer' = "none"
        <3>1. SUFFICES ASSUME NEW c \in beats', c.waited PROVE asking' # Switch!Idle /\ answer' = "none"
            OBVIOUS
        <3>2. ~b.waited
            BY <2>2, <3>1
        <3>3. QED
            BY <1>8, <2>1, <2>2, <3>1, <3>2, BeatArrives
    <2>4. \A c, d \in beats' : c.waited /\ d.waited => c = d
        BY <2>2
    <2>5. asking' = Switch!Idle => answer' = "none"
        <3>1. asking' = Switch!Idle => answer = "none" /\ ~b.waited
            BY <2>1
        <3>2. QED
            BY <1>8, <3>1, BeatArrives
    <2>6. QED
        BY <2>1, <2>3, <2>4, <2>5
<1>9. ASSUME NEW b \in beats, Switch!Lost(b) PROVE Awaited'
    BY <1>9 DEF Switch!Lost
<1>10. ASSUME NEW m \in {"up", "wedged", "down"}, Switch!CoordinatorTurns(m) PROVE Awaited'
    <2>1. CASE "down" \in {m, mode}
        <3>1. asking' = Switch!Idle /\ answer' = "none" /\ \A b \in beats' : ~b.waited
            BY <1>10, <2>1, Unwaited DEF Switch!CoordinatorTurns
        <3>2. QED
            BY <3>1
    <2>2. CASE "down" \notin {m, mode}
        BY <1>10, <2>2 DEF Switch!CoordinatorTurns
    <2>3. QED
        BY <2>1, <2>2
<1>11. ASSUME NEW o \in Offsets, Switch!ClockSet(o) PROVE Awaited'
    BY <1>11 DEF Switch!ClockSet
<1>12. CASE UNCHANGED Switch!vars
    BY <1>12 DEF Switch!vars
<1>13. QED
    BY <1>1, <1>2, <1>3, <1>4, <1>5, <1>6, <1>7, <1>8, <1>9, <1>10, <1>11, <1>12 DEF Switch!Next

LEMMA CountsStep ==
    ASSUME Switch!SwitchAssumption, Switch!TypeOK, Switch!TypeOK', Awaited, CountsFailures,
           [Switch!Next]_(Switch!vars)
    PROVE  CountsFailures'
<1> USE Intervals DEF Switch!TypeOK, Awaited, CountsFailures, Switch!coordinator, Switch!watcher,
        Switch!Disturbed
<1>1. CASE Switch!Tick
    <2>1. /\ UNCHANGED <<mode, failures, unwatched>>
          /\ calm' = (IF mode = "up" THEN IF calm < Switch!CalmFor THEN calm + 1 ELSE Switch!CalmFor ELSE 0)
          /\ sinceBeat' = (IF sinceBeat < Every THEN sinceBeat + 1 ELSE Every)
          /\ asking' = (IF asking = Switch!Idle THEN Switch!Idle ELSE asking + 1)
          /\ asking # Timeout
          /\ mode # "down" => asking # Switch!Idle \/ sinceBeat # Every
        BY <1>1 DEF Switch!Tick, Switch!UpTo
    <2>2. mode = "up" => sinceBeat' = sinceBeat + 1 /\ calm' <= calm + 1
        <3>1. SUFFICES ASSUME mode = "up" PROVE sinceBeat' = sinceBeat + 1 /\ calm' <= calm + 1
            OBVIOUS
        <3>2. sinceBeat < Every
            BY <2>1, <3>1
        <3>3. calm \in Int /\ sinceBeat \in Int /\ Switch!CalmFor \in Int /\ calm <= Switch!CalmFor
            OBVIOUS
        <3>4. QED
            BY <2>1, <3>1, <3>2, <3>3
    <2>3. failures' # 0 => calm' <= sinceBeat' \/ (asking' # Switch!Idle /\ calm' <= Every + sinceBeat')
        <3>1. CASE mode = "up"
            BY <2>1, <2>2, <3>1
        <3>2. CASE mode # "up"
            BY <2>1, <3>2
        <3>3. QED
            BY <3>1, <3>2
    <2>4. QED
        BY <2>1, <2>3
<1>2. CASE Switch!Beat
    <2>1. /\ UNCHANGED <<mode, failures, unwatched, calm>> /\ asking' = 0 /\ sinceBeat' = 0
          /\ asking = Switch!Idle /\ sinceBeat = Every
        BY <1>2 DEF Switch!Beat
    <2>2. QED
        BY <2>1
<1>3. CASE Switch!SkipBeat
    BY <1>3 DEF Switch!SkipBeat
<1>4. CASE Switch!Answered
    <2>1. CASE answer = "accepted"
        BY <1>4, <2>1 DEF Switch!Answered, Switch!beatSucceeded
    <2>2. CASE answer # "accepted"
        <3>1. calm' = 0 /\ unwatched' = (unwatched \/ failures + 1 = Switch!UnwatchedAfter)
              /\ failures' = Switch!UpTo(failures, Switch!UnwatchedAfter + 1)
            BY <1>4, <2>2 DEF Switch!Answered, Switch!beatFailed
        <3>2. QED
            BY <3>1 DEF Switch!UpTo
    <2>3. QED
        BY <2>1, <2>2
<1>5. CASE Switch!TimedOut
    <2>1. calm' = 0 /\ unwatched' = (unwatched \/ failures + 1 = Switch!UnwatchedAfter)
          /\ failures' = Switch!UpTo(failures, Switch!UnwatchedAfter + 1)
        BY <1>5 DEF Switch!TimedOut, Switch!beatFailed
    <2>2. QED
        BY <2>1 DEF Switch!UpTo
<1>6. CASE Switch!Look
    BY <1>6 DEF Switch!Look
<1>7. CASE Switch!WatcherRestarts
    <2>1. calm' = 0 /\ UNCHANGED <<mode, failures, unwatched, sinceBeat>>
        BY <1>7 DEF Switch!WatcherRestarts
    <2>2. QED
        BY <2>1
<1>8. ASSUME NEW b \in beats, NEW again \in BOOLEAN, Switch!Arrives(b, again) PROVE CountsFailures'
    BY <1>8 DEF Switch!Arrives
<1>9. ASSUME NEW b \in beats, Switch!Lost(b) PROVE CountsFailures'
    <2>1. calm' = 0 /\ UNCHANGED <<mode, failures, unwatched, sinceBeat>>
        BY <1>9 DEF Switch!Lost
    <2>2. QED
        BY <2>1
<1>10. ASSUME NEW m \in {"up", "wedged", "down"}, Switch!CoordinatorTurns(m) PROVE CountsFailures'
    <2>1. calm' = 0 /\ (unwatched' => failures' >= Switch!UnwatchedAfter)
        BY <1>10 DEF Switch!CoordinatorTurns
    <2>2. QED
        BY <2>1
<1>11. ASSUME NEW o \in Offsets, Switch!ClockSet(o) PROVE CountsFailures'
    <2>1. calm' = 0 /\ UNCHANGED <<mode, failures, unwatched, sinceBeat>>
        BY <1>11 DEF Switch!ClockSet
    <2>2. QED
        BY <2>1
<1>12. CASE UNCHANGED Switch!vars
    BY <1>12 DEF Switch!vars
<1>13. QED
    BY <1>1, <1>2, <1>3, <1>4, <1>5, <1>6, <1>7, <1>8, <1>9, <1>10, <1>11, <1>12 DEF Switch!Next

LEMMA HeardStep ==
    ASSUME Switch!SwitchAssumption, Switch!TypeOK, Switch!TypeOK', Awaited, CountsFailures, Heard,
           [Switch!Next]_(Switch!vars)
    PROVE  Heard'
<1> USE Intervals DEF Switch!TypeOK, Switch!coordinator, Switch!watcher
<1>0. /\ offset \in Int /\ calm \in Int /\ sinceBeat \in Int /\ asking \in Int /\ lastAt \in Int
      /\ silence \in Int /\ sinceBeat >= 0 /\ sinceBeat <= Every /\ offset >= 0 /\ calm <= Switch!CalmFor
      /\ 0 <= calm /\ 0 <= silence /\ lastAt <= Skew /\ asking <= Timeout
      /\ offset' \in Int /\ sinceBeat' \in Int /\ sinceBeat' >= 0 /\ lastAt' \in Int /\ lastAt' <= Skew
      /\ \A b \in beats : b.at \in Int /\ b.at <= Skew
      /\ \A b \in beats' : b.at \in Int /\ b.at <= Skew
    OBVIOUS
\* A disturbance begins the calm anew.
<1>d. ASSUME calm' = 0 PROVE Heard'
    <2>1. \A b \in beats' : NoNewer(b.at)'
        BY <1>0, <1>d DEF NoNewer
    <2>2. NoNewer(lastAt)'
        <3>1. lastAt' <= Skew - calm'
            BY <1>0, <1>d
        <3>2. QED
            BY <3>1 DEF NoNewer
    <2>3. ~SignedInCalm' /\ ~(calm' - sinceBeat' > Skew + Every)
        BY <1>0, <1>d DEF SignedInCalm
    <2>4. QED
        BY <2>1, <2>2, <2>3 DEF Heard
<1>1. CASE Switch!Tick
    <2>1. /\ UNCHANGED <<mode, offset, answer, alive>> /\ answer = "none"
          /\ calm' = (IF mode = "up" THEN IF calm < Switch!CalmFor THEN calm + 1 ELSE Switch!CalmFor ELSE 0)
          /\ sinceBeat' = (IF sinceBeat < Every THEN sinceBeat + 1 ELSE Every)
          /\ asking' = (IF asking = Switch!Idle THEN Switch!Idle ELSE asking + 1)
          /\ asking # Timeout
          /\ mode # "down" => asking # Switch!Idle \/ sinceBeat # Every
          /\ lastAt' = (IF lastAt = Switch!NoBeat THEN Switch!NoBeat ELSE Switch!Older(lastAt))
          /\ silence' = (IF silence < Grace + 1 THEN silence + 1 ELSE Grace + 1)
        BY <1>1 DEF Switch!Tick, Switch!UpTo
    <2>2. SUFFICES ASSUME mode = "up" PROVE Heard'
        BY <2>1, <1>d
    <2>3. sinceBeat < Every
        BY <1>0, <2>1, <2>2 DEF Awaited
    <2>4. /\ sinceBeat' = sinceBeat + 1 /\ silence' <= silence + 1
          /\ calm' = calm + 1 \/ (calm = Switch!CalmFor /\ calm' = Switch!CalmFor)
        <3>1. sinceBeat' = sinceBeat + 1 /\ silence' <= silence + 1
            BY <1>0, <2>1, <2>3
        <3>2. calm' = (IF calm < Switch!CalmFor THEN calm + 1 ELSE Switch!CalmFor) /\ Switch!CalmFor \in Int
            BY <2>1, <2>2
        <3>3. QED
            BY <1>0, <3>1, <3>2
    <2>5. ASSUME NEW at \in -Switch!Far .. Skew, NoNewer(at)
          PROVE  NoNewer(Switch!Older(at))'
        <3>1. at \in Int /\ at >= -Switch!Far /\ (at <= Skew - calm \/ at <= offset - sinceBeat)
            BY <2>5 DEF NoNewer
        <3>2. CASE at > -Switch!Far
            <4>1. Switch!Older(at) = at - 1
                BY <3>2 DEF Switch!Older
            <4>2. at - 1 <= Skew - calm' \/ at - 1 <= offset' - sinceBeat'
                BY <1>0, <2>1, <2>4, <3>1
            <4>3. QED
                BY <4>1, <4>2 DEF NoNewer
        <3>3. CASE at = -Switch!Far
            <4>1. Switch!Older(at) = -Switch!Far
                BY <3>3 DEF Switch!Older
            <4>2. -Switch!Far <= offset' - sinceBeat'
                BY <1>0, <2>1, <2>3, <2>4
            <4>3. QED
                BY <4>1, <4>2 DEF NoNewer
        <3>4. QED
            BY <3>1, <3>2, <3>3
    <2>6. (\A b \in beats : NoNewer(b.at))' /\ NoNewer(lastAt)'
        <3>1. ASSUME NEW c \in beats' PROVE NoNewer(c.at)'
            <4>1. PICK b \in beats : c.at = Switch!Older(b.at)
                BY <1>1, BeatsAge
            <4>2. b.at \in -Switch!Far .. Skew /\ NoNewer(b.at)
                BY DEF Heard
            <4>3. NoNewer(Switch!Older(b.at))'
                BY <2>5, <4>2
            <4>4. QED
                BY <4>1, <4>3 DEF NoNewer, Switch!Older
        <3>2. ASSUME lastAt = Switch!NoBeat PROVE NoNewer(lastAt)'
            <4>1. lastAt' <= offset' - sinceBeat'
                BY <1>0, <2>1, <2>3, <2>4, <3>2
            <4>2. QED
                BY <4>1 DEF NoNewer
        <3>3. ASSUME lastAt # Switch!NoBeat PROVE NoNewer(lastAt)'
            <4>1. lastAt \in -Switch!Far .. Skew /\ NoNewer(lastAt) /\ lastAt' = Switch!Older(lastAt)
                BY <2>1, <3>3 DEF Heard
            <4>2. lastAt > -Switch!Far \/ lastAt = -Switch!Far
                BY <4>1
            <4>3. CASE lastAt > -Switch!Far
                <5>1. lastAt' = lastAt - 1
                    BY <4>1, <4>3 DEF Switch!Older
                <5>2. QED
                    BY <1>0, <2>1, <2>4, <4>1, <5>1 DEF NoNewer
            <4>4. CASE lastAt = -Switch!Far
                <5>1. lastAt' = -Switch!Far
                    BY <4>1, <4>4 DEF Switch!Older
                <5>2. lastAt' <= offset' - sinceBeat'
                    BY <1>0, <2>1, <2>3, <2>4, <5>1
                <5>3. QED
                    BY <5>2 DEF NoNewer
            <4>5. QED
                BY <4>2, <4>3, <4>4
        <3>4. QED
            BY <3>1, <3>2, <3>3
    <2>7. SignedInCalm' => SignedInCalm
        BY <1>0, <2>4 DEF SignedInCalm
    <2>8. lastAt' >= offset' - sinceBeat' => lastAt >= offset - sinceBeat
        BY <1>0, <2>1, <2>3, <2>4 DEF Switch!Older
    <2>9. ASSUME SignedInCalm', asking' = Switch!Idle PROVE alive' /\ silence' <= sinceBeat'
        <3>1. asking = Switch!Idle
            BY <1>0, <2>1, <2>9
        <3>2. alive /\ silence <= sinceBeat
            BY <2>7, <2>9, <3>1 DEF Heard
        <3>3. QED
            BY <1>0, <2>1, <2>4, <3>2
    <2>10. ASSUME SignedInCalm', asking' # Switch!Idle
           PROVE  /\ (\A b \in beats : b.waited => b.at = offset - sinceBeat)'
                  /\ lastAt' >= offset' - sinceBeat' => alive' /\ silence' <= sinceBeat'
        <3>1. asking # Switch!Idle /\ SignedInCalm
            BY <2>1, <2>7, <2>10
        <3>2. lastAt' >= offset' - sinceBeat' => alive' /\ silence' <= sinceBeat'
            <4>1. lastAt >= offset - sinceBeat => alive /\ silence <= sinceBeat
                BY <3>1 DEF Heard
            <4>2. QED
                BY <1>0, <2>1, <2>4, <2>8, <4>1
        <3>3. ASSUME NEW c \in beats', c.waited PROVE c.at = offset' - sinceBeat'
            <4>1. PICK b \in beats : c.at = Switch!Older(b.at) /\ b.waited
                BY <1>1, <3>3, BeatsAge
            <4>2. b.at = offset - sinceBeat
                BY <3>1, <4>1 DEF Heard
            <4>3. b.at > -Switch!Far
                BY <1>0, <2>3, <4>2
            <4>4. QED
                BY <1>0, <2>1, <2>4, <4>1, <4>2, <4>3 DEF Switch!Older
        <3>4. QED
            BY <3>2, <3>3
    <2>11. ASSUME calm' - sinceBeat' > Skew + Every, asking' # Switch!Idle
           PROVE  alive' /\ silence' <= Every + sinceBeat'
        <3>1. asking # Switch!Idle /\ sinceBeat <= Timeout
            BY <1>0, <2>1, <2>11 DEF Awaited
        <3>2. calm - sinceBeat > Skew + Every
            BY <1>0, <2>4, <2>11, <3>1
        <3>3. alive /\ silence <= Every + sinceBeat
            BY <3>1, <3>2 DEF Heard
        <3>4. QED
            BY <1>0, <2>1, <2>4, <3>3
    <2>12. QED
        BY <2>1, <2>6, <2>9, <2>10, <2>11 DEF Heard
<1>2. CASE Switch!Beat
    <2>1. /\ UNCHANGED <<offset, answer, lastAt, silence, alive, calm>>
          /\ asking = Switch!Idle /\ sinceBeat = Every /\ asking' = 0 /\ sinceBeat' = 0
          /\ beats' = beats \cup {[at |-> offset, waited |-> TRUE]}
        BY <1>2 DEF Switch!Beat
    <2>2. answer = "none" /\ \A b \in beats : ~b.waited
        BY <2>1 DEF Awaited
    <2>3. (\A b \in beats : NoNewer(b.at))' /\ NoNewer(lastAt)'
        <3>1. ASSUME NEW b \in beats PROVE NoNewer(b.at)'
            BY <1>0, <2>1 DEF Heard, NoNewer
        <3>2. NoNewer(offset)' /\ NoNewer(lastAt)'
            BY <1>0, <2>1 DEF Heard, NoNewer
        <3>3. QED
            BY <2>1, <3>1, <3>2 DEF NoNewer
    <2>4. ASSUME SignedInCalm' PROVE lastAt' < offset' - sinceBeat'
        BY <1>0, <2>1, <2>4 DEF Heard, NoNewer, SignedInCalm
    <2>5. (\A b \in beats : b.waited => b.at = offset - sinceBeat)'
        BY <1>0, <2>1, <2>2
    <2>6. ASSUME calm' - sinceBeat' > Skew + Every
          PROVE  alive' /\ silence' <= Every + sinceBeat'
        <3>1. SignedInCalm
            BY <1>0, <2>1, <2>6 DEF SignedInCalm
        <3>2. alive /\ silence <= sinceBeat
            BY <2>1, <3>1 DEF Heard
        <3>3. QED
            BY <1>0, <2>1, <3>2
    <2>7. SignedInCalm' => ~(lastAt' >= offset' - sinceBeat')
        BY <1>0, <2>1, <2>4
    <2>8. asking' # Switch!Idle /\ answer' # "accepted"
        BY <2>1, <2>2
    <2>9. QED
        BY <2>3, <2>5, <2>6, <2>7, <2>8 DEF Heard
<1>3. CASE Switch!SkipBeat
    <2>1. calm' = 0
        BY <1>0, <1>3 DEF Switch!SkipBeat, CountsFailures
    <2>2. QED
        BY <1>d, <2>1
<1>4. CASE Switch!Answered
    <2>1. SUFFICES ASSUME answer = "accepted" PROVE Heard'
        BY <1>4, <1>d DEF Switch!Answered
    <2>2. /\ UNCHANGED <<offset, sinceBeat, beats, lastAt, silence, alive, calm>>
          /\ asking # Switch!Idle /\ asking' = Switch!Idle /\ answer' = "none"
        BY <1>4, <2>1 DEF Switch!Answered
    <2>3. SignedInCalm => alive /\ silence <= sinceBeat
        BY <2>1, <2>2 DEF Heard
    <2>4. QED
        BY <2>2, <2>3 DEF Heard, NoNewer, SignedInCalm
<1>5. CASE Switch!TimedOut \/ Switch!WatcherRestarts
    BY <1>5, <1>d DEF Switch!TimedOut, Switch!WatcherRestarts, Switch!Disturbed
<1>6. CASE Switch!Look
    <2>1. /\ UNCHANGED <<offset, sinceBeat, asking, answer, beats, lastAt, silence, calm>>
          /\ alive' <=> alive /\ silence <= Grace
        BY <1>6 DEF Switch!Look
    <2>2. silence <= sinceBeat => silence <= Grace
        BY <1>0
    <2>3. asking # Switch!Idle /\ silence <= Every + sinceBeat => silence <= Grace
        BY <1>0 DEF Awaited
    <2>4. QED
        BY <2>1, <2>2, <2>3 DEF Heard, NoNewer, SignedInCalm
<1>7. ASSUME NEW b \in beats, NEW again \in BOOLEAN, Switch!Arrives(b, again) PROVE Heard'
    <2>1. UNCHANGED <<offset, sinceBeat, asking, calm>>
        BY <1>7 DEF Switch!Arrives
    <2>2. \A c \in beats' : \E d \in beats : c.at = d.at
        BY <1>7, BeatArrives
    <2>3. \A c \in beats' : c.waited => c \in beats
        BY <1>7, BeatArrives
    <2>4. \/ /\ lastAt' = b.at /\ silence' = 0 /\ alive' = TRUE
             /\ lastAt = Switch!NoBeat \/ b.at > lastAt
          \/ UNCHANGED <<lastAt, silence, alive>>
        BY <1>7, BeatArrives
    <2>5. (\A c \in beats : NoNewer(c.at))' /\ NoNewer(lastAt)'
        <3>1. \A d \in beats : NoNewer(d.at)'
            BY <2>1 DEF Heard, NoNewer
        <3>2. \A c \in beats' : NoNewer(c.at)'
            BY <2>2, <3>1 DEF NoNewer
        <3>3. NoNewer(lastAt)'
            BY <2>1, <2>4 DEF Heard, NoNewer
        <3>4. QED
            BY <3>2, <3>3
    <2>6. ASSUME SignedInCalm, asking # Switch!Idle
          PROVE  /\ (\A c \in beats : c.waited => c.at = offset - sinceBeat)'
                 /\ answer' = "accepted" => lastAt' >= offset' - sinceBeat'
                 /\ lastAt' >= offset' - sinceBeat' => alive' /\ silence' <= sinceBeat'
        <3>1. \A c \in beats : c.waited => c.at = offset - sinceBeat
            BY <2>6 DEF Heard
        <3>2. ASSUME answer' = "accepted" PROVE lastAt' >= offset' - sinceBeat'
            <4>1. CASE b.waited
                BY <1>7, <2>1, <3>1, <3>2, <4>1, BeatArrives
            <4>2. CASE ~b.waited
                <5>1. lastAt >= offset - sinceBeat
                    BY <1>7, <2>6, <3>2, <4>2, BeatArrives DEF Heard
                <5>2. lastAt' >= lastAt
                    BY <1>0, <2>4
                <5>3. QED
                    BY <1>0, <2>1, <5>1, <5>2
            <4>3. QED
                BY <4>1, <4>2
        <3>3. lastAt' >= offset' - sinceBeat' => alive' /\ silence' <= sinceBeat'
            BY <1>0, <2>1, <2>4, <2>6 DEF Heard
        <3>4. QED
            BY <2>1, <2>3, <3>1, <3>2, <3>3
    <2>7. SignedInCalm /\ asking = Switch!Idle => alive' /\ silence' <= sinceBeat'
        BY <1>0, <2>1, <2>4 DEF Heard
    <2>8. ASSUME calm - sinceBeat > Skew + Every, asking # Switch!Idle
          PROVE  alive' /\ silence' <= Every + sinceBeat'
        <3>1. alive /\ silence <= Every + sinceBeat
            BY <2>8 DEF Heard
        <3>2. 0 <= Every + sinceBeat' /\ sinceBeat' = sinceBeat
            BY <1>0, <2>1
        <3>3. QED
            BY <2>4, <3>1, <3>2
    <2>9. SignedInCalm' <=> SignedInCalm
        BY <2>1 DEF SignedInCalm
    <2>10. QED
        BY <2>1, <2>5, <2>6, <2>7, <2>8, <2>9 DEF Heard
<1>8. ASSUME NEW b \in beats, Switch!Lost(b) PROVE Heard'
    BY <1>8, <1>d DEF Switch!Lost, Switch!Disturbed
<1>9. ASSUME NEW m \in {"up", "wedged", "down"}, Switch!CoordinatorTurns(m) PROVE Heard'
    BY <1>9, <1>d DEF Switch!CoordinatorTurns, Switch!Disturbed
<1>10. ASSUME NEW o \in Offsets, Switch!ClockSet(o) PROVE Heard'
    BY <1>10, <1>d DEF Switch!ClockSet, Switch!Disturbed
<1>11. CASE UNCHANGED Switch!vars
    BY <1>11 DEF Switch!vars, Heard, NoNewer, SignedInCalm
<1>12. QED
    BY <1>1, <1>2, <1>3, <1>4, <1>5, <1>6, <1>7, <1>8, <1>9, <1>10, <1>11 DEF Switch!Next

LEMMA CalmThen ==
    ASSUME Switch!SwitchAssumption PROVE Switch!TypeOK /\ CalmInv => Switch!CalmIsAlive
<1>1. SUFFICES ASSUME Switch!TypeOK, CalmInv, calm = Switch!CalmFor PROVE alive /\ ~unwatched
    BY DEF Switch!CalmIsAlive
<1>2. /\ sinceBeat \in Int /\ 0 <= sinceBeat /\ sinceBeat <= Every
      /\ asking # Switch!Idle => sinceBeat <= Timeout
    BY <1>1, Intervals DEF Switch!TypeOK, CalmInv, Awaited
<1>3. ~unwatched
    BY <1>1, <1>2, Intervals DEF CalmInv, CountsFailures, Switch!TypeOK
<1>4. SignedInCalm /\ (asking # Switch!Idle => calm - sinceBeat > Skew + Every)
    BY <1>1, <1>2, Intervals DEF SignedInCalm
<1>5. alive
    BY <1>1, <1>4 DEF CalmInv, Heard
<1>6. QED
    BY <1>3, <1>5

-----------------------------------------------------------------------------
(* The monitors.  What was answered is in the log of revisions, and every  *)
(* state that a restart or an undo may return to is whole.                 *)

LEMMA CatalogueParameters == Monitors!CatalogueAssumption
BY Assumptions

LogSound(log) ==
    /\ log \in Seq(Monitors!Revisions) /\ Len(log) \in 1 .. MaxRevisions
    /\ \A i \in 1 .. Len(log) : Monitors!Valid(log[i].catalogue)
    /\ \A i, j \in 1 .. Len(log) : i < j => log[i].id < log[j].id

\* What was answered is in a log, or was pushed out of it by newer revisions.
Kept(log) ==
    \A id \in DOMAIN answered :
        \/ \E i \in 1 .. Len(log) : log[i] = [id |-> id, catalogue |-> answered[id]]
        \/ Len(log) = MaxRevisions /\ id < Head(log).id

\* A state to which a restart or an undo may return.
ImageSound(image) ==
    /\ image.monitors \in Monitors!Catalogues /\ LogSound(image.revisions) /\ Kept(image.revisions)
    /\ image.next = Monitors!Last(image.revisions).id
    /\ ~torn => image.monitors = Monitors!Newest(image.revisions)

CatInv ==
    /\ monitors \in Monitors!Catalogues /\ LogSound(revisions) /\ Kept(revisions)
    /\ nextRevision = Monitors!Last(revisions).id
    /\ ImageSound(stored)
    /\ crashes \in 0 .. MaxCrashes /\ torn \in BOOLEAN /\ DOMAIN answered \subseteq Int
    /\ \/ change = Monitors!NoChange /\ (~torn => monitors = Monitors!Newest(revisions))
       \/ /\ change = [step |-> change.step, old |-> change.old] /\ ImageSound(change.old)
          /\ \/ change.step = "replaced" /\ Monitors!Valid(monitors) /\ nextRevision < MaxId
             \/ change.step = "recorded" /\ monitors = Monitors!Newest(revisions)
             \/ change.step = "undoing" /\ monitors = change.old.monitors

LEMMA CataloguesAre ==
    ASSUME NEW c \in Monitors!Catalogues
    PROVE  /\ DOMAIN c \subseteq Name /\ \A n \in DOMAIN c : c[n] \in Monitors!Monitor
           /\ c = [n \in DOMAIN c |-> c[n]]
BY DEF Monitors!Catalogues

LEMMA CataloguesMade ==
    ASSUME NEW S \in SUBSET Name, NEW c, c = [n \in S |-> c[n]], \A n \in S : c[n] \in Monitors!Monitor
    PROVE  c \in Monitors!Catalogues
<1>1. c \in [S -> Monitors!Monitor]
    OBVIOUS
<1>2. QED
    BY <1>1 DEF Monitors!Catalogues

\* Whatever a handler asks for is a catalogue.
LEMMA WantedIsCatalogue ==
    ASSUME CatInv, NEW wanted \in Monitors!Created \cup Monitors!Updated \cup Monitors!Deleted \cup
           Monitors!RolledBack
    PROVE  wanted \in Monitors!Catalogues
<1>1. ASSUME NEW n \in Name, NEW m \in Monitors!Monitor PROVE Monitors!Put(n, m) \in Monitors!Catalogues
    <2> DEFINE made == Monitors!Put(n, m)
    <2>1. /\ made = [k \in DOMAIN monitors \cup {n} |-> made[k]]
          /\ made[n] = m /\ \A k \in DOMAIN monitors : k # n => made[k] = monitors[k]
        BY DEF Monitors!Put
    <2>2. DOMAIN monitors \cup {n} \in SUBSET Name
        BY CataloguesAre DEF CatInv
    <2>3. \A k \in DOMAIN monitors \cup {n} : made[k] \in Monitors!Monitor
        BY <2>1, CataloguesAre DEF CatInv
    <2> HIDE DEF made
    <2>4. made \in Monitors!Catalogues
        BY <2>1, <2>2, <2>3, CataloguesMade
    <2>5. QED
        BY <2>4 DEF made
<1>2. ASSUME NEW n \in DOMAIN monitors PROVE Monitors!Without(n) \in Monitors!Catalogues
    <2> DEFINE made == Monitors!Without(n)
    <2>1. /\ made = [k \in DOMAIN monitors \ {n} |-> made[k]]
          /\ \A k \in DOMAIN monitors \ {n} : made[k] = monitors[k]
        BY DEF Monitors!Without
    <2>2. DOMAIN monitors \ {n} \in SUBSET Name
        BY CataloguesAre DEF CatInv
    <2>3. \A k \in DOMAIN monitors \ {n} : made[k] \in Monitors!Monitor
        BY <2>1, CataloguesAre DEF CatInv
    <2> HIDE DEF made
    <2>4. made \in Monitors!Catalogues
        BY <2>1, <2>2, <2>3, CataloguesMade
    <2>5. QED
        BY <2>4 DEF made
<1>3. \A i \in 1 .. Len(revisions) : revisions[i].catalogue \in Monitors!Catalogues
    <2>1. \A i \in 1 .. Len(revisions) : revisions[i] \in Monitors!Revisions
        BY DEF CatInv, LogSound
    <2>2. QED
        BY <2>1 DEF Monitors!Revisions
<1>4. DOMAIN monitors \subseteq Name
    BY CataloguesAre DEF CatInv
<1>5. QED
    BY <1>1, <1>2, <1>3, <1>4 DEF Monitors!Created, Monitors!Updated, Monitors!Deleted, Monitors!RolledBack

\* A newer revision may push out the oldest, and no other.
LEMMA LogGrows ==
    ASSUME NEW log, LogSound(log), NEW e \in Monitors!Revisions, Monitors!Valid(e.catalogue),
           Monitors!Last(log).id < e.id,
           DOMAIN answered \subseteq Int
    PROVE  /\ LogSound(Monitors!Trimmed(Append(log, e))) /\ Monitors!Last(Monitors!Trimmed(Append(log, e))) = e
           /\ Kept(log) => Kept(Monitors!Trimmed(Append(log, e)))
<1> DEFINE long == Append(log, e)
           n == Len(log)
<1>1. /\ MaxRevisions \in Nat \ {0} /\ log \in Seq(Monitors!Revisions) /\ n \in 1 .. MaxRevisions
      /\ \A i \in 1 .. n : log[i] \in Monitors!Revisions /\ log[i].id \in Int
      /\ e.id \in Int
    <2>1. /\ MaxRevisions \in Nat \ {0} /\ log \in Seq(Monitors!Revisions) /\ n \in 1 .. MaxRevisions
          /\ MaxId \in Nat
        BY CatalogueParameters DEF Monitors!CatalogueAssumption, LogSound
    <2>2. \A i \in 1 .. n : log[i] \in Monitors!Revisions
        BY <2>1
    <2>3. \A r \in Monitors!Revisions : r.id \in Int
        BY <2>1 DEF Monitors!Revisions
    <2>4. QED
        BY <2>1, <2>2, <2>3
<1>2. /\ long \in Seq(Monitors!Revisions) /\ Len(long) = n + 1 /\ long[n + 1] = e
      /\ \A i \in 1 .. n : long[i] = log[i]
    BY <1>1
<1>3. \A i \in 1 .. n : log[i].id < e.id
    BY <1>1 DEF LogSound, Monitors!Last
<1>4. \A i, j \in 1 .. n + 1 : i < j => long[i].id < long[j].id
    <2>1. SUFFICES ASSUME NEW i \in 1 .. n + 1, NEW j \in 1 .. n + 1, i < j
                   PROVE  long[i].id < long[j].id
        OBVIOUS
    <2>2. i \in 1 .. n
        BY <1>1, <2>1
    <2>3. CASE j \in 1 .. n
        BY <1>2, <2>1, <2>2, <2>3 DEF LogSound
    <2>4. CASE j = n + 1
        BY <1>2, <1>3, <2>2, <2>4
    <2>5. QED
        BY <1>1, <2>3, <2>4
<1>5. \A i \in 1 .. n + 1 : Monitors!Valid(long[i].catalogue)
    <2>1. SUFFICES ASSUME NEW i \in 1 .. n + 1 PROVE Monitors!Valid(long[i].catalogue)
        OBVIOUS
    <2>2. CASE i \in 1 .. n
        BY <1>2, <2>2 DEF LogSound
    <2>3. CASE i = n + 1
        BY <1>2, <2>3
    <2>4. QED
        BY <1>1, <2>2, <2>3
<1> HIDE DEF long
<1>6. CASE n < MaxRevisions
    <2>1. Monitors!Trimmed(long) = long
        BY <1>1, <1>2, <1>6 DEF Monitors!Trimmed
    <2>2. LogSound(long) /\ Monitors!Last(long) = e
        BY <1>1, <1>2, <1>4, <1>5, <1>6 DEF LogSound, Monitors!Last
    <2>3. ASSUME Kept(log) PROVE Kept(long)
        <3>1. SUFFICES ASSUME NEW id \in DOMAIN answered
                       PROVE  \E i \in 1 .. Len(long) :
                                 long[i] = [id |-> id, catalogue |-> answered[id]]
            BY DEF Kept
        <3>2. PICK i \in 1 .. n : log[i] = [id |-> id, catalogue |-> answered[id]]
            BY <1>1, <1>6, <2>3 DEF Kept
        <3>3. i \in 1 .. Len(long)
            BY <1>1, <1>2
        <3>4. QED
            BY <1>2, <3>2, <3>3
    <2>4. QED
        BY <2>1, <2>2, <2>3 DEF long
<1>7. CASE n = MaxRevisions
    <2> DEFINE new == Tail(long)
    <2>1. Monitors!Trimmed(long) = new
        BY <1>1, <1>2, <1>7 DEF Monitors!Trimmed
    <2>2. /\ new \in Seq(Monitors!Revisions) /\ Len(new) = n
          /\ \A i \in 1 .. n : new[i] = long[i + 1]
        BY <1>1, <1>2
    <2> HIDE DEF new
    <2>3. \A i \in 1 .. n : i + 1 \in 1 .. n + 1
        BY <1>1
    <2>4. LogSound(new)
        <3>1. \A i, j \in 1 .. n : i < j => new[i].id < new[j].id
            <4>1. SUFFICES ASSUME NEW i \in 1 .. n, NEW j \in 1 .. n, i < j
                           PROVE  new[i].id < new[j].id
                OBVIOUS
            <4>2. i + 1 < j + 1
                BY <1>1, <4>1
            <4>3. long[i + 1].id < long[j + 1].id
                BY <1>4, <2>3, <4>2
            <4>4. QED
                BY <2>2, <4>3
        <3>2. \A i \in 1 .. n : Monitors!Valid(new[i].catalogue)
            BY <1>5, <2>2, <2>3
        <3>3. QED
            BY <1>1, <2>2, <3>1, <3>2 DEF LogSound
    <2>5. Monitors!Last(new) = e
        BY <1>1, <1>2, <2>2 DEF Monitors!Last
    <2>6. Head(new) = long[2] /\ Head(log) = log[1] /\ long[1] = log[1]
        BY <1>1, <1>2, <2>2, <2>3
    <2>7. log[1].id < Head(new).id /\ Head(new).id \in Int
        <3>1. 1 \in 1 .. n + 1 /\ 2 \in 1 .. n + 1
            BY <1>1
        <3>2. long[2] \in Monitors!Revisions
            BY <1>2, <3>1
        <3>3. long[2].id \in Int
            BY <3>2 DEF Monitors!Revisions
        <3>4. QED
            BY <1>4, <2>6, <3>1, <3>3
    <2>8. ASSUME Kept(log) PROVE Kept(new)
        <3>1. SUFFICES ASSUME NEW id \in DOMAIN answered
                       PROVE  \/ \E i \in 1 .. Len(new) :
                                    new[i] = [id |-> id, catalogue |-> answered[id]]
                              \/ Len(new) = MaxRevisions /\ id < Head(new).id
            BY DEF Kept
        <3>2. CASE \E i \in 1 .. n : log[i] = [id |-> id, catalogue |-> answered[id]]
            <4>1. PICK i \in 1 .. n : log[i] = [id |-> id, catalogue |-> answered[id]]
                BY <3>2
            <4>2. CASE i = 1
                <5>1. log[1].id = id
                    BY <4>1, <4>2
                <5>2. QED
                    BY <1>7, <2>2, <2>7, <5>1
            <4>3. CASE i # 1
                <5>1. i - 1 \in 1 .. n /\ (i - 1) + 1 = i
                    BY <1>1, <4>3
                <5>2. new[i - 1] = log[i]
                    BY <1>2, <2>2, <5>1
                <5>3. QED
                    BY <2>2, <4>1, <5>1, <5>2
            <4>4. QED
                BY <4>2, <4>3
        <3>3. CASE id < Head(log).id
            <4>1. id < log[1].id
                BY <2>6, <3>3
            <4>2. log[1].id \in Int
                BY <1>1
            <4>3. id < Head(new).id
                BY <2>7, <4>1, <4>2
            <4>4. QED
                BY <1>7, <2>2, <4>3
        <3>4. QED
            BY <2>8, <3>2, <3>3 DEF Kept
    <2>9. QED
        BY <2>1, <2>4, <2>5, <2>8 DEF long, new
<1>8. QED
    BY <1>1, <1>6, <1>7

LEMMA CatInit == Monitors!Init => CatInv
<1> SUFFICES ASSUME Monitors!Init PROVE CatInv
    OBVIOUS
<1> DEFINE first == [id |-> 1, catalogue |-> monitors]
<1>1. /\ monitors \in Monitors!Catalogues /\ Monitors!Valid(monitors)
      /\ revisions = <<first>> /\ nextRevision = 1
      /\ change = Monitors!NoChange /\ stored = Monitors!Snapshot
      /\ crashes = 0 /\ answered = [i \in {} |-> monitors] /\ torn = FALSE
    BY DEF Monitors!Init
<1>2. MaxRevisions \in Nat \ {0} /\ MaxId \in Nat \ {0} /\ MaxCrashes \in Nat
    BY CatalogueParameters DEF Monitors!CatalogueAssumption
<1>3. first \in Monitors!Revisions /\ first.catalogue = monitors /\ first.id = 1
    BY <1>1, <1>2 DEF Monitors!Revisions
<1> HIDE DEF first
<1>4. revisions \in Seq(Monitors!Revisions) /\ Len(revisions) = 1 /\ revisions[1] = first
    BY <1>1, <1>3
<1>5. LogSound(revisions)
    BY <1>1, <1>2, <1>3, <1>4 DEF LogSound
<1>6. nextRevision = Monitors!Last(revisions).id /\ monitors = Monitors!Newest(revisions)
    BY <1>1, <1>3, <1>4 DEF Monitors!Last, Monitors!Newest
<1>7. stored.monitors = monitors /\ stored.revisions = revisions /\ stored.next = nextRevision
    BY <1>1 DEF Monitors!Snapshot
<1>8. DOMAIN answered = {}
    BY <1>1
<1>9. Kept(revisions)
    BY <1>8 DEF Kept
<1>10. ImageSound(stored)
    BY <1>1, <1>5, <1>6, <1>7, <1>9 DEF ImageSound
<1>11. crashes \in 0 .. MaxCrashes /\ torn \in BOOLEAN /\ DOMAIN answered \subseteq Int
    <2>1. crashes = 0 /\ torn = FALSE
        BY <1>1
    <2>2. 0 \in 0 .. MaxCrashes
        BY <1>2
    <2>3. QED
        BY <1>8, <2>1, <2>2
<1>12. change = Monitors!NoChange /\ monitors \in Monitors!Catalogues
    BY <1>1
<1>13. QED
    BY <1>5, <1>6, <1>9, <1>10, <1>11, <1>12 DEF CatInv

\* A snapshot of the state between changes, or once a revision is recorded.
LEMMA SnapshotSound ==
    ASSUME CatInv, ~torn => monitors = Monitors!Newest(revisions)
    PROVE  ImageSound(Monitors!Snapshot)
<1>1. /\ Monitors!Snapshot.monitors = monitors /\ Monitors!Snapshot.revisions = revisions
      /\ Monitors!Snapshot.next = nextRevision
    BY DEF Monitors!Snapshot
<1>2. QED
    BY <1>1 DEF CatInv, ImageSound

LEMMA Replaced == ASSUME CatInv, Monitors!Replace PROVE CatInv'
<1>1. /\ change = Monitors!NoChange /\ nextRevision < MaxId
      /\ UNCHANGED <<revisions, nextRevision, stored, crashes, answered, torn>>
    BY DEF Monitors!Replace
<1>2. PICK wanted \in Monitors!Created \cup Monitors!Updated \cup Monitors!Deleted \cup Monitors!RolledBack :
         Monitors!Valid(wanted) /\ monitors' = wanted /\
            change' = [step |-> "replaced", old |-> Monitors!Snapshot]
    BY DEF Monitors!Replace
<1>3. wanted \in Monitors!Catalogues
    BY <1>2, WantedIsCatalogue
<1>4. ~torn => monitors = Monitors!Newest(revisions)
    BY <1>1 DEF CatInv, Monitors!NoChange
<1>5. PICK image : image = Monitors!Snapshot
    OBVIOUS
<1>6. ImageSound(image)
    BY <1>4, <1>5, SnapshotSound
<1>7. change' = [step |-> "replaced", old |-> image]
    BY <1>2, <1>5
<1>8. change'.step = "replaced" /\ change'.old = image
    BY <1>7
<1>9. ImageSound(image)' /\ ImageSound(stored)'
    BY <1>1, <1>6 DEF CatInv, ImageSound, Kept
<1>10. LogSound(revisions)' /\ Kept(revisions)'
    BY <1>1 DEF CatInv, LogSound, Kept
<1>11. Monitors!Valid(monitors)'
    BY <1>2 DEF Monitors!Valid
<1>12. QED
    BY <1>1, <1>2, <1>3, <1>7, <1>8, <1>9, <1>10, <1>11 DEF CatInv

LEMMA Recorded == ASSUME CatInv, Monitors!Record PROVE CatInv'
<1> DEFINE e == [id |-> nextRevision + 1, catalogue |-> monitors]
           log == Monitors!Trimmed(Append(revisions, e))
<1>1. /\ change.step = "replaced" /\ nextRevision' = nextRevision + 1
      /\ revisions' = log /\ change' = [change EXCEPT !.step = "recorded"]
      /\ UNCHANGED <<monitors, stored, crashes, answered, torn>>
    BY DEF Monitors!Record
<1>2. PICK image : image = change.old
    OBVIOUS
<1>3. /\ change = [step |-> "replaced", old |-> image] /\ ImageSound(image)
      /\ Monitors!Valid(monitors) /\ nextRevision < MaxId
    BY <1>1, <1>2 DEF CatInv, Monitors!NoChange
<1>4. change' = [step |-> "recorded", old |-> image]
    BY <1>1, <1>3
<1>5. change'.step = "recorded" /\ change'.old = image
    BY <1>4
<1>6. MaxId \in Nat \ {0} /\ LogSound(revisions) /\ Kept(revisions) /\ monitors \in Monitors!Catalogues
      /\ DOMAIN answered \subseteq Int /\ nextRevision = Monitors!Last(revisions).id
    BY CatalogueParameters DEF Monitors!CatalogueAssumption, CatInv
<1>7. nextRevision \in 1 .. MaxId
    <2>1. Monitors!Last(revisions) \in Monitors!Revisions
        BY <1>6 DEF LogSound, Monitors!Last
    <2>2. QED
        BY <1>6, <2>1 DEF Monitors!Revisions
<1>8. e \in Monitors!Revisions /\ e.id = nextRevision + 1 /\ e.catalogue = monitors
    BY <1>3, <1>6, <1>7 DEF Monitors!Revisions
<1> HIDE DEF e
<1>9. LogSound(log) /\ Monitors!Last(log) = e /\ Kept(log)
    BY <1>3, <1>6, <1>7, <1>8, LogGrows
<1> HIDE DEF log
<1>10. LogSound(revisions)' /\ Kept(revisions)'
    BY <1>1, <1>9 DEF LogSound, Kept
<1>11. nextRevision' = Monitors!Last(revisions').id /\ monitors' = Monitors!Newest(revisions')
    BY <1>1, <1>8, <1>9 DEF Monitors!Newest
<1>12. ImageSound(image)' /\ ImageSound(stored)'
    BY <1>1, <1>3 DEF CatInv, ImageSound, Kept
<1>13. QED
    BY <1>1, <1>4, <1>5, <1>10, <1>11, <1>12 DEF CatInv

LEMMA Saved == ASSUME CatInv, Monitors!Save PROVE CatInv'
<1>1. /\ change.step = "recorded" /\ stored' = Monitors!Snapshot /\ change' = Monitors!NoChange
      /\ UNCHANGED <<monitors, revisions, nextRevision, crashes, torn>>
      /\ answered' = [i \in DOMAIN answered \cup {nextRevision} |->
                         IF i = nextRevision THEN monitors ELSE answered[i]]
    BY DEF Monitors!Save
<1>2. monitors = Monitors!Newest(revisions) /\ LogSound(revisions) /\ Kept(revisions)
      /\ nextRevision = Monitors!Last(revisions).id
    BY <1>1 DEF CatInv, Monitors!NoChange
<1>3. Monitors!Last(revisions) = [id |-> nextRevision, catalogue |-> monitors]
      /\ nextRevision \in Int
    <2>1. Monitors!Last(revisions) \in Monitors!Revisions
        BY <1>2 DEF LogSound, Monitors!Last
    <2>2. QED
        BY <1>2, <2>1 DEF Monitors!Newest, Monitors!Revisions
<1>4. DOMAIN answered' = DOMAIN answered \cup {nextRevision} /\ answered'[nextRevision] = monitors
      /\ \A i \in DOMAIN answered : i # nextRevision => answered'[i] = answered[i]
    BY <1>1
<1>5. Kept(revisions)'
    <2>1. SUFFICES ASSUME NEW id \in DOMAIN answered'
                   PROVE  \/ \E i \in 1 .. Len(revisions) :
                                revisions[i] = [id |-> id, catalogue |-> answered'[id]]
                          \/ Len(revisions) = MaxRevisions /\ id < Head(revisions).id
        BY <1>1 DEF Kept
    <2>2. CASE id = nextRevision
        <3>1. Len(revisions) \in 1 .. Len(revisions)
              /\ revisions[Len(revisions)] = [id |-> id, catalogue |-> answered'[id]]
            BY <1>2, <1>3, <1>4, <2>2 DEF LogSound, Monitors!Last
        <3>2. QED
            BY <3>1
    <2>3. CASE id # nextRevision
        BY <1>2, <1>4, <2>1, <2>3 DEF Kept
    <2>4. QED
        BY <2>2, <2>3
<1>6. /\ stored'.monitors = monitors /\ stored'.revisions = revisions
      /\ stored'.next = nextRevision
    BY <1>1 DEF Monitors!Snapshot
<1>7. LogSound(revisions)'
    BY <1>1, <1>2 DEF LogSound
<1>8. Kept(stored.revisions)' /\ LogSound(stored.revisions)'
    BY <1>1, <1>5, <1>6, <1>7 DEF Kept, LogSound
<1>9. ImageSound(stored)'
    BY <1>1, <1>2, <1>6, <1>8 DEF CatInv, ImageSound
<1>10. QED
    BY <1>1, <1>2, <1>3, <1>4, <1>5, <1>7, <1>9 DEF CatInv

LEMMA Undone == ASSUME CatInv, Monitors!Undo PROVE CatInv'
<1>1. /\ change.step = "recorded" /\ monitors' = change.old.monitors
      /\ change' = [change EXCEPT !.step = "undoing"]
      /\ UNCHANGED <<revisions, nextRevision, stored, crashes, answered, torn>>
    BY DEF Monitors!Undo
<1>2. PICK image : image = change.old
    OBVIOUS
<1>3. change = [step |-> "recorded", old |-> image] /\ ImageSound(image)
    BY <1>1, <1>2 DEF CatInv, Monitors!NoChange
<1>4. change' = [step |-> "undoing", old |-> image]
    BY <1>1, <1>3
<1>5. change'.step = "undoing" /\ change'.old = image
    BY <1>4
<1>6. ImageSound(image)' /\ ImageSound(stored)'
    BY <1>1, <1>3 DEF CatInv, ImageSound, Kept
<1>7. LogSound(revisions)' /\ Kept(revisions)' /\ monitors' \in Monitors!Catalogues
    BY <1>1, <1>2, <1>3 DEF CatInv, LogSound, Kept, ImageSound
<1>8. QED
    BY <1>1, <1>2, <1>4, <1>5, <1>6, <1>7 DEF CatInv

LEMMA UndoneWhole == ASSUME CatInv, Monitors!UndoRevisions PROVE CatInv'
<1>1. /\ change.step = "undoing" /\ revisions' = change.old.revisions
      /\ nextRevision' = change.old.next /\ change' = Monitors!NoChange
      /\ UNCHANGED <<monitors, stored, crashes, answered, torn>>
    BY DEF Monitors!UndoRevisions
<1>2. PICK image : image = change.old
    OBVIOUS
<1>3. ImageSound(image) /\ monitors = image.monitors
    BY <1>1, <1>2 DEF CatInv, Monitors!NoChange
<1>4. ImageSound(stored)'
    BY <1>1 DEF CatInv, ImageSound, Kept
<1>5. LogSound(revisions)' /\ Kept(revisions)'
    BY <1>1, <1>2, <1>3 DEF LogSound, Kept, ImageSound
<1>6. nextRevision' = Monitors!Last(revisions').id /\ (~torn => monitors = Monitors!Newest(revisions'))
    BY <1>1, <1>2, <1>3 DEF ImageSound
<1>7. QED
    BY <1>1, <1>4, <1>5, <1>6 DEF CatInv

\* Others may persist the state in the middle of a change: then the monitors of
\* the file need not be those of its newest revision, but its revisions are kept.
LEMMA OtherPersisted == ASSUME CatInv, Monitors!PersistOther PROVE CatInv'
<1>1. /\ stored' = Monitors!Snapshot /\ torn' = (torn \/ change # Monitors!NoChange)
      /\ UNCHANGED <<monitors, revisions, nextRevision, change, crashes, answered>>
    BY DEF Monitors!PersistOther
<1>2. /\ stored'.monitors = monitors /\ stored'.revisions = revisions
      /\ stored'.next = nextRevision
    BY <1>1 DEF Monitors!Snapshot
<1>3. torn' \in BOOLEAN /\ (~torn' => ~torn /\ change = Monitors!NoChange)
    BY <1>1 DEF CatInv
<1>4. ~torn' => monitors = Monitors!Newest(revisions)
    BY <1>3 DEF CatInv, Monitors!NoChange
<1>5. LogSound(revisions)' /\ Kept(revisions)'
    BY <1>1 DEF CatInv, LogSound, Kept
<1>6. ImageSound(stored)'
    BY <1>1, <1>2, <1>4, <1>5 DEF CatInv, ImageSound, LogSound, Kept
<1>7. PICK image : image = change.old
    OBVIOUS
<1>8. ImageSound(image) => ImageSound(image)'
    BY <1>1, <1>3 DEF ImageSound, Kept
<1>9. QED
    BY <1>1, <1>3, <1>4, <1>5, <1>6, <1>7, <1>8 DEF CatInv

LEMMA Restarted == ASSUME CatInv, Monitors!Restart PROVE CatInv'
<1>1. /\ crashes < MaxCrashes /\ crashes' = crashes + 1 /\ monitors' = stored.monitors
      /\ revisions' = stored.revisions /\ nextRevision' = stored.next /\ change' = Monitors!NoChange
      /\ UNCHANGED <<stored, answered, torn>>
    BY DEF Monitors!Restart
<1>2. crashes' \in 0 .. MaxCrashes
    BY <1>1, CatalogueParameters DEF Monitors!CatalogueAssumption, CatInv
<1>3. ImageSound(stored) /\ ImageSound(stored)'
    BY <1>1 DEF CatInv, ImageSound, Kept
<1>4. LogSound(revisions)' /\ Kept(revisions)'
    BY <1>1, <1>3 DEF ImageSound, LogSound, Kept
<1>5. QED
    BY <1>1, <1>2, <1>3, <1>4 DEF CatInv, ImageSound

LEMMA CatStep == CatInv /\ [Monitors!Next]_(Monitors!vars) => CatInv'
<1> SUFFICES ASSUME CatInv, [Monitors!Next]_(Monitors!vars) PROVE CatInv'
    OBVIOUS
<1>1. CASE UNCHANGED Monitors!vars
    <2>1. PICK image : image = change.old
        OBVIOUS
    <2>2. ImageSound(image) => ImageSound(image)'
        BY <1>1 DEF Monitors!vars, ImageSound, Kept
    <2>3. ImageSound(stored)' /\ LogSound(revisions)' /\ Kept(revisions)'
        BY <1>1 DEF Monitors!vars, CatInv, ImageSound, Kept, LogSound
    <2>4. QED
        BY <1>1, <2>1, <2>2, <2>3 DEF Monitors!vars, CatInv, Monitors!Valid
<1>2. QED
    BY <1>1, Replaced, Recorded, Saved, Undone, UndoneWhole, OtherPersisted, Restarted DEF Monitors!Next

LEMMA KeptThen == CatInv => Monitors!AnsweredIsKept
BY DEF CatInv, ImageSound, Kept, Monitors!AnsweredIsKept, Monitors!NoChange

LEMMA CatalogueTyped == ASSUME CatInv PROVE Monitors!TypeOK
<1>1. \A i \in 1 .. Len(revisions) : revisions[i] \in Monitors!Revisions
    BY DEF CatInv, LogSound
<1>2. \A i \in 1 .. Len(revisions) - 1 : revisions[i].id < revisions[i + 1].id
    <2>1. SUFFICES ASSUME NEW i \in 1 .. Len(revisions) - 1
                   PROVE  revisions[i].id < revisions[i + 1].id
        OBVIOUS
    <2>2. Len(revisions) \in Nat
        BY DEF CatInv, LogSound
    <2>3. i \in 1 .. Len(revisions) /\ i + 1 \in 1 .. Len(revisions) /\ i < i + 1
        BY <2>2
    <2>4. QED
        BY <1>1, <2>3 DEF CatInv, LogSound
<1>3. QED
    BY <1>1, <1>2 DEF CatInv, LogSound, Monitors!TypeOK, Monitors!NoChange

-----------------------------------------------------------------------------
(* The notices.  One that was made is there, deleted or outdated, and says *)
(* what was posted; the copies of editors say no more than that.           *)

LEMMA NoticeParameters == Page!NoticesAssumption
BY Assumptions

LEMMA SameCount == \A S : Page!Cardinality(S) = Cardinality(S)
BY DEF Page!Cardinality, Cardinality

\* What is known of a notice that is there.
Noticed(id) ==
    /\ notices[id] \in Page!Notice /\ Len(posted[id]) \in 1 .. MaxUpdates
    /\ notices[id].updates = posted[id] /\ notices[id].state = Page!Last(posted[id])
    /\ notices[id].state = "closed" <=> notices[id].resolved # Page!Never
    /\ notices[id].resolved = NoticeRetention + 1 => id \in outdated

NoticesInv ==
    /\ nextNoticeID \in 0 .. MaxNoticeId
    /\ posted \in Seq(Seq(Page!State)) /\ Len(posted) = nextNoticeID
    /\ notices = [id \in DOMAIN notices |-> notices[id]]
    /\ DOMAIN notices \subseteq 1 .. nextNoticeID /\ Cardinality(DOMAIN notices) <= MaxNotices
    /\ \A id \in DOMAIN notices : Noticed(id)
    /\ edits \in [Editor -> [id : 1 .. nextNoticeID, copy : Page!Notice] \cup {Page!NoEdit}]
    /\ deleted \subseteq (1 .. nextNoticeID) \ DOMAIN notices /\ outdated \subseteq 1 .. nextNoticeID
    /\ \A id \in 1 .. nextNoticeID : id \in DOMAIN notices \/ id \in deleted \/ id \in outdated

LEMMA NoticeLimits ==
    /\ MaxNotices \in Nat \ {0} /\ MaxUpdates \in Nat \ {0} /\ NoticeRetention \in Nat
    /\ MaxNoticeId \in Nat /\ Page!Never = NoticeRetention + 2
BY NoticeParameters DEF Page!NoticesAssumption, Page!Never

LEMMA FinitelyMany ==
    ASSUME NoticesInv
    PROVE  /\ IsFiniteSet(DOMAIN notices) /\ Cardinality(DOMAIN notices) \in Nat
           /\ \A S \in SUBSET DOMAIN notices :
                 /\ IsFiniteSet(S) /\ Cardinality(S) \in Nat
                 /\ Cardinality(S) <= Cardinality(DOMAIN notices)
<1>1. nextNoticeID \in Int /\ DOMAIN notices \subseteq 1 .. nextNoticeID
    BY DEF NoticesInv
<1>2. IsFiniteSet(1 .. nextNoticeID)
    BY <1>1, FS_Interval
<1>3. IsFiniteSet(DOMAIN notices)
    BY <1>1, <1>2, FS_Subset
<1>4. QED
    BY <1>3, FS_Subset, FS_CardinalityType

LEMMA NoticesInit == Page!Init => NoticesInv
<1> SUFFICES ASSUME Page!Init PROVE NoticesInv
    OBVIOUS
<1>1. /\ notices = [id \in {} |-> Page!NoEdit] /\ DOMAIN notices = {} /\ nextNoticeID = 0
      /\ edits = [e \in Editor |-> Page!NoEdit] /\ posted = <<>> /\ deleted = {} /\ outdated = {}
    BY DEF Page!Init
<1>2. Cardinality(DOMAIN notices) = 0
    BY <1>1, FS_EmptySet
<1>3. 0 \in 0 .. MaxNoticeId
    BY NoticeLimits
<1>4. notices = [id \in DOMAIN notices |-> notices[id]]
    BY <1>1
<1>5. edits \in [Editor -> [id : 1 .. nextNoticeID, copy : Page!Notice] \cup {Page!NoEdit}]
    BY <1>1
<1>6. QED
    BY <1>1, <1>2, <1>3, <1>4, <1>5, NoticeLimits DEF NoticesInv

\* Where no notice comes, and none goes that is not deleted or outdated.
LEMMA NoneComes ==
    ASSUME NoticesInv, NEW kept \in SUBSET DOMAIN notices,
           DOMAIN notices' = kept, notices' = [id \in kept |-> notices'[id]],
           \A id \in kept : Noticed(id)',
           nextNoticeID' = nextNoticeID, posted' \in Seq(Seq(Page!State)), Len(posted') = Len(posted),
           edits' \in [Editor -> [id : 1 .. nextNoticeID, copy : Page!Notice] \cup {Page!NoEdit}],
           deleted' \subseteq (1 .. nextNoticeID) \ kept, outdated' \subseteq 1 .. nextNoticeID,
           \A id \in 1 .. nextNoticeID : id \in kept \/ id \in deleted' \/ id \in outdated'
    PROVE  NoticesInv'
<1>1. Cardinality(kept) <= MaxNotices
    BY FinitelyMany, NoticeLimits DEF NoticesInv
<1>2. QED
    BY <1>1 DEF NoticesInv

LEMMA NoticeCreated ==
    ASSUME NoticesInv, NEW word \in Page!State, NEW public \in BOOLEAN, Page!CreateNotice(word, public)
    PROVE  NoticesInv'
<1> DEFINE kept == {id \in DOMAIN notices : Page!Retained(notices[id])}
           new == [state |-> word, public |-> public, updates |-> <<word>>,
                   resolved |-> Page!ResolvedNow(word)]
<1>0. PICK next \in Nat : next = nextNoticeID + 1
    BY DEF NoticesInv
<1>1. /\ nextNoticeID < MaxNoticeId /\ UNCHANGED <<edits, deleted, outdated>>
      /\ \/ notices' = [id \in kept |-> notices[id]] /\ UNCHANGED <<nextNoticeID, posted>>
         \/ /\ Cardinality(kept) < MaxNotices
            /\ nextNoticeID' = next /\ posted' = Append(posted, <<word>>)
            /\ notices' = [id \in kept \cup {next} |-> IF id = next THEN new ELSE notices[id]]
    BY <1>0, SameCount DEF Page!CreateNotice
<1>2. kept \subseteq DOMAIN notices /\ \A id \in DOMAIN notices \ kept : id \in outdated
    <2>1. SUFFICES ASSUME NEW id \in DOMAIN notices, ~Page!Retained(notices[id]) PROVE id \in outdated
        OBVIOUS
    <2>2. notices[id].resolved \in 0 .. Page!Never
        BY DEF NoticesInv, Noticed, Page!Notice
    <2>3. notices[id].resolved = NoticeRetention + 1
        BY <2>1, <2>2, NoticeLimits DEF Page!Retained
    <2>4. QED
        BY <2>3 DEF NoticesInv, Noticed
<1>3. /\ new \in Page!Notice /\ new.updates = <<word>> /\ new.state = word
      /\ new.state = "closed" <=> new.resolved # Page!Never
      /\ new.resolved # NoticeRetention + 1
    BY NoticeLimits DEF Page!ResolvedNow, Page!State, Page!Notice
<1>4. nextNoticeID \in Nat /\ next \notin DOMAIN notices /\ next \in 0 .. MaxNoticeId
    BY <1>0, <1>1, NoticeLimits DEF NoticesInv
<1> HIDE DEF kept, new
<1>5. CASE notices' = [id \in kept |-> notices[id]] /\ UNCHANGED <<nextNoticeID, posted>>
    <2>1. DOMAIN notices' = kept /\ \A id \in kept : notices'[id] = notices[id]
        BY <1>5
    <2>2. \A id \in kept : Noticed(id)'
        BY <1>1, <1>2, <1>5, <2>1 DEF NoticesInv, Noticed
    <2>3. posted' \in Seq(Seq(Page!State)) /\ Len(posted') = Len(posted) /\ nextNoticeID' = nextNoticeID
        BY <1>5 DEF NoticesInv
    <2>4. edits' \in [Editor -> [id : 1 .. nextNoticeID, copy : Page!Notice] \cup {Page!NoEdit}]
        BY <1>1 DEF NoticesInv
    <2>5. /\ deleted' \subseteq (1 .. nextNoticeID) \ kept /\ outdated' \subseteq 1 .. nextNoticeID
          /\ \A id \in 1 .. nextNoticeID : id \in kept \/ id \in deleted' \/ id \in outdated'
        BY <1>1, <1>2 DEF NoticesInv
    <2>6. QED
        BY <1>2, <1>5, <2>1, <2>2, <2>3, <2>4, <2>5, NoneComes
<1>6. CASE /\ Cardinality(kept) < MaxNotices
           /\ nextNoticeID' = next /\ posted' = Append(posted, <<word>>)
           /\ notices' = [id \in kept \cup {next} |-> IF id = next THEN new ELSE notices[id]]
    <2>1. /\ DOMAIN notices' = kept \cup {next} /\ notices'[next] = new
          /\ \A id \in kept : id # next /\ notices'[id] = notices[id]
        BY <1>2, <1>4, <1>6
    <2>2. posted' \in Seq(Seq(Page!State)) /\ Len(posted') = next
        BY <1>0, <1>6 DEF NoticesInv
    <2>3. posted'[next] = <<word>> /\ \A id \in 1 .. nextNoticeID : posted'[id] = posted[id]
        BY <1>0, <1>6 DEF NoticesInv
    <2>4. Noticed(next)'
        <3>1. Len(<<word>>) = 1 /\ Page!Last(<<word>>) = word
            BY DEF Page!Last
        <3>2. notices'[next] \in Page!Notice /\ notices'[next].resolved # NoticeRetention + 1
            BY <1>3, <2>1
        <3>3. Len(posted'[next]) \in 1 .. MaxUpdates /\ Page!Last(posted'[next]) = word
            BY <2>3, <3>1, NoticeLimits
        <3>4. notices'[next].updates = posted'[next] /\ notices'[next].state = word
            BY <1>3, <2>1, <2>3
        <3>5. notices'[next].state = "closed" <=> notices'[next].resolved # Page!Never
            BY <1>3, <2>1
        <3>6. QED
            BY <3>2, <3>3, <3>4, <3>5 DEF Noticed, Page!Never
    <2>5. \A id \in kept : Noticed(id)'
        BY <1>1, <1>2, <2>1, <2>3 DEF NoticesInv, Noticed, Page!Never
    <2>6. Cardinality(kept \cup {next}) <= MaxNotices
        <3>1. IsFiniteSet(kept) /\ Cardinality(kept) \in Nat /\ next \notin kept
            BY <1>2, <1>4, FinitelyMany
        <3>2. Cardinality(kept \cup {next}) = Cardinality(kept) + 1
            BY <3>1, FS_AddElement
        <3>3. QED
            BY <1>6, <3>1, <3>2, NoticeLimits
    <2>7. edits' \in [Editor -> [id : 1 .. next, copy : Page!Notice] \cup {Page!NoEdit}]
        <3>1. 1 .. nextNoticeID \subseteq 1 .. next
            BY <1>0, <1>4
        <3>2. [id : 1 .. nextNoticeID, copy : Page!Notice] \subseteq [id : 1 .. next, copy : Page!Notice]
            BY <3>1
        <3>3. QED
            BY <1>1, <3>2 DEF NoticesInv
    <2>8. 1 .. next = (1 .. nextNoticeID) \cup {next}
        BY <1>0, <1>4
    <2>9. /\ kept \cup {next} \subseteq 1 .. next
          /\ deleted' \subseteq (1 .. next) \ (kept \cup {next}) /\ outdated' \subseteq 1 .. next
          /\ \A id \in 1 .. next : id \in kept \cup {next} \/ id \in deleted' \/ id \in outdated'
        BY <1>0, <1>1, <1>2, <1>4, <2>8 DEF NoticesInv
    <2>10. notices' = [id \in DOMAIN notices' |-> notices'[id]]
        BY <1>6
    <2>11. QED
        BY <1>0, <1>4, <1>6, <2>1, <2>2, <2>4, <2>5, <2>6, <2>7, <2>9, <2>10 DEF NoticesInv
<1>7. QED
    BY <1>1, <1>5, <1>6

LEMMA NoticeUpdated ==
    ASSUME NoticesInv, NEW id \in DOMAIN notices, NEW word \in Page!State, Page!PostNoticeUpdate(id, word)
    PROVE  NoticesInv'
<1> DEFINE old == notices[id]
           new == [old EXCEPT !.updates = Append(@, word), !.state = word,
                     !.resolved = IF word = "closed" /\ @ # Page!Never THEN @ ELSE Page!ResolvedNow(word)]
<1>1. /\ Len(old.updates) < MaxUpdates /\ notices' = [notices EXCEPT ![id] = new]
      /\ posted' = [posted EXCEPT ![id] = Append(@, word)]
      /\ outdated' = IF word = "closed" THEN outdated ELSE outdated \ {id}
      /\ UNCHANGED <<nextNoticeID, edits, deleted>>
    BY DEF Page!PostNoticeUpdate
<1>2. old \in Page!Notice /\ old.updates = posted[id] /\ id \in 1 .. Len(posted) /\
         posted[id] \in Seq(Page!State)
    BY DEF NoticesInv, Noticed
<1>3. /\ new \in Page!Notice /\ new.updates = Append(old.updates, word) /\ new.state = word
      /\ new.resolved = IF word = "closed" /\ old.resolved # Page!Never THEN old.resolved
                        ELSE Page!ResolvedNow(word)
    <2>1. Page!ResolvedNow(word) \in 0 .. Page!Never
        BY NoticeLimits DEF Page!ResolvedNow
    <2>2. PICK changed, since :
              /\ changed = Append(old.updates, word)
              /\ since = IF word = "closed" /\ old.resolved # Page!Never THEN old.resolved
                         ELSE Page!ResolvedNow(word)
        OBVIOUS
    <2>3. new = [old EXCEPT !.updates = changed, !.state = word, !.resolved = since]
        BY <1>2, <2>2 DEF Page!Notice
    <2>4. old.public \in BOOLEAN /\ Append(old.updates, word) \in Seq(Page!State) /\
             old.resolved \in 0 .. Page!Never
        BY <1>2 DEF Page!Notice
    <2> HIDE DEF old, new
    <2>5. QED
        BY <1>2, <2>1, <2>2, <2>3, <2>4 DEF Page!Notice
<1>4. /\ posted' \in Seq(Seq(Page!State)) /\ Len(posted') = Len(posted)
      /\ posted'[id] = Append(posted[id], word)
      /\ \A i \in 1 .. nextNoticeID : i # id => posted'[i] = posted[i]
    BY <1>1, <1>2 DEF NoticesInv
<1> HIDE DEF new
<1>5. /\ DOMAIN notices' = DOMAIN notices /\ notices'[id] = new
      /\ \A i \in DOMAIN notices : i # id => notices'[i] = notices[i]
      /\ notices' = [i \in DOMAIN notices |-> notices'[i]]
    BY <1>1 DEF NoticesInv
<1>6. Noticed(id)'
    <2>1. Len(posted'[id]) \in 1 .. MaxUpdates /\ Page!Last(posted'[id]) = word
        BY <1>1, <1>2, <1>4, NoticeLimits DEF Page!Last
    <2>2. new.state = "closed" <=> new.resolved # Page!Never
        BY <1>3, NoticeLimits DEF Page!ResolvedNow
    <2>3. new.resolved = NoticeRetention + 1 => id \in outdated'
        BY <1>1, <1>3, NoticeLimits DEF Page!ResolvedNow, NoticesInv, Noticed
    <2>4. QED
        BY <1>2, <1>3, <1>4, <1>5, <2>1, <2>2, <2>3 DEF Noticed, Page!Never
<1>7. \A i \in DOMAIN notices : Noticed(i)'
    <2>1. SUFFICES ASSUME NEW i \in DOMAIN notices, i # id PROVE Noticed(i)'
        BY <1>6
    <2>2. notices'[i] = notices[i] /\ posted'[i] = posted[i] /\ (i \in outdated => i \in outdated')
        BY <1>1, <1>4, <1>5, <2>1 DEF NoticesInv
    <2>3. QED
        BY <2>2 DEF NoticesInv, Noticed, Page!Never
<1>8. edits' \in [Editor -> [id : 1 .. nextNoticeID, copy : Page!Notice] \cup {Page!NoEdit}]
    BY <1>1 DEF NoticesInv
<1>9. /\ deleted' \subseteq (1 .. nextNoticeID) \ DOMAIN notices /\ outdated' \subseteq 1 .. nextNoticeID
      /\ \A i \in 1 .. nextNoticeID : i \in DOMAIN notices \/ i \in deleted' \/ i \in outdated'
    BY <1>1 DEF NoticesInv
<1>10. QED
    BY <1>1, <1>4, <1>5, <1>7, <1>8, <1>9, NoneComes

LEMMA EditBegun ==
    ASSUME NoticesInv, NEW e \in Editor, NEW id \in DOMAIN notices, Page!BeginEdit(e, id)
    PROVE  NoticesInv'
<1>1. /\ edits' = [edits EXCEPT ![e] = [id |-> id, copy |-> notices[id]]]
      /\ UNCHANGED <<notices, nextNoticeID, posted, deleted, outdated>>
    BY DEF Page!BeginEdit
<1>2. [id |-> id, copy |-> notices[id]] \in [id : 1 .. nextNoticeID, copy : Page!Notice]
    BY DEF NoticesInv, Noticed
<1>3. edits' \in [Editor -> [id : 1 .. nextNoticeID, copy : Page!Notice] \cup {Page!NoEdit}]
    BY <1>1, <1>2 DEF NoticesInv
<1>4. QED
    BY <1>1, <1>3 DEF NoticesInv, Noticed

LEMMA EditEnded ==
    ASSUME NoticesInv, NEW e \in Editor, NEW public \in BOOLEAN, Page!EndEdit(e, public)
    PROVE  NoticesInv'
<1> DEFINE copy == edits[e].copy
           New(id) == [copy EXCEPT !.public = public, !.updates = notices[id].updates,
                         !.state = notices[id].state, !.resolved = notices[id].resolved]
<1>1. /\ edits[e] # Page!NoEdit /\ edits' = [edits EXCEPT ![e] = Page!NoEdit]
      /\ notices' = [id \in DOMAIN notices |-> IF id = edits[e].id THEN New(id) ELSE notices[id]]
      /\ UNCHANGED <<nextNoticeID, posted, deleted, outdated>>
    BY DEF Page!EndEdit, Page!Edited
<1>2. copy \in Page!Notice
    BY <1>1 DEF NoticesInv
<1>3. \A id \in DOMAIN notices :
         /\ New(id) \in Page!Notice /\ New(id).updates = notices[id].updates
         /\ New(id).state = notices[id].state /\ New(id).resolved = notices[id].resolved
    <2>1. \A id \in DOMAIN notices : notices[id] \in Page!Notice
        BY DEF NoticesInv, Noticed
    <2> HIDE DEF copy
    <2>2. QED
        BY <1>2, <2>1 DEF Page!Notice
<1> HIDE DEF New, copy
<1>4. /\ DOMAIN notices' = DOMAIN notices
      /\ \A id \in DOMAIN notices : notices'[id] = notices[id] \/ notices'[id] = New(id)
      /\ notices' = [id \in DOMAIN notices |-> notices'[id]]
    BY <1>1
<1>5. \A id \in DOMAIN notices : Noticed(id)'
    <2>1. SUFFICES ASSUME NEW id \in DOMAIN notices PROVE Noticed(id)'
        OBVIOUS
    <2>2. /\ notices'[id] \in Page!Notice /\ notices'[id].updates = notices[id].updates
          /\ notices'[id].state = notices[id].state /\ notices'[id].resolved = notices[id].resolved
        BY <1>3, <1>4 DEF NoticesInv, Noticed
    <2>3. QED
        BY <1>1, <2>2 DEF NoticesInv, Noticed, Page!Never
<1>6. edits' \in [Editor -> [id : 1 .. nextNoticeID, copy : Page!Notice] \cup {Page!NoEdit}]
    BY <1>1 DEF NoticesInv
<1>7. QED
    BY <1>1, <1>4, <1>5, <1>6, NoneComes DEF NoticesInv

LEMMA NoticeRemoved == ASSUME NoticesInv, NEW id \in DOMAIN notices, Page!DeleteNotice(id) PROVE NoticesInv'
<1> DEFINE kept == DOMAIN notices \ {id}
<1>1. /\ notices' = [i \in kept |-> notices[i]] /\ deleted' = deleted \cup {id}
      /\ UNCHANGED <<nextNoticeID, edits, posted, outdated>>
    BY DEF Page!DeleteNotice
<1>2. kept \subseteq DOMAIN notices
    OBVIOUS
<1>3. /\ deleted' \subseteq (1 .. nextNoticeID) \ kept
      /\ \A i \in 1 .. nextNoticeID : i \in kept \/ i \in deleted' \/ i \in outdated'
    BY <1>1 DEF NoticesInv
<1> HIDE DEF kept
<1>4. DOMAIN notices' = kept /\ \A i \in kept : notices'[i] = notices[i]
    BY <1>1
<1>5. \A i \in kept : Noticed(i)'
    BY <1>1, <1>2, <1>4 DEF NoticesInv, Noticed, Page!Never
<1>6. edits' \in [Editor -> [id : 1 .. nextNoticeID, copy : Page!Notice] \cup {Page!NoEdit}]
    BY <1>1 DEF NoticesInv
<1>7. QED
    BY <1>1, <1>2, <1>3, <1>4, <1>5, <1>6, NoneComes DEF NoticesInv

LEMMA NoticesAge == ASSUME NoticesInv, Page!Tick PROVE NoticesInv'
<1>1. /\ notices' = [id \in DOMAIN notices |->
              [notices[id] EXCEPT !.resolved = IF @ > NoticeRetention THEN @ ELSE @ + 1]]
      /\ outdated' = outdated \cup {id \in DOMAIN notices :
              notices[id].state = "closed" /\ notices[id].resolved >= NoticeRetention}
      /\ UNCHANGED <<nextNoticeID, edits, posted, deleted>>
    BY DEF Page!Tick
<1>2. /\ DOMAIN notices' = DOMAIN notices /\ notices' = [id \in DOMAIN notices |-> notices'[id]]
      /\ \A id \in DOMAIN notices : notices'[id] =
            [notices[id] EXCEPT !.resolved = IF @ > NoticeRetention THEN @ ELSE @ + 1]
    BY <1>1
<1>3. \A id \in DOMAIN notices : Noticed(id)'
    <2>1. SUFFICES ASSUME NEW id \in DOMAIN notices PROVE Noticed(id)'
        OBVIOUS
    <2>2. notices[id] \in Page!Notice /\ notices[id].resolved \in 0 .. Page!Never
        BY DEF NoticesInv, Noticed, Page!Notice
    <2>3. /\ notices'[id].updates = notices[id].updates /\ notices'[id].state = notices[id].state
          /\ notices'[id].resolved =
                IF notices[id].resolved > NoticeRetention THEN notices[id].resolved
                ELSE notices[id].resolved + 1
        BY <1>2, <2>2 DEF Page!Notice
    <2>4. notices'[id].resolved \in 0 .. Page!Never /\ notices'[id] \in Page!Notice
        BY <1>2, <2>2, <2>3, NoticeLimits DEF Page!Notice
    <2>5. notices'[id].state = "closed" <=> notices'[id].resolved # Page!Never
        BY <2>2, <2>3, NoticeLimits DEF NoticesInv, Noticed
    <2>6. notices'[id].resolved = NoticeRetention + 1 => id \in outdated'
        BY <1>1, <2>2, <2>3, NoticeLimits DEF NoticesInv, Noticed
    <2>7. QED
        BY <1>1, <2>3, <2>4, <2>5, <2>6 DEF NoticesInv, Noticed, Page!Never
<1>4. outdated' \subseteq 1 .. nextNoticeID /\ outdated \subseteq outdated'
    BY <1>1 DEF NoticesInv
<1>5. edits' \in [Editor -> [id : 1 .. nextNoticeID, copy : Page!Notice] \cup {Page!NoEdit}]
    BY <1>1 DEF NoticesInv
<1>6. QED
    BY <1>1, <1>2, <1>3, <1>4, <1>5, NoneComes DEF NoticesInv

LEMMA NoticesStep == NoticesInv /\ [Page!Next]_(Page!vars) => NoticesInv'
<1> SUFFICES ASSUME NoticesInv, [Page!Next]_(Page!vars) PROVE NoticesInv'
    OBVIOUS
<1>1. CASE UNCHANGED Page!vars
    BY <1>1 DEF Page!vars, NoticesInv, Noticed
<1>2. QED
    BY <1>1, NoticeCreated, NoticeUpdated, EditBegun, EditEnded, NoticeRemoved, NoticesAge DEF Page!Next

LEMMA TimelineThen == NoticesInv => Page!TimelineKept
BY DEF NoticesInv, Noticed, Page!TimelineKept

LEMMA StayThen == NoticesInv => Page!NoticesStay
BY DEF NoticesInv, Page!NoticesStay

LEMMA NoticesTyped == NoticesInv => Page!TypeOK
BY SameCount DEF NoticesInv, Noticed, Page!TypeOK

-----------------------------------------------------------------------------
(* The observations.  What memory must hold a change of it keeps, and what *)
(* a restart must find is in the journal; both are searched by order.      *)

LEMMA HistoryParameters == Observed!HistoryAssumption
BY Assumptions

LEMMA SameCountObserved == \A S : Observed!Cardinality(S) = Cardinality(S)
BY DEF Observed!Cardinality, Cardinality

\* In the order of receipt.
Sorted(items) == \A i, j \in 1 .. Len(items) : i <= j => items[i].at <= items[j].at

\* What a restart needs to find of an observation.
InTheJournal(rows, o) ==
    \/ o \in Observed!Range(rows)
    \/ Observed!Expired(o)
    \/ Cardinality({i \in DOMAIN rows : rows[i] # Observed!Garbage /\ rows[i].at >= o.at}) >= MaxPerCheck

HistoryInv ==
    /\ historyClock \in 0 .. MaxHistoryTime /\ received \in 0 .. MaxObs /\ historyFaults \in 0 .. HistoryFaults
    /\ waiting \subseteq Observed!Observation /\ noted \subseteq Observed!Observation /\
          sure \subseteq Observed!Observation
    /\ memory \in Seq(Observed!Observation) /\ Sorted(memory) /\ Len(memory) <= MaxPerCheck
    /\ lines \in Seq(Observed!Observation \cup {Observed!Garbage})
    /\ tornLine => lines # <<>> /\ Observed!Last(lines) = Observed!Garbage
    /\ compacting => appends >= CompactEvery
    /\ \A o \in noted \cup sure : Observed!Holds(memory, o)
    /\ \A o \in sure : InTheJournal(lines, o)

LEMMA HistoryLimits ==
    MaxPerCheck \in Nat \ {0} /\ HistoryRetention \in Nat /\ MaxHistoryTime \in Nat /\ MaxObs \in Nat /\
       HistoryFaults \in Nat
BY HistoryParameters DEF Observed!HistoryAssumption

LEMMA ObservedAt ==
    ASSUME NEW o \in Observed!Observation
    PROVE  o.at \in Nat /\ o # Observed!Garbage
BY HistoryLimits DEF Observed!Observation, Observed!Garbage

-----------------------------------------------------------------------------
(* Places in a sequence.                                                   *)

\* What begins a sequence is as long as it has elements.
LEMMA Beginning ==
    ASSUME NEW n \in Nat, NEW D \in SUBSET (1 .. n), \A i \in D : 1 .. i \subseteq D
    PROVE  Cardinality(D) \in 0 .. n /\ D = 1 .. Cardinality(D)
<1>1. IsFiniteSet(1 .. n) /\ Cardinality(1 .. n) = n
    BY FS_Interval
<1>2. IsFiniteSet(D) /\ Cardinality(D) \in Nat /\ Cardinality(D) <= n
    BY <1>1, FS_Subset, FS_CardinalityType
<1>3. D \subseteq 1 .. Cardinality(D)
    <2>1. SUFFICES ASSUME NEW i \in D PROVE i <= Cardinality(D)
        BY <1>2
    <2>2. Cardinality(1 .. i) = i /\ 1 .. i \in SUBSET D
        BY FS_Interval
    <2>3. QED
        BY <1>2, <2>2, FS_Subset
<1>4. IsFiniteSet(1 .. Cardinality(D)) /\ Cardinality(1 .. Cardinality(D)) = Cardinality(D)
    BY <1>2, FS_Interval
<1>5. D \in SUBSET (1 .. Cardinality(D)) /\ Cardinality(D) \in 0 .. n
    BY <1>2, <1>3
<1>6. D = 1 .. Cardinality(D)
    BY <1>4, <1>5, FS_Subset
<1>7. QED
    BY <1>5, <1>6

\* Every line of a set has a place of its own in their order, and no place is free.
LEMMA Placed ==
    ASSUME NEW rows, NEW S \in SUBSET Nat, IsFiniteSet(S), \A i \in S : rows[i].at \in Int
    PROVE  /\ Cardinality(S) \in Nat
           /\ \A i \in S : Observed!Place(rows, S, i) \in 1 .. Cardinality(S)
           /\ \A i, j \in S : Observed!Before(rows, i, j) =>
                 Observed!Place(rows, S, i) < Observed!Place(rows, S, j)
           /\ \A k \in 1 .. Cardinality(S) : \E i \in S : Observed!Place(rows, S, i) = k
<1> DEFINE n == Cardinality(S)
           P(i) == {j \in S : Observed!Before(rows, j, i)}
<1>1. n \in Nat /\ \A T \in SUBSET S : IsFiniteSet(T) /\ Cardinality(T) \in Nat /\ Cardinality(T) <= n
    BY FS_Subset, FS_CardinalityType
<1>2. \A i \in S : P(i) \subseteq S \ {i}
    BY DEF Observed!Before
<1>3. \A i \in S : Cardinality(P(i)) \in 0 .. n - 1
    <2>1. SUFFICES ASSUME NEW i \in S PROVE Cardinality(P(i)) \in 0 .. n - 1
        OBVIOUS
    <2>2. IsFiniteSet(S \ {i}) /\ Cardinality(S \ {i}) = n - 1
        BY FS_RemoveElement
    <2>3. P(i) \in SUBSET (S \ {i}) /\ P(i) \in SUBSET S
        BY <1>2
    <2>4. Cardinality(P(i)) <= n - 1
        BY <2>2, <2>3, FS_Subset
    <2>5. QED
        BY <1>1, <2>3, <2>4
<1>4. \A i, j \in S : Observed!Before(rows, i, j) => Cardinality(P(i)) < Cardinality(P(j))
    <2>1. SUFFICES ASSUME NEW i \in S, NEW j \in S, Observed!Before(rows, i, j)
                   PROVE  Cardinality(P(i)) < Cardinality(P(j))
        OBVIOUS
    <2>2. \A k \in S : Observed!Before(rows, k, i) => Observed!Before(rows, k, j)
        <3>1. SUFFICES ASSUME NEW k \in S, Observed!Before(rows, k, i) PROVE Observed!Before(rows, k, j)
            OBVIOUS
        <3>2. rows[k].at \in Int /\ rows[i].at \in Int /\ rows[j].at \in Int
            OBVIOUS
        <3>3. k \in Nat /\ i \in Nat /\ j \in Nat
            OBVIOUS
        <3>4. QED
            BY <2>1, <3>1, <3>2, <3>3 DEF Observed!Before
    <2>3. P(i) \cup {i} \in SUBSET P(j) /\ i \notin P(i) /\ P(i) \in SUBSET S /\ P(j) \in SUBSET S
        BY <1>2, <2>1, <2>2
    <2>4. IsFiniteSet(P(i)) /\ IsFiniteSet(P(j)) /\ Cardinality(P(i)) \in Nat /\ Cardinality(P(j)) \in Nat
        BY <1>1, <2>3
    <2>5. Cardinality(P(i) \cup {i}) = Cardinality(P(i)) + 1
        BY <2>3, <2>4, FS_AddElement
    <2>6. Cardinality(P(i) \cup {i}) <= Cardinality(P(j))
        BY <2>3, <2>4, FS_Subset
    <2>7. QED
        BY <2>4, <2>5, <2>6
<1>5. \A i \in S : Observed!Place(rows, S, i) = 1 + Cardinality(P(i))
    BY SameCountObserved DEF Observed!Place
<1> HIDE DEF P
<1>6. /\ \A i \in S : Observed!Place(rows, S, i) \in 1 .. n
      /\ \A i, j \in S : Observed!Before(rows, i, j) => Observed!Place(rows, S, i) < Observed!Place(rows, S, j)
    BY <1>1, <1>3, <1>4, <1>5
<1>7. \A k \in 1 .. n : \E i \in S : Observed!Place(rows, S, i) = k
    <2> DEFINE f == [i \in S |-> Observed!Place(rows, S, i)]
    <2>1. \A i, j \in S : i # j => Observed!Before(rows, i, j) \/ Observed!Before(rows, j, i)
        BY DEF Observed!Before
    <2>2. \A i, j \in S : f[i] = f[j] => i = j
        BY <1>1, <1>6, <2>1
    <2>3. f \in Injection(S, 1 .. n)
        BY <1>6, <2>2 DEF Injection, IsInjective
    <2>4. IsFiniteSet(1 .. n) /\ Cardinality(1 .. n) = n
        BY <1>1, FS_Interval
    <2>5. f \in Surjection(S, 1 .. n)
        BY <2>3, <2>4, FS_Injection
    <2>6. QED
        BY <2>5 DEF Surjection
<1>8. QED
    BY <1>1, <1>6, <1>7

\* The lines of a set in their order.
LEMMA Ordered ==
    ASSUME NEW rows, NEW S \in SUBSET Nat, IsFiniteSet(S),
           \A i \in S : rows[i] \in Observed!Observation
    PROVE  /\ Observed!InOrder(rows, S) \in Seq(Observed!Observation)
           /\ Len(Observed!InOrder(rows, S)) = Cardinality(S) /\ Cardinality(S) \in Nat
           /\ Sorted(Observed!InOrder(rows, S))
           /\ \A i \in S : /\ Observed!Place(rows, S, i) \in 1 .. Cardinality(S)
                            /\ Observed!InOrder(rows, S)[Observed!Place(rows, S, i)] = rows[i]
           /\ \A i, j \in S : Observed!Before(rows, i, j) =>
                 Observed!Place(rows, S, i) < Observed!Place(rows, S, j)
<1> DEFINE n == Cardinality(S)
           at(k) == CHOOSE i \in S : Observed!Place(rows, S, i) = k
           all == Observed!InOrder(rows, S)
<1>1. \A i \in S : rows[i].at \in Int
    <2>1. SUFFICES ASSUME NEW i \in S PROVE rows[i].at \in Int
        OBVIOUS
    <2>2. rows[i].at \in Nat
        BY ObservedAt
    <2>3. QED
        BY <2>2
<1>2. /\ n \in Nat
      /\ \A i \in S : Observed!Place(rows, S, i) \in 1 .. n
      /\ \A i, j \in S : Observed!Before(rows, i, j) => Observed!Place(rows, S, i) < Observed!Place(rows, S, j)
      /\ \A k \in 1 .. n : \E i \in S : Observed!Place(rows, S, i) = k
    BY <1>1, Placed
<1>3. \A k \in 1 .. n : at(k) \in S /\ Observed!Place(rows, S, at(k)) = k
    BY <1>2
<1>4. all = [k \in 1 .. n |-> rows[at(k)]]
    BY SameCountObserved DEF Observed!InOrder
<1> HIDE DEF at, all
<1>5. \A i, j \in S : i # j => Observed!Before(rows, i, j) \/ Observed!Before(rows, j, i)
    BY <1>1 DEF Observed!Before
<1>6. \A i \in S : at(Observed!Place(rows, S, i)) = i
    <2>1. SUFFICES ASSUME NEW i \in S, NEW j \in S, j = at(Observed!Place(rows, S, i)), i # j PROVE FALSE
        BY <1>2, <1>3
    <2>2. Observed!Place(rows, S, j) = Observed!Place(rows, S, i)
        BY <1>2, <1>3, <2>1
    <2>3. QED
        BY <1>2, <1>5, <2>1, <2>2
<1>7. all \in Seq(Observed!Observation) /\ Len(all) = n
    <2>1. \A k \in 1 .. n : rows[at(k)] \in Observed!Observation
        BY <1>3
    <2>2. QED
        BY <1>2, <1>4, <2>1
<1>8. Sorted(all)
    <2>1. SUFFICES ASSUME NEW i \in 1 .. n, NEW j \in 1 .. n, i <= j PROVE all[i].at <= all[j].at
        BY <1>7 DEF Sorted
    <2>2. all[i] = rows[at(i)] /\ all[j] = rows[at(j)] /\ at(i) \in S /\ at(j) \in S
        BY <1>3, <1>4
    <2>3. ~Observed!Before(rows, at(j), at(i))
        <3>1. Observed!Place(rows, S, at(i)) = i /\ Observed!Place(rows, S, at(j)) = j
            BY <1>3
        <3>2. ~(Observed!Place(rows, S, at(j)) < Observed!Place(rows, S, at(i)))
            BY <1>2, <2>1, <3>1
        <3>3. QED
            BY <1>2, <2>2, <3>2
    <2>4. at(i) = at(j) \/ Observed!Before(rows, at(i), at(j))
        BY <1>5, <2>2, <2>3
    <2>5. rows[at(i)].at \in Int /\ rows[at(j)].at \in Int
        BY <1>1, <2>2
    <2>6. QED
        BY <2>2, <2>4, <2>5 DEF Observed!Before
<1>9. \A i \in S : all[Observed!Place(rows, S, i)] = rows[i]
    BY <1>2, <1>4, <1>6
<1>10. QED
    BY <1>2, <1>7, <1>8, <1>9 DEF all
-----------------------------------------------------------------------------
(* What a change leaves in memory.                                         *)

\* No more than there is room for, the last of them.
LEMMA LastKept ==
    ASSUME NEW items \in Seq(Observed!Observation), Sorted(items)
    PROVE  /\ Observed!Newest(items) \in Seq(Observed!Observation) /\ Sorted(Observed!Newest(items))
           /\ Len(Observed!Newest(items)) = IF Len(items) > MaxPerCheck THEN MaxPerCheck ELSE Len(items)
           /\ \A i \in 1 .. Len(Observed!Newest(items)) :
                 Observed!Newest(items)[i] = items[i + (Len(items) - Len(Observed!Newest(items)))]
<1> DEFINE n == Len(items)
           d == IF n > MaxPerCheck THEN n - MaxPerCheck ELSE 0
           last == Observed!Newest(items)
<1>1. n \in Nat /\ d \in 0 .. n /\ n - d = IF n > MaxPerCheck THEN MaxPerCheck ELSE n
    BY HistoryLimits
<1>2. last = SubSeq(items, 1 + d, n)
    BY DEF Observed!Newest
<1> HIDE DEF last, d
<1>3. last \in Seq(Observed!Observation) /\ Len(last) = n - d /\ \A i \in 1 .. n - d : last[i] = items[i + d]
    BY <1>1, <1>2
<1>4. Sorted(last)
    <2>1. SUFFICES ASSUME NEW i \in 1 .. n - d, NEW j \in 1 .. n - d, i <= j
                   PROVE  last[i].at <= last[j].at
        BY <1>3 DEF Sorted
    <2>2. i + d \in 1 .. n /\ j + d \in 1 .. n /\ i + d <= j + d
        BY <1>1, <2>1
    <2>3. QED
        BY <1>3, <2>2 DEF Sorted
<1>5. QED
    BY <1>1, <1>3, <1>4 DEF last

\* An observation is in memory, or need not be.
LEMMA NewestHold ==
    ASSUME NEW items \in Seq(Observed!Observation), Sorted(items), NEW o \in Observed!Range(items)
    PROVE  Observed!Holds(Observed!Newest(items), o)
<1> DEFINE n == Len(items)
           last == Observed!Newest(items)
           m == Len(last)
<1>1. PICK i \in 1 .. n : items[i] = o
    BY DEF Observed!Range
<1>2. /\ last \in Seq(Observed!Observation) /\ m = IF n > MaxPerCheck THEN MaxPerCheck ELSE n
      /\ \A k \in 1 .. m : last[k] = items[k + (n - m)]
    BY LastKept
<1>3. n \in Nat /\ m \in Nat /\ m <= n
    BY <1>2, HistoryLimits
<1> HIDE DEF last
<1>4. CASE i > n - m
    <2>1. PICK k \in 1 .. m : k + (n - m) = i
        <3> HIDE DEF n, m
        <3>1. i - (n - m) \in 1 .. m /\ (i - (n - m)) + (n - m) = i
            BY <1>3, <1>4
        <3>2. QED
            BY <3>1
    <2>2. DOMAIN last = 1 .. m /\ last[k] = o
        BY <1>1, <1>2, <2>1
    <2>3. o \in Observed!Range(last)
        BY <2>2 DEF Observed!Range
    <2>4. QED
        BY <2>3 DEF Observed!Holds, last
<1>5. CASE i <= n - m
    <2>1. m = MaxPerCheck
        BY <1>1, <1>2, <1>3, <1>5, HistoryLimits
    <2>2. \A k \in 1 .. m : last[k].at >= o.at
        <3>1. SUFFICES ASSUME NEW k \in 1 .. m PROVE last[k].at >= o.at
            OBVIOUS
        <3>2. k + (n - m) \in 1 .. n /\ i <= k + (n - m) /\ last[k] = items[k + (n - m)]
            BY <1>2, <1>3, <1>5
        <3>3. items[i].at <= items[k + (n - m)].at
            BY <3>2 DEF Sorted
        <3>4. items[i].at \in Nat /\ items[k + (n - m)].at \in Nat
            BY <3>2, ObservedAt
        <3>5. QED
            BY <1>1, <3>2, <3>3, <3>4
    <2>3. \A r \in Observed!Range(last) : r.at >= o.at
        <3>1. DOMAIN last = 1 .. m
            BY <1>2
        <3>2. QED
            BY <2>2, <3>1 DEF Observed!Range
    <2>4. QED
        BY <2>1, <2>3 DEF Observed!Holds, last
<1>6. QED
    BY <1>1, <1>3, <1>4, <1>5

\* The first that is not too old, and those behind it.
LEMMA FreshLeft ==
    ASSUME NEW items \in Seq(Observed!Observation), Sorted(items), historyClock \in Nat
    PROVE  /\ Observed!Fresh(items) \in Seq(Observed!Observation) /\ Sorted(Observed!Fresh(items))
           /\ \A i \in 1 .. Len(items) :
                 Observed!Expired(items[i]) \/ items[i] \in Observed!Range(Observed!Fresh(items))
           /\ \/ Len(Observed!Fresh(items)) = Len(items)
              \/ Observed!Expired(items[Len(items) - Len(Observed!Fresh(items))])
           /\ Len(Observed!Fresh(items)) <= Len(items)
           /\ \A i \in 1 .. Len(Observed!Fresh(items)) :
                 Observed!Fresh(items)[i] = items[i + (Len(items) - Len(Observed!Fresh(items)))]
<1> DEFINE n == Len(items)
           D == {i \in 1 .. n : Observed!Expired(items[i])}
           d == Cardinality(D)
           fresh == Observed!Fresh(items)
<1>1. n \in Nat /\ \A i \in 1 .. n : items[i].at \in Nat
    <2>1. \A i \in 1 .. n : items[i] \in Observed!Observation
        OBVIOUS
    <2>2. QED
        BY <2>1, ObservedAt
<1>2. \A i \in D : 1 .. i \subseteq D
    <2>1. SUFFICES ASSUME NEW i \in D, NEW j \in 1 .. i PROVE Observed!Expired(items[j]) /\ j \in 1 .. n
        OBVIOUS
    <2>2. i \in 1 .. n /\ j \in 1 .. n /\ j <= i
        BY <1>1
    <2>3. items[j].at <= items[i].at /\ items[j].at \in Nat /\ items[i].at \in Nat
        BY <1>1, <2>2 DEF Sorted
    <2>4. QED
        BY <2>1, <2>2, <2>3, HistoryLimits DEF Observed!Expired
<1>3. D \in SUBSET (1 .. n)
    OBVIOUS
<1>4. d \in 0 .. n /\ D = 1 .. d
    BY <1>1, <1>2, <1>3, Beginning
<1>5. \A i \in 1 .. n : Observed!Expired(items[i]) <=> i \in 1 .. d
    BY <1>4
<1>6. fresh = SubSeq(items, 1 + d, n)
    BY SameCountObserved DEF Observed!Fresh
<1> HIDE DEF fresh, D, d
<1>7. fresh \in Seq(Observed!Observation) /\ Len(fresh) = n - d /\ \A i \in 1 .. n - d : fresh[i] = items[i + d]
    BY <1>1, <1>4, <1>6
<1>8. Sorted(fresh)
    <2>1. SUFFICES ASSUME NEW i \in 1 .. n - d, NEW j \in 1 .. n - d, i <= j
                   PROVE  fresh[i].at <= fresh[j].at
        BY <1>1, <1>4, <1>7 DEF Sorted
    <2>2. i + d \in 1 .. n /\ j + d \in 1 .. n /\ i + d <= j + d
        BY <1>1, <1>4, <2>1
    <2>3. QED
        BY <1>1, <1>7, <2>2 DEF Sorted
<1>9. \A i \in 1 .. n : Observed!Expired(items[i]) \/ items[i] \in Observed!Range(fresh)
    <2>1. SUFFICES ASSUME NEW i \in 1 .. n, ~Observed!Expired(items[i]) PROVE items[i] \in Observed!Range(fresh)
        OBVIOUS
    <2>2. i - d \in 1 .. n - d /\ (i - d) + d = i
        BY <1>1, <1>4, <1>5, <2>1
    <2>3. DOMAIN fresh = 1 .. n - d /\ fresh[i - d] = items[i]
        BY <1>7, <2>2
    <2>4. QED
        BY <2>2, <2>3 DEF Observed!Range
<1>10. Len(fresh) = n \/ Observed!Expired(items[n - Len(fresh)])
    BY <1>1, <1>4, <1>5, <1>7
<1>11. Len(fresh) <= n /\ \A i \in 1 .. Len(fresh) : fresh[i] = items[i + (n - Len(fresh))]
    <2>1. Len(fresh) = n - d /\ n - Len(fresh) = d
        BY <1>1, <1>4, <1>7
    <2>2. QED
        BY <1>1, <1>4, <1>7, <2>1
<1>12. QED
    BY <1>7, <1>8, <1>9, <1>10, <1>11 DEF fresh

\* One sequence behind another.
LEMMA Joined ==
    ASSUME NEW s \in Seq(Observed!Observation), NEW t \in Seq(Observed!Observation), NEW all, all = s \o t
    PROVE  /\ all \in Seq(Observed!Observation) /\ Len(all) = Len(s) + Len(t)
           /\ Len(s) \in Nat /\ Len(t) \in Nat
           /\ \A i \in 1 .. Len(s) : all[i] = s[i]
           /\ \A i \in 1 .. Len(t) : all[Len(s) + i] = t[i]
<1>1. /\ all \in Seq(Observed!Observation) /\ Len(all) = Len(s) + Len(t)
      /\ \A i \in 1 .. Len(s) + Len(t) : all[i] = IF i <= Len(s) THEN s[i] ELSE t[i - Len(s)]
    BY ConcatProperties
<1>2. Len(s) \in Nat /\ Len(t) \in Nat
    OBVIOUS
<1>3. \A i \in 1 .. Len(s) : i \in 1 .. Len(s) + Len(t) /\ i <= Len(s)
    BY <1>2
<1>4. \A i \in 1 .. Len(t) : /\ Len(s) + i \in 1 .. Len(s) + Len(t) /\ ~(Len(s) + i <= Len(s))
                              /\ (Len(s) + i) - Len(s) = i
    BY <1>2
<1>5. \A i \in 1 .. Len(s) : all[i] = s[i]
    BY <1>1, <1>3
<1>6. \A i \in 1 .. Len(t) : all[Len(s) + i] = t[i]
    BY <1>1, <1>4
<1>7. QED
    BY <1>1, <1>2, <1>5, <1>6

\* An observation comes to its place.
LEMMA InsertedThere ==
    ASSUME NEW items \in Seq(Observed!Observation), Sorted(items), NEW o \in Observed!Observation
    PROVE  /\ Observed!Inserted(items, o) \in Seq(Observed!Observation) /\ Sorted(Observed!Inserted(items, o))
           /\ Len(Observed!Inserted(items, o)) = Len(items) + 1
           /\ \E p \in 1 .. Len(items) + 1 :
                 /\ Observed!Inserted(items, o)[p] = o
                 /\ \A i \in 1 .. Len(items) :
                       Observed!Inserted(items, o)[IF i < p THEN i ELSE i + 1] = items[i]
<1> DEFINE n == Len(items)
           D == {i \in 1 .. n : items[i].at <= o.at}
           d == Cardinality(D)
           all == Observed!Inserted(items, o)
<1>1. n \in Nat /\ o.at \in Nat /\ \A i \in 1 .. n : items[i] \in Observed!Observation /\ items[i].at \in Nat
    <2>1. \A i \in 1 .. n : items[i] \in Observed!Observation
        OBVIOUS
    <2>2. QED
        BY <2>1, ObservedAt
<1>2. \A i \in D : 1 .. i \subseteq D
    <2>1. SUFFICES ASSUME NEW i \in D, NEW j \in 1 .. i PROVE items[j].at <= o.at /\ j \in 1 .. n
        OBVIOUS
    <2>2. i \in 1 .. n /\ j \in 1 .. n /\ j <= i /\ items[i].at <= o.at
        BY <1>1
    <2>3. items[j].at <= items[i].at /\ items[j].at \in Nat /\ items[i].at \in Nat
        BY <1>1, <2>2 DEF Sorted
    <2>4. QED
        BY <1>1, <2>2, <2>3
<1>3. D \in SUBSET (1 .. n)
    OBVIOUS
<1>4. d \in 0 .. n /\ D = 1 .. d
    BY <1>1, <1>2, <1>3, Beginning
<1>5. \A i \in 1 .. n : (items[i].at <= o.at) <=> i \in 1 .. d
    BY <1>4
<1>6. all = SubSeq(items, 1, d) \o <<o>> \o SubSeq(items, d + 1, n)
    <2>1. all = SubSeq(items, 1, (1 + d) - 1) \o <<o>> \o SubSeq(items, 1 + d, n)
        BY SameCountObserved DEF Observed!Inserted, Observed!InsertAt
    <2>2. (1 + d) - 1 = d /\ 1 + d = d + 1
        BY <1>4
    <2>3. QED
        BY <2>1, <2>2
<1> HIDE DEF all, D, d
<1>7. /\ SubSeq(items, 1, d) \in Seq(Observed!Observation) /\ Len(SubSeq(items, 1, d)) = d
      /\ \A i \in 1 .. d : SubSeq(items, 1, d)[i] = items[i]
      /\ SubSeq(items, d + 1, n) \in Seq(Observed!Observation) /\ Len(SubSeq(items, d + 1, n)) = n - d
      /\ \A i \in 1 .. n - d : SubSeq(items, d + 1, n)[i] = items[i + d]
    BY <1>1, <1>4
<1>8. /\ all \in Seq(Observed!Observation) /\ Len(all) = n + 1
      /\ \A i \in 1 .. d : all[i] = items[i]
      /\ all[d + 1] = o
      /\ \A i \in d + 1 .. n : all[i + 1] = items[i]
    <2>1. PICK before, behind :
              before = SubSeq(items, 1, d) /\ behind = SubSeq(items, d + 1, n)
        OBVIOUS
    <2>2. /\ before \in Seq(Observed!Observation) /\ Len(before) = d /\ \A i \in 1 .. d : before[i] = items[i]
          /\ behind \in Seq(Observed!Observation) /\ Len(behind) = n - d
          /\ \A i \in 1 .. n - d : behind[i] = items[i + d]
        BY <1>7, <2>1
    <2>3. PICK upto : upto = before \o <<o>>
        OBVIOUS
    <2>4. /\ upto \in Seq(Observed!Observation) /\ Len(upto) = d + 1 /\ upto[d + 1] = o
          /\ \A i \in 1 .. d : upto[i] = items[i]
        <3>1. <<o>> \in Seq(Observed!Observation) /\ Len(<<o>>) = 1 /\ <<o>>[1] = o /\ 1 \in 1 .. 1
            OBVIOUS
        <3>2. /\ upto \in Seq(Observed!Observation) /\ Len(upto) = d + 1
              /\ \A i \in 1 .. d : upto[i] = before[i]
              /\ \A i \in 1 .. 1 : upto[d + i] = <<o>>[i]
            BY <2>2, <2>3, <3>1, Joined
        <3>3. QED
            BY <2>2, <3>1, <3>2
    <2>5. all = upto \o behind
        BY <1>6, <2>1, <2>3
    <2>6. /\ all \in Seq(Observed!Observation) /\ Len(all) = (d + 1) + (n - d)
          /\ \A i \in 1 .. d + 1 : all[i] = upto[i]
          /\ \A i \in 1 .. n - d : all[(d + 1) + i] = behind[i]
        <3>1. Len(upto) + Len(behind) = (d + 1) + (n - d) /\ Len(upto) = d + 1 /\ Len(behind) = n - d
            BY <2>2, <2>4
        <3>2. /\ all \in Seq(Observed!Observation) /\ Len(all) = Len(upto) + Len(behind)
              /\ \A i \in 1 .. Len(upto) : all[i] = upto[i]
              /\ \A i \in 1 .. Len(behind) : all[Len(upto) + i] = behind[i]
            <4>1. upto \in Seq(Observed!Observation) /\ behind \in Seq(Observed!Observation) /\ all = upto \o
                     behind
                BY <2>2, <2>4, <2>5
            <4>2. QED
                BY <4>1, Joined
        <3>3. QED
            BY <3>1, <3>2
    <2>7. \A i \in d + 1 .. n : all[i + 1] = items[i]
        <3>1. SUFFICES ASSUME NEW i \in d + 1 .. n PROVE all[i + 1] = items[i]
            OBVIOUS
        <3>2. i - d \in 1 .. n - d /\ (d + 1) + (i - d) = i + 1 /\ (i - d) + d = i
            BY <1>1, <1>4
        <3>3. all[(d + 1) + (i - d)] = behind[i - d] /\ behind[i - d] = items[(i - d) + d]
            BY <2>2, <2>6, <3>2
        <3>4. QED
            BY <3>2, <3>3
    <2>8. (d + 1) + (n - d) = n + 1 /\ d + 1 \in 1 .. d + 1 /\ 1 .. d \subseteq 1 .. d + 1
        BY <1>1, <1>4
    <2>9. QED
        BY <2>4, <2>6, <2>7, <2>8
<1>9. \A i \in 1 .. n : all[IF i < d + 1 THEN i ELSE i + 1] = items[i]
    <2>1. \A i \in 1 .. n : IF i < d + 1 THEN i \in 1 .. d ELSE i \in d + 1 .. n
        BY <1>1, <1>4
    <2>2. QED
        BY <1>8, <2>1
<1>10. Sorted(all)
    <2>1. SUFFICES ASSUME NEW i \in 1 .. n + 1, NEW j \in 1 .. n + 1, i <= j PROVE all[i].at <= all[j].at
        BY <1>8 DEF Sorted
    <2>2. \A k, l \in 1 .. n : k <= l => items[k].at <= items[l].at
        BY DEF Sorted
    <2>3. \A k \in 1 .. n + 1 :
             \/ k \in 1 .. d /\ k \in 1 .. n
             \/ k = d + 1
             \/ k - 1 \in d + 1 .. n /\ k - 1 \in 1 .. n /\ (k - 1) + 1 = k
        <3>1. d \in Nat /\ d <= n
            BY <1>1, <1>4
        <3> HIDE DEF n
        <3>2. QED
            BY <1>1, <3>1
    <2>4. CASE i \in 1 .. d /\ i \in 1 .. n
        <3>1. all[i] = items[i] /\ items[i].at <= o.at
            BY <1>5, <1>8, <2>4
        <3>2. CASE j \in 1 .. d /\ j \in 1 .. n
            BY <1>8, <2>1, <2>2, <2>4, <3>1, <3>2
        <3>3. CASE j = d + 1
            BY <1>8, <3>1, <3>3
        <3>4. CASE j - 1 \in d + 1 .. n /\ j - 1 \in 1 .. n /\ (j - 1) + 1 = j
            <4>1. all[j] = items[j - 1] /\ i <= j - 1
                BY <1>4, <1>8, <2>4, <3>4
            <4>2. QED
                BY <2>2, <2>4, <3>1, <3>4, <4>1
        <3>5. QED
            BY <2>3, <3>2, <3>3, <3>4
    <2>5. CASE i = d + 1
        <3>1. CASE j = d + 1
            BY <1>1, <1>8, <2>5, <3>1
        <3>2. CASE j - 1 \in d + 1 .. n /\ j - 1 \in 1 .. n /\ (j - 1) + 1 = j
            <4>1. all[j] = items[j - 1] /\ j - 1 \notin 1 .. d
                BY <1>4, <1>8, <3>2
            <4>2. ~(items[j - 1].at <= o.at) /\ items[j - 1].at \in Nat
                BY <1>1, <1>5, <3>2, <4>1
            <4>3. QED
                BY <1>1, <1>8, <2>5, <4>1, <4>2
        <3>3. j \notin 1 .. d
            BY <1>4, <2>1, <2>5
        <3>4. QED
            BY <2>3, <3>1, <3>2, <3>3
    <2>6. CASE i - 1 \in d + 1 .. n /\ i - 1 \in 1 .. n /\ (i - 1) + 1 = i
        <3>1. j - 1 \in d + 1 .. n /\ j - 1 \in 1 .. n /\ (j - 1) + 1 = j /\ i - 1 <= j - 1
            BY <1>1, <1>4, <2>1, <2>6
        <3>2. all[i] = items[i - 1] /\ all[j] = items[j - 1]
            BY <1>8, <2>6, <3>1
        <3>3. QED
            BY <2>2, <2>6, <3>1, <3>2
    <2>7. QED
        BY <2>3, <2>4, <2>5, <2>6
<1>11. d + 1 \in 1 .. n + 1
    BY <1>1, <1>4
<1>12. QED
    BY <1>8, <1>9, <1>10, <1>11 DEF all

\* appendHistoryLocked: what was in memory, or need not be, stays so, and the
\* observation that comes is there, or need not be.
LEMMA MemoryHolds ==
    ASSUME NEW items \in Seq(Observed!Observation), Sorted(items), NEW o \in Observed!Observation,
           historyClock \in Nat
    PROVE  LET left == Observed!Newest(Observed!Fresh(Observed!Inserted(items, o)))
           IN  /\ left \in Seq(Observed!Observation) /\ Sorted(left) /\ Len(left) <= MaxPerCheck
               /\ Observed!Holds(left, o)
               /\ \A old \in Observed!Observation : Observed!Holds(items, old) => Observed!Holds(left, old)
<1> DEFINE all == Observed!Inserted(items, o)
           fresh == Observed!Fresh(all)
           left == Observed!Newest(fresh)
           n == Len(items)
<1>1. /\ all \in Seq(Observed!Observation) /\ Sorted(all) /\ Len(all) = n + 1 /\ n \in Nat
    BY InsertedThere
<1>2. PICK p \in 1 .. n + 1 :
          all[p] = o /\ \A i \in 1 .. n : all[IF i < p THEN i ELSE i + 1] = items[i]
    BY InsertedThere
<1> HIDE DEF all
<1>3. /\ fresh \in Seq(Observed!Observation) /\ Sorted(fresh)
      /\ \A i \in 1 .. n + 1 : Observed!Expired(all[i]) \/ all[i] \in Observed!Range(fresh)
      /\ Len(fresh) = n + 1 \/ Observed!Expired(all[(n + 1) - Len(fresh)])
      /\ Len(fresh) <= n + 1
      /\ \A i \in 1 .. Len(fresh) : fresh[i] = all[i + ((n + 1) - Len(fresh))]
    BY <1>1, FreshLeft
<1> HIDE DEF fresh
<1>4. /\ left \in Seq(Observed!Observation) /\ Sorted(left)
      /\ Len(left) = IF Len(fresh) > MaxPerCheck THEN MaxPerCheck ELSE Len(fresh)
      /\ \A i \in 1 .. Len(left) : left[i] = fresh[i + (Len(fresh) - Len(left))]
    BY <1>3, LastKept
<1>5. Len(left) <= MaxPerCheck
    BY <1>3, <1>4, HistoryLimits
<1>6. \A i \in 1 .. n + 1 : Observed!Holds(left, all[i])
    BY <1>3, NewestHold DEF Observed!Holds
<1>7. Observed!Holds(left, o)
    BY <1>2, <1>6
<1> HIDE DEF left
<1>8. ASSUME NEW old \in Observed!Observation, Observed!Holds(items, old) PROVE Observed!Holds(left, old)
    <2>1. CASE old \in Observed!Range(items)
        <3>1. PICK i \in 1 .. n : items[i] = old
            BY <2>1 DEF Observed!Range
        <3>2. PICK j \in 1 .. n + 1 : all[j] = old
            BY <1>1, <1>2, <3>1
        <3>3. QED
            BY <1>6, <3>2
    <2>2. CASE Observed!Expired(old)
        BY <2>2 DEF Observed!Holds
    <2>3. CASE /\ Len(items) = MaxPerCheck /\ \A i \in Observed!Range(items) : i.at >= old.at
               /\ ~Observed!Expired(old)
        <3>1. old.at \in Nat /\ \A i \in 1 .. n + 1 : all[i].at \in Nat
            <4>1. \A i \in 1 .. n + 1 : all[i] \in Observed!Observation
                BY <1>1
            <4>2. QED
                BY <4>1, ObservedAt
        <3>2. \A i \in 1 .. n : items[i].at >= old.at
            BY <2>3 DEF Observed!Range
        <3>3. \A i \in 2 .. n + 1 : all[i].at >= old.at
            <4>1. SUFFICES ASSUME NEW i \in 2 .. n + 1 PROVE all[i].at >= old.at
                OBVIOUS
            <4>2. CASE i < p
                BY <1>1, <1>2, <3>2, <4>1, <4>2
            <4>3. CASE i > p
                <5>1. i - 1 \in 1 .. n /\ ~(i - 1 < p) /\ (i - 1) + 1 = i
                    BY <1>1, <1>2, <4>1, <4>3
                <5>2. all[i] = items[i - 1]
                    BY <1>2, <5>1
                <5>3. QED
                    BY <3>2, <5>1, <5>2
            <4>4. CASE i = p
                <5>1. 1 < p /\ 1 \in 1 .. n
                    BY <1>1, <1>2, <4>1, <4>4
                <5>2. all[1] = items[1]
                    BY <1>2, <5>1
                <5>3. all[1].at <= all[i].at
                    BY <1>1, <4>1 DEF Sorted
                <5>4. QED
                    BY <3>1, <3>2, <5>1, <5>2, <5>3
            <4>5. QED
                BY <1>2, <4>2, <4>3, <4>4
        <3>4. \A i \in 2 .. n + 1 : ~Observed!Expired(all[i])
            BY <2>3, <3>1, <3>3, HistoryLimits DEF Observed!Expired
        <3>5. Len(fresh) \in Nat /\ Len(left) \in Nat
            BY <1>3, <1>4
        <3>6. n <= Len(fresh) /\ n = MaxPerCheck
            BY <1>1, <1>3, <2>3, <3>4, <3>5
        <3>7. Len(left) = n
            BY <1>3, <1>4, <3>5, <3>6
        <3>8. \A i \in 1 .. n : left[i].at >= old.at
            <4>1. SUFFICES ASSUME NEW i \in 1 .. n PROVE left[i].at >= old.at
                OBVIOUS
            <4>2. /\ i + (Len(fresh) - n) \in 1 .. Len(fresh)
                  /\ (i + (Len(fresh) - n)) + ((n + 1) - Len(fresh)) = i + 1
                BY <1>1, <1>3, <3>5, <3>6
            <4>3. left[i] = all[i + 1]
                BY <1>3, <1>4, <3>7, <4>2
            <4>4. QED
                BY <1>1, <3>3, <4>3
        <3>9. DOMAIN left = 1 .. n
            BY <1>4, <3>7
        <3>10. \A r \in Observed!Range(left) : r.at >= old.at
            BY <3>8, <3>9 DEF Observed!Range
        <3>11. QED
            BY <2>3, <3>7, <3>10 DEF Observed!Holds
    <2>4. QED
        BY <1>8, <2>1, <2>2, <2>3 DEF Observed!Holds
<1>9. QED
    BY <1>4, <1>5, <1>7, <1>8 DEF left, fresh, all
-----------------------------------------------------------------------------
(* What the journal keeps of what was in memory, and the other way round.  *)

\* A compaction: what memory holds, or need not, a restart finds, or need not.
LEMMA WrittenInJournal ==
    ASSUME NEW items \in Seq(Observed!Observation), NEW o \in Observed!Observation, Observed!Holds(items, o)
    PROVE  InTheJournal(items, o)
<1>1. CASE o \in Observed!Range(items) \/ Observed!Expired(o)
    BY <1>1 DEF InTheJournal
<1>2. CASE Len(items) = MaxPerCheck /\ \A r \in Observed!Range(items) : r.at >= o.at
    <2>1. \A i \in DOMAIN items : items[i] \in Observed!Range(items) /\ items[i] \in Observed!Observation
        BY DEF Observed!Range
    <2>2. \A i \in DOMAIN items : items[i] # Observed!Garbage
        BY <2>1, ObservedAt
    <2> DEFINE There == {i \in DOMAIN items : items[i] # Observed!Garbage /\ items[i].at >= o.at}
    <2>3. There = 1 .. Len(items)
        BY <1>2, <2>1, <2>2
    <2>4. Cardinality(1 .. Len(items)) = Len(items)
        BY <1>2, HistoryLimits, FS_Interval
    <2>5. Cardinality(There) >= MaxPerCheck
        <3> HIDE DEF There
        <3>1. QED
            BY <1>2, <2>3, <2>4, HistoryLimits
    <2>6. QED
        BY <2>5 DEF InTheJournal
<1>3. QED
    BY <1>1, <1>2 DEF Observed!Holds

\* A line more does not hide another.
LEMMA LineAppended ==
    ASSUME NEW rows \in Seq(Observed!Observation \cup {Observed!Garbage}),
           NEW line \in Observed!Observation \cup {Observed!Garbage},
           NEW o, InTheJournal(rows, o)
    PROVE  InTheJournal(Append(rows, line), o)
<1> DEFINE more == Append(rows, line)
           There(ls) == {i \in DOMAIN ls : ls[i] # Observed!Garbage /\ ls[i].at >= o.at}
<1>1. /\ DOMAIN rows = 1 .. Len(rows) /\ DOMAIN more = 1 .. Len(rows) + 1 /\ Len(rows) \in Nat
      /\ \A i \in DOMAIN rows : i \in DOMAIN more /\ more[i] = rows[i]
    OBVIOUS
<1> HIDE DEF more
<1>2. CASE o \in Observed!Range(rows)
    <2>1. o \in Observed!Range(more)
        BY <1>1, <1>2 DEF Observed!Range
    <2>2. QED
        BY <2>1 DEF InTheJournal, more
<1>3. CASE Observed!Expired(o)
    BY <1>3 DEF InTheJournal
<1>4. CASE Cardinality(There(rows)) >= MaxPerCheck
    <2>1. There(rows) \in SUBSET There(more) /\ There(more) \in SUBSET (1 .. Len(rows) + 1)
        BY <1>1
    <2>2. IsFiniteSet(1 .. Len(rows) + 1)
        BY <1>1, FS_Interval
    <2>3. IsFiniteSet(There(more))
        BY <2>1, <2>2, FS_Subset
    <2>4. /\ Cardinality(There(rows)) <= Cardinality(There(more))
          /\ Cardinality(There(rows)) \in Nat /\ Cardinality(There(more)) \in Nat
        BY <2>1, <2>3, FS_Subset, FS_CardinalityType
    <2>5. Cardinality(There(more)) >= MaxPerCheck
        BY <1>4, <2>4, HistoryLimits
    <2>6. QED
        BY <2>5 DEF InTheJournal, more
<1>5. QED
    BY <1>2, <1>3, <1>4 DEF InTheJournal

\* loadHistory: what a restart finds, or need not, is in the memory it makes.
LEMMA LoadedHolds ==
    ASSUME NEW rows \in Seq(Observed!Observation \cup {Observed!Garbage}), historyClock \in Nat
    PROVE  /\ Observed!Loaded(rows) \in Seq(Observed!Observation) /\ Sorted(Observed!Loaded(rows))
           /\ Len(Observed!Loaded(rows)) <= MaxPerCheck
           /\ \A o \in Observed!Observation : InTheJournal(rows, o) => Observed!Holds(Observed!Loaded(rows), o)
<1> DEFINE K == Observed!Kept(rows)
           n == Cardinality(K)
           all == Observed!InOrder(rows, K)
           last == Observed!Newest(all)
<1>1. /\ K \in SUBSET (1 .. Len(rows)) /\ K \in SUBSET Nat /\ Len(rows) \in Nat
      /\ \A i \in K : rows[i] \in Observed!Observation
    BY DEF Observed!Kept
<1>2. IsFiniteSet(1 .. Len(rows))
    BY <1>1, FS_Interval
<1>3. IsFiniteSet(K)
    BY <1>1, <1>2, FS_Subset
<1> HIDE DEF K
<1>4. /\ all \in Seq(Observed!Observation) /\ Len(all) = n /\ n \in Nat /\ Sorted(all)
      /\ \A i \in K : Observed!Place(rows, K, i) \in 1 .. n /\ all[Observed!Place(rows, K, i)] = rows[i]
      /\ \A i, j \in K : Observed!Before(rows, i, j) => Observed!Place(rows, K, i) < Observed!Place(rows, K, j)
    BY <1>1, <1>3, Ordered
<1> HIDE DEF all
<1>5. /\ last \in Seq(Observed!Observation) /\ Sorted(last)
      /\ Len(last) = IF n > MaxPerCheck THEN MaxPerCheck ELSE n
      /\ \A i \in 1 .. Len(last) : last[i] = all[i + (n - Len(last))]
    BY <1>4, LastKept
<1>6. \A o \in Observed!Range(all) : Observed!Holds(last, o)
    BY <1>4, NewestHold
<1> HIDE DEF last, n
<1>7. ASSUME NEW o \in Observed!Observation, InTheJournal(rows, o), ~Observed!Expired(o)
      PROVE Observed!Holds(last, o)
    <2> DEFINE G == {i \in DOMAIN rows : rows[i] # Observed!Garbage /\ rows[i].at >= o.at}
    <2>1. o.at \in Nat /\ o # Observed!Garbage
        BY ObservedAt
    <2>2. CASE o \in Observed!Range(rows)
        <3>1. PICK i \in DOMAIN rows : rows[i] = o
            BY <2>2 DEF Observed!Range
        <3>2. i \in K
            BY <1>7, <2>1, <3>1 DEF Observed!Kept, K
        <3>3. o \in Observed!Range(all)
            BY <1>4, <3>1, <3>2 DEF Observed!Range
        <3>4. QED
            BY <1>6, <3>3
    <2>3. CASE Cardinality(G) >= MaxPerCheck
        <3>1. \A i \in G : i \in K /\ rows[i].at >= o.at /\ rows[i].at \in Nat
            <4>1. SUFFICES ASSUME NEW i \in G PROVE i \in K /\ rows[i].at >= o.at /\ rows[i].at \in Nat
                OBVIOUS
            <4>2. rows[i] \in Observed!Observation /\ i \in DOMAIN rows /\ rows[i] # Observed!Garbage /\
                     rows[i].at >= o.at
                OBVIOUS
            <4>3. rows[i].at \in Nat
                BY <4>2, ObservedAt
            <4>4. ~Observed!Expired(rows[i])
                BY <1>7, <2>1, <4>2, <4>3, HistoryLimits DEF Observed!Expired
            <4>5. QED
                BY <4>2, <4>3, <4>4 DEF Observed!Kept, K
        <3> HIDE DEF G
        <3>2. /\ G \in SUBSET K /\ IsFiniteSet(G)
              /\ Cardinality(G) \in Nat /\ Cardinality(G) <= Cardinality(K)
            <4>1. G \in SUBSET K
                BY <3>1
            <4>2. QED
                BY <1>3, <4>1, FS_Subset, FS_CardinalityType
        <3>3. n >= MaxPerCheck /\ Len(last) = MaxPerCheck
            BY <1>4, <1>5, <2>3, <3>2, HistoryLimits DEF n
        <3>4. ASSUME NEW k \in 1 .. MaxPerCheck, ~(last[k].at >= o.at) PROVE FALSE
            <4>1. PICK q \in 1 .. n : q = k + (n - MaxPerCheck)
                BY <1>4, <3>3, HistoryLimits
            <4>2. last[k] = all[q] /\ last[k] \in Observed!Observation
                BY <1>5, <3>3, <4>1
            <4>3. last[k].at \in Nat
                BY <4>2, ObservedAt
            <4>4. \A i \in G : Observed!Place(rows, K, i) \in q + 1 .. n
                <5>1. SUFFICES ASSUME NEW i \in G, Observed!Place(rows, K, i) <= q PROVE FALSE
                    BY <1>4, <3>1
                <5>2. i \in K /\ Observed!Place(rows, K, i) \in 1 .. n /\
                         all[Observed!Place(rows, K, i)] = rows[i]
                    BY <1>4, <3>1
                <5>3. rows[i].at <= all[q].at
                    BY <1>4, <5>1, <5>2 DEF Sorted
                <5>4. QED
                    BY <2>1, <3>1, <3>4, <4>2, <4>3, <5>3
            <4>5. \A i, j \in G : Observed!Place(rows, K, i) = Observed!Place(rows, K, j) => i = j
                <5>1. \A i, j \in G : i # j => Observed!Before(rows, i, j) \/ Observed!Before(rows, j, i)
                    <6>1. SUFFICES ASSUME NEW i \in G, NEW j \in G, i # j
                                   PROVE  Observed!Before(rows, i, j) \/ Observed!Before(rows, j, i)
                        OBVIOUS
                    <6>2. i \in Nat /\ j \in Nat /\ rows[i].at \in Nat /\ rows[j].at \in Nat
                        BY <1>1, <3>1
                    <6>3. QED
                        BY <6>1, <6>2 DEF Observed!Before
                <5>2. QED
                    BY <1>4, <3>1, <5>1
            <4> DEFINE f == [i \in G |-> Observed!Place(rows, K, i)]
            <4>6. f \in Injection(G, q + 1 .. n)
                BY <4>4, <4>5 DEF Injection, IsInjective
            <4>7. /\ IsFiniteSet(q + 1 .. n) /\ Cardinality(q + 1 .. n) = n - q
                <5>1. q + 1 \in Int /\ n \in Int /\ (q + 1 > n => n - q = 0) /\ (n - (q + 1)) + 1 = n - q
                    BY <1>4
                <5>2. QED
                    BY <5>1, FS_Interval
            <4>8. Cardinality(G) <= n - q
                BY <4>6, <4>7, FS_Injection
            <4>9. QED
                BY <1>4, <2>3, <3>2, <3>3, <4>1, <4>8, HistoryLimits
        <3>5. DOMAIN last = 1 .. MaxPerCheck
            BY <1>5, <3>3
        <3>6. \A r \in Observed!Range(last) : r.at >= o.at
            BY <3>4, <3>5 DEF Observed!Range
        <3>7. QED
            BY <3>3, <3>6 DEF Observed!Holds
    <2>4. QED
        BY <1>7, <2>2, <2>3 DEF InTheJournal
<1>8. Len(last) <= MaxPerCheck
    BY <1>4, <1>5, HistoryLimits
<1>9. \A o \in Observed!Observation : InTheJournal(rows, o) => Observed!Holds(last, o)
    BY <1>7 DEF Observed!Holds
<1>10. QED
    BY <1>5, <1>8, <1>9 DEF Observed!Loaded, last, all, K
-----------------------------------------------------------------------------
(* The steps.                                                              *)

LEMMA HistoryInit == Observed!Init => HistoryInv
<1> SUFFICES ASSUME Observed!Init PROVE HistoryInv
    OBVIOUS
<1>1. /\ historyClock = 0 /\ received = 0 /\ waiting = {} /\ memory = <<>> /\ lines = <<>>
      /\ tornLine = FALSE /\ compacting = FALSE /\ historyFaults = 0 /\ noted = {} /\ sure = {}
    BY DEF Observed!Init
<1>2. 0 \in 0 .. MaxHistoryTime /\ 0 \in 0 .. MaxObs /\ 0 \in 0 .. HistoryFaults
    BY HistoryLimits
<1>3. /\ memory \in Seq(Observed!Observation) /\ lines \in Seq(Observed!Observation \cup {Observed!Garbage})
      /\ Len(memory) = 0 /\ Sorted(memory)
    BY <1>1 DEF Sorted
<1>4. QED
    BY <1>1, <1>2, <1>3, HistoryLimits DEF HistoryInv

LEMMA HistoryTimes == HistoryInv => historyClock \in Nat
BY HistoryLimits DEF HistoryInv

\* Where an observation enters the memory, and the journal keeps what it must.
LEMMA MemoryEntered ==
    ASSUME HistoryInv, NEW o \in waiting, Observed!Note(o), historyFaults' \in 0 .. HistoryFaults,
           sure' \in SUBSET (sure \cup {o}), lines' \in Seq(Observed!Observation \cup {Observed!Garbage}),
           \A s \in sure' : InTheJournal(lines', s),
           tornLine' => lines' # <<>> /\ Observed!Last(lines') = Observed!Garbage,
           compacting' => appends' >= CompactEvery
    PROVE  HistoryInv'
<1>1. /\ waiting' = waiting \ {o} /\ noted' = noted \cup {o} /\ UNCHANGED <<historyClock, received>>
      /\ memory' = Observed!Newest(Observed!Fresh(Observed!Inserted(memory, o)))
    BY DEF Observed!Note
<1>2. o \in Observed!Observation /\ memory \in Seq(Observed!Observation) /\ Sorted(memory) /\
         historyClock \in Nat
    BY HistoryTimes DEF HistoryInv
<1>3. /\ memory' \in Seq(Observed!Observation) /\ Sorted(memory') /\ Len(memory') <= MaxPerCheck
      /\ Observed!Holds(memory', o)
      /\ \A old \in Observed!Observation : Observed!Holds(memory, old) => Observed!Holds(memory', old)
    BY <1>1, <1>2, MemoryHolds
<1>4. \A s \in noted' \cup sure' : Observed!Holds(memory', s)
    BY <1>1, <1>3 DEF HistoryInv
<1>5. noted' \subseteq Observed!Observation /\ sure' \subseteq Observed!Observation /\
         waiting' \subseteq Observed!Observation
    BY <1>1, <1>2 DEF HistoryInv
<1>6. \A s \in noted' \cup sure' : Observed!Holds(memory, s)'
    BY <1>1, <1>4 DEF Observed!Holds, Observed!Expired
<1>7. \A s \in sure' : InTheJournal(lines, s)'
    BY <1>1 DEF InTheJournal, Observed!Expired
<1>8. QED
    BY <1>1, <1>3, <1>5, <1>6, <1>7 DEF HistoryInv, Sorted

LEMMA LineRecorded == ASSUME HistoryInv, NEW o \in waiting, Observed!Record(o) PROVE HistoryInv'
<1>1. /\ Observed!Note(o) /\ lines' = Observed!WithLine(o) /\ tornLine' = FALSE
      /\ sure' = IF tornLine THEN sure ELSE sure \cup {o}
      /\ compacting' = (appends' >= CompactEvery) /\ historyFaults' = historyFaults
    BY DEF Observed!Record
<1>2. o \in Observed!Observation /\ lines \in Seq(Observed!Observation \cup {Observed!Garbage})
    BY DEF HistoryInv
<1>3. CASE tornLine
    <2>1. lines' = lines /\ sure' = sure
        BY <1>1, <1>3 DEF Observed!WithLine
    <2>2. \A s \in sure' : InTheJournal(lines', s)
        BY <2>1 DEF HistoryInv
    <2>3. QED
        BY <1>1, <1>2, <2>1, <2>2, MemoryEntered DEF HistoryInv
<1>4. CASE ~tornLine
    <2>1. lines' = Append(lines, o) /\ sure' = sure \cup {o}
        BY <1>1, <1>4 DEF Observed!WithLine
    <2>2. lines' \in Seq(Observed!Observation \cup {Observed!Garbage}) /\ o \in Observed!Range(lines')
        <3>1. /\ lines' \in Seq(Observed!Observation \cup {Observed!Garbage}) /\
                    Len(lines) + 1 \in DOMAIN lines'
              /\ lines'[Len(lines) + 1] = o
            BY <1>2, <2>1
        <3>2. QED
            BY <3>1 DEF Observed!Range
    <2>3. \A s \in sure : InTheJournal(lines', s)
        BY <1>2, <2>1, LineAppended DEF HistoryInv
    <2>4. InTheJournal(lines', o)
        BY <2>2 DEF InTheJournal
    <2>5. QED
        BY <1>1, <2>1, <2>2, <2>3, <2>4, MemoryEntered DEF HistoryInv
<1>5. QED
    BY <1>3, <1>4

LEMMA NotAppended == ASSUME HistoryInv, NEW o \in waiting, Observed!AppendFails(o) PROVE HistoryInv'
<1>1. /\ Observed!Note(o) /\ historyFaults < HistoryFaults /\ historyFaults' = historyFaults + 1
      /\ \/ UNCHANGED <<lines, tornLine>>
         \/ lines' = Observed!WithPart /\ tornLine' = TRUE
         \/ lines' = Observed!WithLine(o) /\ tornLine' = FALSE
      /\ UNCHANGED <<appends, compacting, sure>>
    BY DEF Observed!AppendFails, Observed!Fault
<1>2. o \in Observed!Observation /\ lines \in Seq(Observed!Observation \cup {Observed!Garbage}) /\
         historyFaults' \in 0 .. HistoryFaults
    BY <1>1, HistoryLimits DEF HistoryInv
<1>3. /\ compacting' => appends' >= CompactEvery /\ sure' \in SUBSET (sure \cup {o})
    BY <1>1 DEF HistoryInv
<1>4. CASE UNCHANGED lines
    <2>1. tornLine' => tornLine \/ lines' = Observed!WithPart
        BY <1>1, <1>4
    <2>2. tornLine' => lines' # <<>> /\ Observed!Last(lines') = Observed!Garbage
        <3>1. CASE tornLine
            BY <1>4, <3>1 DEF HistoryInv
        <3>2. CASE ~tornLine
            BY <1>2, <1>4, <2>1, <3>2 DEF Observed!WithPart
        <3>3. QED
            BY <3>1, <3>2
    <2>3. \A s \in sure' : InTheJournal(lines', s)
        BY <1>1, <1>4 DEF HistoryInv
    <2>4. QED
        BY <1>1, <1>2, <1>3, <1>4, <2>2, <2>3, MemoryEntered
<1>5. ASSUME NEW line \in Observed!Observation \cup {Observed!Garbage}, lines' = Append(lines, line),
             tornLine' => line = Observed!Garbage
      PROVE  HistoryInv'
    <2>1. /\ lines' \in Seq(Observed!Observation \cup {Observed!Garbage}) /\ lines' # <<>>
          /\ Observed!Last(lines') = line
        BY <1>2, <1>5 DEF Observed!Last
    <2>2. \A s \in sure' : InTheJournal(lines', s)
        BY <1>1, <1>2, <1>5, LineAppended DEF HistoryInv
    <2>3. QED
        BY <1>1, <1>2, <1>3, <1>5, <2>1, <2>2, MemoryEntered
<1>6. QED
    BY <1>1, <1>2, <1>4, <1>5 DEF Observed!WithPart, Observed!WithLine

\* The file becomes the memory: in a compaction that succeeds, or fails late.
LEMMA JournalCompacted ==
    ASSUME HistoryInv, NEW kept \in {{}, Observed!Range(memory)},
           UNCHANGED <<historyClock, received, waiting, memory, noted>>, historyFaults' \in 0 .. HistoryFaults,
           compacting' = FALSE, sure' = sure \cup kept,
           \/ lines' = memory /\ tornLine' = FALSE
           \/ UNCHANGED <<lines, tornLine>> /\ kept = {}
    PROVE  HistoryInv'
<1>1. memory \in Seq(Observed!Observation) /\ Observed!Range(memory) \subseteq Observed!Observation
    BY DEF HistoryInv, Observed!Range
<1>2. sure' \subseteq Observed!Observation /\ \A s \in noted \cup sure' : Observed!Holds(memory, s)
    BY <1>1 DEF HistoryInv, Observed!Holds
<1>3. \A s \in sure' : InTheJournal(lines', s)
    <2>1. CASE lines' = memory
        BY <1>1, <1>2, <2>1, WrittenInJournal
    <2>2. CASE UNCHANGED lines /\ kept = {}
        BY <2>2 DEF HistoryInv
    <2>3. QED
        BY <2>1, <2>2
<1>4. /\ lines' \in Seq(Observed!Observation \cup {Observed!Garbage})
      /\ tornLine' => lines' # <<>> /\ Observed!Last(lines') = Observed!Garbage
    BY <1>1 DEF HistoryInv
<1>5. \A s \in noted' \cup sure' : Observed!Holds(memory, s)'
    BY <1>2 DEF Observed!Holds, Observed!Expired
<1>6. \A s \in sure' : InTheJournal(lines, s)'
    BY <1>3 DEF InTheJournal, Observed!Expired
<1>7. QED
    BY <1>2, <1>4, <1>5, <1>6 DEF HistoryInv, Sorted

LEMMA JournalLoaded == ASSUME HistoryInv, Observed!Restart PROVE HistoryInv'
<1>1. /\ historyFaults < HistoryFaults /\ historyFaults' = historyFaults + 1
      /\ waiting' = {} /\ noted' = {} /\ memory' = Observed!Loaded(lines) /\ compacting' = FALSE
      /\ (lines' = memory' /\ tornLine' = FALSE) \/ UNCHANGED <<lines, tornLine>>
      /\ UNCHANGED <<historyClock, received, sure>>
    BY DEF Observed!Restart, Observed!Fault
<1>2. /\ historyClock \in Nat /\ lines \in Seq(Observed!Observation \cup {Observed!Garbage}) /\
            sure \subseteq Observed!Observation
      /\ historyFaults' \in 0 .. HistoryFaults
    BY <1>1, HistoryTimes, HistoryLimits DEF HistoryInv
<1>3. /\ memory' \in Seq(Observed!Observation) /\ Sorted(memory') /\ Len(memory') <= MaxPerCheck
      /\ \A s \in sure : Observed!Holds(memory', s)
    BY <1>1, <1>2, LoadedHolds DEF HistoryInv
<1>4. \A s \in sure : InTheJournal(lines', s)
    <2>1. CASE lines' = memory'
        BY <1>2, <1>3, <2>1, WrittenInJournal
    <2>2. CASE UNCHANGED lines
        BY <2>2 DEF HistoryInv
    <2>3. QED
        BY <1>1, <2>1, <2>2
<1>5. /\ lines' \in Seq(Observed!Observation \cup {Observed!Garbage})
      /\ tornLine' => lines' # <<>> /\ Observed!Last(lines') = Observed!Garbage
    BY <1>1, <1>3 DEF HistoryInv
<1>6. \A s \in noted' \cup sure' : Observed!Holds(memory, s)'
    BY <1>1, <1>3 DEF Observed!Holds, Observed!Expired
<1>7. \A s \in sure' : InTheJournal(lines, s)'
    BY <1>1, <1>4 DEF InTheJournal, Observed!Expired
<1>8. QED
    BY <1>1, <1>2, <1>3, <1>5, <1>6, <1>7 DEF HistoryInv, Sorted

\* Where time passes, or an observation gets its time.
LEMMA HistoryWaits ==
    ASSUME HistoryInv, historyClock' \in historyClock .. MaxHistoryTime, received' \in 0 .. MaxObs,
           waiting' \subseteq Observed!Observation,
           UNCHANGED <<memory, lines, tornLine, appends, compacting, historyFaults, noted, sure>>
    PROVE  HistoryInv'
<1>1. historyClock \in Nat /\ historyClock' \in 0 .. MaxHistoryTime /\ historyClock <= historyClock'
    BY HistoryTimes, HistoryLimits
<1>2. \A o \in Observed!Observation : Observed!Expired(o) => Observed!Expired(o)'
    <2>1. SUFFICES ASSUME NEW o \in Observed!Observation PROVE Observed!Expired(o) => Observed!Expired(o)'
        OBVIOUS
    <2>2. o.at \in Nat
        BY ObservedAt
    <2>3. QED
        BY <1>1, <2>2, HistoryLimits DEF Observed!Expired
<1>3. \A s \in noted' \cup sure' : Observed!Holds(memory, s)'
    BY <1>2 DEF HistoryInv, Observed!Holds
<1>4. \A s \in sure' : InTheJournal(lines, s)'
    BY <1>2 DEF HistoryInv, InTheJournal
<1>5. QED
    BY <1>1, <1>3, <1>4 DEF HistoryInv, Sorted

LEMMA HistoryStep == HistoryInv /\ [Observed!Next]_(Observed!vars) => HistoryInv'
<1> SUFFICES ASSUME HistoryInv, [Observed!Next]_(Observed!vars) PROVE HistoryInv'
    OBVIOUS
<1>0. historyClock \in Nat /\ historyClock \in 0 .. MaxHistoryTime /\ received \in 0 .. MaxObs /\
         waiting \subseteq Observed!Observation
    BY HistoryTimes DEF HistoryInv
<1>1. CASE Observed!Receive
    <2>1. /\ received < MaxObs /\ received' = received + 1
          /\ waiting' = waiting \cup {[id |-> received', at |-> historyClock]}
          /\ UNCHANGED <<historyClock, memory, lines, tornLine, appends, compacting, historyFaults, noted,
                sure>>
        BY <1>1 DEF Observed!Receive
    <2>2. received' \in 1 .. MaxObs /\ received' \in 0 .. MaxObs /\
             historyClock' \in historyClock .. MaxHistoryTime
        BY <1>0, <2>1, HistoryLimits
    <2>3. waiting' \subseteq Observed!Observation
        BY <1>0, <2>1, <2>2 DEF Observed!Observation
    <2>4. QED
        BY <2>1, <2>2, <2>3, HistoryWaits
<1>2. CASE Observed!Compact
    <2>1. /\ UNCHANGED <<historyClock, received, waiting, memory, noted>> /\ historyFaults' = historyFaults
          /\ compacting' = FALSE /\ sure' = sure \cup Observed!Range(memory)
          /\ lines' = memory /\ tornLine' = FALSE
        BY <1>2 DEF Observed!Compact
    <2>2. historyFaults' \in 0 .. HistoryFaults
        BY <2>1 DEF HistoryInv
    <2>3. QED
        BY <2>1, <2>2, JournalCompacted
<1>3. CASE Observed!CompactFails
    <2>1. /\ UNCHANGED <<historyClock, received, waiting, memory, noted>>
          /\ historyFaults < HistoryFaults /\ historyFaults' = historyFaults + 1
          /\ compacting' = FALSE /\ sure' = sure \cup {}
          /\ (lines' = memory /\ tornLine' = FALSE) \/ (UNCHANGED <<lines, tornLine>> /\ {} = {})
        BY <1>3 DEF Observed!CompactFails, Observed!Fault
    <2>2. historyFaults' \in 0 .. HistoryFaults
        BY <2>1, HistoryLimits DEF HistoryInv
    <2>3. QED
        BY <2>1, <2>2, JournalCompacted
<1>4. CASE Observed!Tick
    <2>1. /\ historyClock < MaxHistoryTime /\ historyClock' = historyClock + 1
          /\ UNCHANGED <<received, waiting, memory, lines, tornLine, appends, compacting, historyFaults, noted,
                sure>>
        BY <1>4 DEF Observed!Tick
    <2>2. historyClock' \in historyClock .. MaxHistoryTime
        BY <1>0, <2>1, HistoryLimits
    <2>3. QED
        BY <1>0, <2>1, <2>2, HistoryWaits
<1>5. CASE UNCHANGED Observed!vars
    <2>1. /\ UNCHANGED <<memory, lines, tornLine, appends, compacting, historyFaults, noted, sure>>
          /\ UNCHANGED <<historyClock, received, waiting>>
        BY <1>5 DEF Observed!vars
    <2>2. historyClock' \in historyClock .. MaxHistoryTime
        BY <1>0, <2>1, HistoryLimits
    <2>3. QED
        BY <1>0, <2>1, <2>2, HistoryWaits
<1>6. QED
    BY <1>1, <1>2, <1>3, <1>4, <1>5, LineRecorded, NotAppended, JournalLoaded DEF Observed!Next

LEMMA NewestThen == HistoryInv => Observed!NewestKept
<1> SUFFICES ASSUME HistoryInv PROVE Observed!NewestKept
    OBVIOUS
<1>1. \A o \in sure : Observed!Holds(Observed!Loaded(lines), o)
    BY HistoryTimes, LoadedHolds DEF HistoryInv
<1>2. \A i \in 1 .. Len(memory) - 1 : memory[i].at <= memory[i + 1].at
    <2>1. SUFFICES ASSUME NEW i \in 1 .. Len(memory) - 1 PROVE memory[i].at <= memory[i + 1].at
        OBVIOUS
    <2>2. i \in 1 .. Len(memory) /\ i + 1 \in 1 .. Len(memory) /\ i <= i + 1
        BY DEF HistoryInv
    <2>3. QED
        BY <2>2 DEF HistoryInv, Sorted
<1>3. QED
    BY <1>1, <1>2 DEF HistoryInv, Observed!NewestKept

LEMMA HistoryTyped == HistoryInv => Observed!TypeOK
BY DEF HistoryInv, Observed!TypeOK, Observed!Range

-----------------------------------------------------------------------------
(* Maintenance.  What is taken off an outage and when an alert is          *)
(* suppressed are computed apart, and are the same instants.               *)

LEMMA UptimeParameters == Report!UptimeAssumption
BY Assumptions

\* Quotient and remainder.
LEMMA Divided ==
    ASSUME NEW a \in Nat, NEW d \in Nat \ {0}
    PROVE  /\ a \div d \in Nat /\ a % d \in 0 .. d - 1
           /\ a = (a \div d) * d + (a % d)
    BY Z3

LEMMA Products ==
    ASSUME NEW x \in Nat, NEW y \in Nat, NEW d \in Nat, x <= y
    PROVE  x * d \in Nat /\ y * d \in Nat /\ x * d <= y * d /\ (y - x) * d = y * d - x * d
    BY Z3

LEMMA OneQuotient ==
    ASSUME NEW m \in Nat, NEW d \in Nat \ {0}, NEW r \in 0 .. d - 1
    PROVE  m * d + r \in Nat /\ (m * d + r) \div d = m /\ (m * d + r) % d = r
<1> DEFINE a == m * d + r
           q == a \div d
           s == a % d
<1>1. a \in Nat
    BY Products
<1>2. q \in Nat /\ s \in 0 .. d - 1 /\ a = q * d + s
    BY <1>1, Divided
<1>3. m * d + r = q * d + s
    BY <1>2
<1>4. ~ (q < m)
    <2>1. SUFFICES ASSUME q < m PROVE FALSE
        OBVIOUS
    <2>2. PICK n \in Nat : n = q + 1 /\ n <= m
        BY <1>2, <2>1
    <2>3. n * d <= m * d /\ n * d = q * d + d /\ q * d \in Nat /\ m * d \in Nat
        <3> HIDE DEF q
        <3>1. n * d <= m * d /\ m * d \in Nat /\ n * d \in Nat
            BY <2>2, Products
        <3>2. (n - q) * d = n * d - q * d /\ q * d \in Nat
            BY <1>2, <2>2, Products
        <3>3. n - q = 1 /\ 1 * d = d
            BY <1>2, <2>2
        <3>4. QED
            BY <3>1, <3>2, <3>3
    <2> HIDE DEF q, s
    <2>4. QED
        BY <1>2, <1>3, <2>3
<1>5. ~ (m < q)
    <2>1. SUFFICES ASSUME m < q PROVE FALSE
        OBVIOUS
    <2>2. PICK n \in Nat : n = m + 1 /\ n <= q
        BY <1>2, <2>1
    <2>3. n * d <= q * d /\ n * d = m * d + d /\ q * d \in Nat /\ m * d \in Nat
        <3> HIDE DEF q
        <3>1. n * d <= q * d /\ q * d \in Nat /\ n * d \in Nat
            BY <1>2, <2>2, Products
        <3>2. (n - m) * d = n * d - m * d /\ m * d \in Nat
            BY <1>2, <2>2, Products
        <3>3. n - m = 1 /\ 1 * d = d
            BY <1>2, <2>2
        <3>4. QED
            BY <3>1, <3>2, <3>3
    <2> HIDE DEF q, s
    <2>4. QED
        BY <1>2, <1>3, <2>3
<1>6. q = m
    BY <1>2, <1>4, <1>5
<1>7. QED
    <2> HIDE DEF q, s
    <2>1. m * d \in Nat /\ s = r
        BY <1>2, <1>3, <1>6, Products
    <2>2. QED
        BY <1>1, <1>6, <2>1 DEF q, s

\* The instants of an interval that is clipped.
LEMMA Clipped ==
    ASSUME NEW a \in Nat, NEW b \in Nat, NEW span \in [from : Nat, to : Nat], NEW t \in Nat,
           span.from <= t, t < span.to
    PROVE  LET o == Report!Clip([from |-> a, to |-> b], span.from, span.to)
           IN  /\ (o.from <= t /\ t < o.to) <=> (a <= t /\ t < b)
               /\ a <= t /\ t < b => Report!Lasts(o)
    BY DEF Report!Clip, Report!Lasts

\* A window that does not recur.
LEMMA ActiveOnce ==
    ASSUME NEW w \in [starts : Nat, ends : Nat, every : Nat], w.every = 0,
           NEW span \in [from : Nat, to : Nat], NEW t \in Nat, span.from <= t, t < span.to
    PROVE  Report!Active(w, t) <=> \E o \in Report!Occurrences(w, span) : o.from <= t /\ t < o.to
<1> DEFINE o == Report!Clip([from |-> w.starts, to |-> w.ends], span.from, span.to)
<1>1. Report!Active(w, t) <=> w.starts <= t /\ t < w.ends
    BY DEF Report!Active
<1>2. Report!Occurrences(w, span) = {i \in {o} : Report!Lasts(i)}
    BY DEF Report!Occurrences
<1>3. /\ (o.from <= t /\ t < o.to) <=> (w.starts <= t /\ t < w.ends)
      /\ w.starts <= t /\ t < w.ends => Report!Lasts(o)
    BY Clipped
<1> HIDE DEF o
<1>4. QED
    BY <1>1, <1>2, <1>3

\* The start of the first occurrence that Occurrences looks at.
FirstFrom(w, span) ==
    IF span.from > w.starts
    THEN w.starts + ((span.from - w.starts) \div w.every) * w.every
    ELSE w.starts

\* It is whole periods after the window began, and none too many.
LEMMA FirstStart ==
    ASSUME NEW w \in [starts : Nat, ends : Nat, every : Nat], w.every # 0,
           NEW span \in [from : Nat, to : Nat]
    PROVE  /\ FirstFrom(w, span) \in Nat
           /\ \E m \in Nat : /\ FirstFrom(w, span) = w.starts + m * w.every
                             /\ \A t \in Nat : span.from <= t /\ w.starts <= t =>
                                    m <= (t - w.starts) \div w.every
<1> DEFINE p == w.every
<1>1. p \in Nat \ {0}
    OBVIOUS
<1>2. CASE span.from > w.starts
    <2> DEFINE a == span.from - w.starts
               m == a \div p
    <2>1. a \in Nat /\ FirstFrom(w, span) = w.starts + m * p
        BY <1>2 DEF FirstFrom
    <2>2. m \in Nat /\ a = m * p + (a % p) /\ a % p \in 0 .. p - 1
        BY <1>1, <2>1, Divided
    <2>3. ASSUME NEW t \in Nat, span.from <= t, w.starts <= t
          PROVE  m <= (t - w.starts) \div p
        <3> DEFINE b == t - w.starts
                   n == b \div p
        <3>1. b \in Nat /\ a <= b
            BY <2>3, <1>2
        <3>2. n \in Nat /\ b = n * p + (b % p) /\ b % p \in 0 .. p - 1
            BY <1>1, <3>1, Divided
        <3>3. SUFFICES ASSUME n < m PROVE FALSE
            BY <2>2, <3>2
        <3>4. PICK k \in Nat : k = n + 1 /\ k <= m
            BY <2>2, <3>2, <3>3
        <3>5. k * p <= m * p /\ k * p \in Nat /\ m * p \in Nat
            <4> HIDE DEF m, p
            <4>1. QED
                BY <1>1, <2>2, <3>4, Products
        <3>6. n * p \in Nat /\ k * p = n * p + p
            <4> HIDE DEF n, p
            <4>1. n * p \in Nat /\ k * p \in Nat /\ (k - n) * p = k * p - n * p
                BY <1>1, <3>2, <3>4, Products
            <4>2. k - n = 1 /\ 1 * p = p
                BY <1>1, <3>2, <3>4
            <4>3. QED
                BY <1>1, <4>1, <4>2
        <3> HIDE DEF a, b, m, n, p
        <3>7. QED
            BY <1>1, <2>1, <2>2, <3>1, <3>2, <3>5, <3>6
    <2>4. FirstFrom(w, span) \in Nat
        <3>1. m * p \in Nat
            <4> HIDE DEF m, p
            <4>1. QED
                BY <1>1, <2>2, Products
        <3>2. QED
            BY <2>1, <3>1
    <2>5. QED
        BY <2>1, <2>2, <2>3, <2>4
<1>3. CASE ~ (span.from > w.starts)
    <2>1. FirstFrom(w, span) = w.starts /\ 0 * p = 0
        BY <1>1, <1>3 DEF FirstFrom
    <2>2. ASSUME NEW t \in Nat, w.starts <= t PROVE 0 <= (t - w.starts) \div p
        <3>1. t - w.starts \in Nat
            BY <2>2
        <3>2. (t - w.starts) \div p \in Nat
            BY <1>1, <3>1, Divided
        <3>3. QED
            BY <3>2
    <2>3. QED
        BY <2>1, <2>2
<1>4. QED
    BY <1>2, <1>3

\* A window that recurs.
LEMMA ActiveAgain ==
    ASSUME NEW w \in [starts : Nat, ends : Nat, every : Nat], w.every # 0,
           w.ends > w.starts, w.ends - w.starts < w.every,
           NEW span \in [from : Nat, to : Nat], NEW t \in Nat, span.from <= t, t < span.to
    PROVE  Report!Active(w, t) <=> \E o \in Report!Occurrences(w, span) : o.from <= t /\ t < o.to
<1> DEFINE p == w.every
           length == w.ends - w.starts
           first == FirstFrom(w, span)
           all == {s \in first .. span.to - 1 : (s - first) % p = 0}
           O(s) == Report!Clip([from |-> s, to |-> s + length], span.from, span.to)
<1>1. p \in Nat \ {0} /\ length \in 1 .. p - 1
    OBVIOUS
<1>2. Report!Occurrences(w, span) = {i \in {O(s) : s \in all} : Report!Lasts(i)}
    <2>1. \A s \in Nat : s + w.ends - w.starts = s + length
        OBVIOUS
    <2>2. first \in Nat
        BY FirstStart
    <2>3. {Report!Clip(o, span.from, span.to) :
              o \in {[from |-> s, to |-> s + w.ends - w.starts] : s \in all}} = {O(s) : s \in all}
        BY <2>1, <2>2
    <2>4. QED
        BY <2>3 DEF Report!Occurrences, FirstFrom
<1>3. PICK m \in Nat : /\ first = w.starts + m * p
                       /\ \A x \in Nat : span.from <= x /\ w.starts <= x =>
                              m <= (x - w.starts) \div p
    BY FirstStart
<1>4. first \in Nat /\ m * p \in Nat
    <2> HIDE DEF p
    <2>1. QED
        BY <1>1, FirstStart, Products
<1> HIDE DEF first
\* An interval that is taken up begins whole periods after the window did.
<1>5. \A s \in Nat : s \in all <=> s < span.to /\ \E n \in Nat : n >= m /\ s = w.starts + n * p
    <2>1. ASSUME NEW s \in Nat, s \in all
          PROVE  s < span.to /\ \E n \in Nat : n >= m /\ s = w.starts + n * p
        <3>1. s - first \in Nat /\ (s - first) % p = 0 /\ s < span.to
            BY <1>4, <2>1
        <3>2. PICK k \in Nat : s - first = k * p
            <4>1. (s - first) \div p \in Nat
                  /\ s - first = ((s - first) \div p) * p + ((s - first) % p)
                BY <1>1, <3>1, Divided
            <4>2. ((s - first) \div p) * p \in Nat
                <5> HIDE DEF p
                <5>1. QED
                    BY <1>1, <4>1, Products
            <4>3. QED
                BY <3>1, <4>1, <4>2
        <3>3. PICK n \in Nat : n = m + k
            OBVIOUS
        <3>4. (n - m) * p = n * p - m * p /\ n * p \in Nat
            <4> HIDE DEF p
            <4>1. QED
                BY <1>1, <3>3, Products
        <3>5. n - m = k
            BY <3>3
        <3>6. n >= m /\ s = w.starts + n * p
            <4>1. k * p = n * p - m * p
                BY <3>4, <3>5
            <4> HIDE DEF p
            <4>2. QED
                BY <1>3, <1>4, <3>2, <3>3, <3>4, <4>1
        <3>7. QED
            BY <3>1, <3>6
    <2>2. ASSUME NEW s \in Nat, s < span.to, NEW n \in Nat, n >= m, s = w.starts + n * p
          PROVE  s \in all
        <3>1. PICK k \in Nat : k = n - m
            BY <2>2
        <3>2. k * p = n * p - m * p /\ n * p \in Nat /\ k * p \in Nat
            <4> HIDE DEF p
            <4>1. (n - m) * p = n * p - m * p /\ n * p \in Nat /\ k * p \in Nat
                BY <1>1, <2>2, <3>1, Products
            <4>2. QED
                BY <3>1, <4>1
        <3>3. s - first = k * p
            <4> HIDE DEF p
            <4>1. QED
                BY <1>3, <1>4, <2>2, <3>2
        <3>4. (k * p + 0) % p = 0 /\ k * p + 0 = k * p
            <4> HIDE DEF p
            <4>1. 0 \in 0 .. p - 1
                BY <1>1
            <4>2. (k * p + 0) % p = 0
                BY <1>1, <4>1, OneQuotient
            <4>3. QED
                BY <3>2, <4>2
        <3>5. first <= s
            <4> HIDE DEF p
            <4>1. QED
                BY <1>4, <3>2, <3>3
        <3>6. s \in first .. span.to - 1 /\ (s - first) % p = 0
            BY <1>4, <2>2, <3>3, <3>4, <3>5
        <3>7. QED
            BY <3>6
    <2>3. QED
        BY <2>1, <2>2
<1>6. all \subseteq Nat
    BY <1>4
<1> HIDE DEF all
<1>7. ASSUME Report!Active(w, t) PROVE \E o \in Report!Occurrences(w, span) : o.from <= t /\ t < o.to
    <2> DEFINE n == (t - w.starts) \div p
               s == w.starts + n * p
    <2>1. t >= w.starts /\ t - n * p < w.ends
        BY <1>7 DEF Report!Active
    <2>2. n \in Nat /\ t - w.starts = n * p + ((t - w.starts) % p) /\ (t - w.starts) % p \in 0 .. p - 1
        <3>1. t - w.starts \in Nat
            BY <2>1
        <3> HIDE DEF p
        <3>2. QED
            BY <1>1, <3>1, Divided
    <2>3. n >= m
        BY <1>3, <2>1, <2>2
    <2>4. n * p \in Nat
        <3> HIDE DEF n, p
        <3>1. QED
            BY <1>1, <2>2, Products
    <2>5. s \in Nat /\ s <= t /\ t < s + length /\ s < span.to
        <3> HIDE DEF n, p
        <3>1. QED
            BY <2>1, <2>2, <2>4
    <2>6. s \in all
        BY <1>5, <2>2, <2>3, <2>5
    <2> HIDE DEF s
    <2>7. O(s).from <= t /\ t < O(s).to /\ Report!Lasts(O(s))
        <3>1. s + length \in Nat
            BY <1>1, <2>5
        <3>2. QED
            BY <2>5, <3>1, Clipped
    <2>8. QED
        BY <1>2, <2>6, <2>7
<1>8. ASSUME NEW o \in Report!Occurrences(w, span), o.from <= t, t < o.to PROVE Report!Active(w, t)
    <2>1. PICK s \in all : o = O(s)
        BY <1>2
    <2>2. s \in Nat /\ s + length \in Nat
        BY <1>1, <1>6
    <2>3. s <= t /\ t < s + length
        BY <1>8, <2>1, <2>2, Clipped
    <2>4. PICK n \in Nat : n >= m /\ s = w.starts + n * p
        BY <1>5, <2>2
    <2>5. PICK r \in 0 .. p - 1 : r = t - s
        BY <1>1, <2>2, <2>3
    <2>6. n * p \in Nat
        <3> HIDE DEF p
        <3>1. QED
            BY <1>1, Products
    <2>7. t - w.starts = n * p + r /\ w.starts <= t
        <3> HIDE DEF p
        <3>1. QED
            BY <1>1, <2>2, <2>3, <2>4, <2>5, <2>6
    <2>8. (t - w.starts) \div p = n
        <3>1. (n * p + r) \div p = n
            <4> HIDE DEF p
            <4>1. QED
                BY <1>1, OneQuotient
        <3>2. QED
            BY <2>7, <3>1
    <2>9. t - n * p < w.ends
        <3> HIDE DEF p
        <3>1. QED
            BY <2>2, <2>3, <2>4, <2>6
    <2>10. QED
        BY <2>7, <2>8, <2>9 DEF Report!Active
<1>9. QED
    BY <1>7, <1>8

\* Of any window and any part of an outage: the instants that are taken off it
\* are those at which an alert would have been suppressed.
LEMMA SameInstants ==
    ASSUME NEW w \in Report!Window, NEW span \in [from : Nat, to : Nat], NEW t \in span.from .. span.to - 1
    PROVE  Report!Active(w, t) <=> \E o \in Report!Occurrences(w, span) : o.from <= t /\ t < o.to
<1>1. /\ w \in [starts : Nat, ends : Nat, every : Nat] /\ w.ends > w.starts
      /\ w.every # 0 => w.ends - w.starts < w.every
    <2>1. w \in [starts : Report!Time, ends : Report!Time, every : Period]
        BY DEF Report!Window
    <2>2. w = [starts |-> w.starts, ends |-> w.ends, every |-> w.every]
        BY <2>1
    <2>3. w.starts \in Nat /\ w.ends \in Nat /\ w.every \in Nat
        <3>1. w.starts \in Report!Time /\ w.ends \in Report!Time /\ w.every \in Period
            BY <2>1
        <3>2. Report!Time \subseteq Nat /\ Period \subseteq Nat
            BY UptimeParameters DEF Report!Time, Report!UptimeAssumption
        <3>3. QED
            BY <3>1, <3>2
    <2>4. w \in [starts : Nat, ends : Nat, every : Nat]
        BY <2>2, <2>3
    <2>5. QED
        BY <2>4 DEF Report!Window
<1>2. t \in Nat /\ span.from <= t /\ t < span.to
    OBVIOUS
<1>3. QED
    BY <1>1, <1>2, ActiveOnce, ActiveAgain

Outage == [opened : Report!Time, resolved : Report!Time \cup {Report!Open}]

UptimeInv ==
    /\ now \in Report!Time /\ configured \in [Configured -> Report!Window]
    /\ \E names \in SUBSET (WindowName \ Configured) : managed \in [names -> Report!Window]
    /\ incidents \in Seq(Outage)
    /\ \A i \in DOMAIN incidents : incidents[i].resolved = Report!Open => i = Len(incidents)
    /\ windows \in 0 .. MaxPuts

LEMMA UptimeInit == Report!Init => UptimeInv
<1> SUFFICES ASSUME Report!Init PROVE UptimeInv
    OBVIOUS
<1>1. 0 \in Report!Time /\ 0 \in 0 .. MaxPuts
    BY UptimeParameters DEF Report!UptimeAssumption, Report!Time
<1>2. managed \in [{} -> Report!Window] /\ {} \in SUBSET (WindowName \ Configured)
    <2>1. managed = <<>>
        BY DEF Report!Init
    <2>2. DOMAIN managed = {} /\ managed = [x \in {} |-> x]
        BY <2>1
    <2>3. QED
        BY <2>2
<1>3. incidents \in Seq(Outage) /\ DOMAIN incidents = {}
    <2>1. incidents = <<>>
        BY DEF Report!Init
    <2>2. QED
        BY <2>1
<1>4. QED
    BY <1>1, <1>2, <1>3 DEF Report!Init, UptimeInv

LEMMA UptimeStep == UptimeInv /\ [Report!Next]_(Report!vars) => UptimeInv'
<1> SUFFICES ASSUME UptimeInv, [Report!Next]_(Report!vars) PROVE UptimeInv'
    OBVIOUS
<1>0. /\ MaxReportTime \in Nat /\ MaxPuts \in Nat /\ Report!Open = MaxReportTime + 1 /\
            Report!Time = 0 .. MaxReportTime
      /\ now \in Report!Time
      /\ configured \in [Configured -> Report!Window] /\ incidents \in Seq(Outage) /\ windows \in 0 .. MaxPuts
      /\ \A i \in DOMAIN incidents : incidents[i].resolved = Report!Open => i = Len(incidents)
    BY UptimeParameters DEF UptimeInv, Report!UptimeAssumption, Report!Time, Report!Open
<1>1. PICK names \in SUBSET (WindowName \ Configured) : managed \in [names -> Report!Window]
    BY DEF UptimeInv
<1>2. ASSUME NEW name \in WindowName, NEW w \in Report!Window, Report!PutMaintenance(name, w) PROVE UptimeInv'
    <2>1. /\ name \notin Configured /\ windows < MaxPuts /\ windows' = windows + 1
          /\ managed' = [n \in DOMAIN managed \cup {name} |-> IF n = name THEN w ELSE managed[n]]
          /\ UNCHANGED <<now, configured, incidents>>
        BY <1>2 DEF Report!PutMaintenance, Report!Overwritten
    <2>2. names \cup {name} \in SUBSET (WindowName \ Configured)
        BY <2>1
    <2>3. managed' \in [names \cup {name} -> Report!Window]
        BY <1>1, <2>1
    <2>4. windows' \in 0 .. MaxPuts
        BY <1>0, <2>1
    <2>5. QED
        BY <1>0, <2>1, <2>2, <2>3, <2>4 DEF UptimeInv
<1>3. ASSUME NEW name \in WindowName, Report!DeleteMaintenance(name) PROVE UptimeInv'
    <2>1. /\ managed' = [n \in DOMAIN managed \ {name} |-> managed[n]]
          /\ UNCHANGED <<now, configured, incidents, windows>>
        BY <1>3 DEF Report!DeleteMaintenance
    <2>2. names \ {name} \in SUBSET (WindowName \ Configured)
        OBVIOUS
    <2>3. managed' \in [names \ {name} -> Report!Window]
        BY <1>1, <2>1
    <2>4. QED
        BY <1>0, <2>1, <2>2, <2>3 DEF UptimeInv
<1>4. CASE Report!Down
    <2> DEFINE new == [opened |-> now, resolved |-> Report!Open]
    <2>1. /\ incidents' = Append(incidents, new)
          /\ UNCHANGED <<now, configured, managed, windows>>
          /\ ~Report!IsDown
        BY <1>4 DEF Report!Down
    <2>2. new \in Outage
        BY <1>0 DEF Outage
    <2> HIDE DEF new
    <2>3. /\ incidents' \in Seq(Outage) /\ Len(incidents') = Len(incidents) + 1
          /\ \A i \in 1 .. Len(incidents) : incidents'[i] = incidents[i]
        BY <1>0, <2>1, <2>2
    <2>4. \A i \in 1 .. Len(incidents) : incidents[i].resolved # Report!Open
        <3>1. SUFFICES ASSUME NEW i \in 1 .. Len(incidents), incidents[i].resolved = Report!Open PROVE FALSE
            OBVIOUS
        <3>2. i = Len(incidents) /\ incidents # <<>>
            BY <1>0, <3>1
        <3>3. Report!IsDown
            BY <3>1, <3>2 DEF Report!IsDown, Report!Last
        <3>4. QED
            BY <2>1, <3>3
    <2>5. \A i \in DOMAIN incidents' : incidents'[i].resolved = Report!Open => i = Len(incidents')
        <3>1. SUFFICES ASSUME NEW i \in 1 .. Len(incidents) + 1, i # Len(incidents) + 1
                       PROVE  incidents'[i].resolved # Report!Open
            BY <2>3
        <3>2. i \in 1 .. Len(incidents)
            BY <1>0, <3>1
        <3>3. QED
            BY <2>3, <2>4, <3>2
    <2>6. QED
        BY <1>0, <1>1, <2>1, <2>3, <2>5 DEF UptimeInv
<1>5. CASE Report!Recovered
    <2> DEFINE n == Len(incidents)
    <2>1. /\ incidents' = [incidents EXCEPT ![n].resolved = now] /\ incidents # <<>>
          /\ UNCHANGED <<now, configured, managed, windows>>
        BY <1>5 DEF Report!Recovered, Report!IsDown
    <2>2. n \in Nat /\ n \in 1 .. n /\ DOMAIN incidents = 1 .. n /\ incidents[n] \in Outage
        BY <1>0, <2>1
    <2>3. PICK o \in Outage : o = [incidents[n] EXCEPT !.resolved = now] /\ o.resolved = now
        <3>1. incidents[n].opened \in Report!Time
            BY <2>2 DEF Outage
        <3>2. [opened |-> incidents[n].opened, resolved |-> now] \in Outage
            BY <1>0, <3>1 DEF Outage
        <3>3. [incidents[n] EXCEPT !.resolved = now] = [opened |-> incidents[n].opened, resolved |-> now]
            BY <2>2 DEF Outage
        <3> HIDE DEF n
        <3>4. QED
            BY <3>2, <3>3
    <2>4. incidents' = [incidents EXCEPT ![n] = o]
        BY <2>1, <2>3
    <2> HIDE DEF n
    <2>5. incidents' \in Seq(Outage) /\ Len(incidents') = n /\ DOMAIN incidents' = 1 .. n
        <3>1. incidents' \in [1 .. n -> Outage]
            BY <1>0, <2>2, <2>4
        <3>2. QED
            BY <2>2, <3>1
    <2>6. \A i \in 1 .. n : incidents'[i].resolved = Report!Open => i = n
        <3>1. now # Report!Open
            BY <1>0
        <3>2. QED
            BY <1>0, <2>2, <2>3, <2>4, <3>1 DEF n
    <2>7. QED
        BY <1>0, <1>1, <2>1, <2>5, <2>6 DEF UptimeInv
<1>6. CASE Report!Tick
    <2>1. now' \in Report!Time /\ UNCHANGED <<configured, managed, incidents, windows>>
        BY <1>0, <1>6 DEF Report!Tick
    <2>2. QED
        BY <1>0, <1>1, <2>1 DEF UptimeInv
<1>7. CASE UNCHANGED Report!vars
    BY <1>0, <1>1, <1>7 DEF UptimeInv, Report!vars
<1>8. QED
    BY <1>2, <1>3, <1>4, <1>5, <1>6, <1>7 DEF Report!Next

LEMMA UptimeTyped == UptimeInv => Report!TypeOK
<1> SUFFICES ASSUME UptimeInv PROVE Report!TypeOK
    OBVIOUS
<1>1. \A i \in DOMAIN incidents : incidents[i] \in Outage
    BY DEF UptimeInv
<1>2. QED
    BY <1>1 DEF UptimeInv, Report!TypeOK, Outage

\* Whatever windows there are: the instants of an outage that a window takes
\* off it are those at which it suppresses the alert (Maintenance.active and
\* occurrences).
MutedIsTakenOff ==
    \A w \in Report!Windows : \A from \in 0 .. now : \A to \in 0 .. now : \A t \in from .. to - 1 :
        Report!Active(w, t) <=>
            \E o \in Report!Occurrences(w, [from |-> from, to |-> to]) : o.from <= t /\ t < o.to

LEMMA MutedThen == UptimeInv => MutedIsTakenOff
<1> SUFFICES ASSUME UptimeInv, NEW w \in Report!Windows, NEW from \in 0 .. now, NEW to \in 0 .. now,
                    NEW t \in from .. to - 1
             PROVE  Report!Active(w, t) <=>
                    \E o \in Report!Occurrences(w, [from |-> from, to |-> to]) : o.from <= t /\ t < o.to
    BY DEF MutedIsTakenOff
<1>1. w \in Report!Window
    BY DEF UptimeInv, Report!Windows
<1>2. now \in Nat
    BY UptimeParameters DEF UptimeInv, Report!UptimeAssumption, Report!Time
<1>3. PICK span \in [from : Nat, to : Nat] : span = [from |-> from, to |-> to]
    <2>1. from \in Nat /\ to \in Nat
        BY <1>2
    <2>2. [from |-> from, to |-> to] \in [from : Nat, to : Nat]
        BY <2>1
    <2>3. QED
        BY <2>2
<1>4. t \in span.from .. span.to - 1
    BY <1>3
<1>5. QED
    BY <1>1, <1>3, <1>4, SameInstants

-----------------------------------------------------------------------------
(* The status page.  An export, a document and a page rest on what was     *)
(* reported at the time they carry, or later.                              *)

LEMMA PageParameters == Public!PageAssumption
BY Assumptions

\* The coordinator reported s of c at t or later.
Since(c, s, t) == shown[c] = s \/ (said[c][s] >= 0 /\ said[c][s] >= t)

RowsSince(rows, t) == \A c \in DOMAIN rows : rows[c] # "unknown" => Since(c, rows[c], t)

\* What a document or a page says was reported at t or later.
Backed(rows, component, t) ==
    /\ rows \in Public!Rows /\ RowsSince(rows, t)
    /\ component = "down" => \E c \in Public!Check : Since(c, "down", t)
    /\ component = "up" => \A c \in Public!Check : Since(c, "up", t)

ReportsKnown ==
    /\ pageClock \in Nat /\ shown \in Public!Rows
    /\ said \in [Public!Check -> [Public!Known -> Int]]
    /\ \A c \in Public!Check, s \in Public!Known : said[c][s] <= pageClock

RowsRead(rows, t) == rows \in Seq(Public!Status) /\ Len(rows) <= Checks /\ RowsSince(rows, t)

ExportBacked(e) ==
    /\ e.at = "checks" =>
          /\ e = [at |-> "checks", asked |-> e.asked, checks |-> e.checks]
          /\ e.asked \in Int /\ e.asked <= pageClock /\ RowsRead(e.checks, e.asked)
    /\ e.at = "components" =>
          /\ e = [at |-> "components", asked |-> e.asked, checks |-> e.checks,
                  generated |-> e.generated, members |-> e.members]
          /\ e.asked \in Int /\ e.generated \in Int /\ e.asked <= e.generated
          /\ e.generated <= pageClock /\ Len(e.checks) = Checks
          /\ RowsRead(e.checks, e.asked) /\ RowsRead(e.members, e.asked)

DocumentBacked(d) ==
    /\ d.generated \in Int /\ d.generated <= pageClock
    /\ Backed(d.checks, d.component, d.generated - FetchTimeout)

PageBacked(p) ==
    ~p.stale =>
        /\ p.generated \in Int /\ p.generated <= pageClock
        /\ Backed(p.rows, p.component, p.generated - FetchTimeout)
        /\ p.overall = "operational" => \A c \in Public!Check : p.rows[c] = "up"

PageInv ==
    /\ ReportsKnown /\ ExportBacked(export)
    /\ \A d \in documents : DocumentBacked(d)
    /\ run.at = "built" => PageBacked(run.page)
    /\ page = Public!NoPage \/ PageBacked(page)

LEMMA PageInit == Public!Init => PageInv
<1> SUFFICES ASSUME Public!Init PROVE PageInv
    OBVIOUS
<1>1. /\ pageClock = 0 /\ shown = [c \in Public!Check |-> "unknown"]
      /\ said = [c \in Public!Check |-> [s \in Public!Known |-> -1]]
      /\ export = Public!Idle /\ documents = {} /\ run = Public!Idle /\ page = Public!NoPage
    BY DEF Public!Init
<1>2. shown \in Public!Rows
    BY <1>1 DEF Public!Rows, Public!Status
<1>3. said \in [Public!Check -> [Public!Known -> Int]]
    BY <1>1
<1>4. \A c \in Public!Check, s \in Public!Known : said[c][s] = -1
    BY <1>1
<1>5. export.at = "idle" /\ run.at = "idle"
    BY <1>1 DEF Public!Idle
<1>6. QED
    BY <1>1, <1>2, <1>3, <1>4, <1>5 DEF PageInv, ReportsKnown, ExportBacked

\* What is reported changes at the moment up to which it was reported.
\* What is reported changes at the moment up to which it was reported.
LEMMA ReportChanges ==
    ASSUME ReportsKnown, NEW b \in Public!Check, NEW r \in Reported, Public!Report(b, r)
    PROVE  /\ ReportsKnown' /\ pageClock' = pageClock
           /\ \A c \in Public!Check, s \in Public!Known :
                 said'[c][s] = said[c][s] \/ (said'[c][s] = pageClock)
           /\ \A c \in Public!Check : \/ shown'[c] = shown[c]
                               \/ shown[c] = "unknown"
                               \/ said'[c][shown[c]] = pageClock
<1>1. /\ shown' = [shown EXCEPT ![b] = r] /\ pageClock' = pageClock
      /\ said' = IF shown[b] = "unknown" THEN said ELSE [said EXCEPT ![b][shown[b]] = pageClock]
    BY DEF Public!Report
<1>2. r \in Public!Status /\ shown[b] \in Public!Status
    BY PageParameters DEF Public!PageAssumption, ReportsKnown, Public!Rows
<1>3. shown' \in Public!Rows
    BY <1>1, <1>2 DEF ReportsKnown, Public!Rows
<1>4. CASE shown[b] = "unknown"
    BY <1>1, <1>3, <1>4 DEF ReportsKnown, Public!Rows
<1>5. CASE shown[b] # "unknown"
    <2>1. shown[b] \in Public!Known /\ said' = [said EXCEPT ![b] = [said[b] EXCEPT ![shown[b]] = pageClock]]
        BY <1>1, <1>2, <1>5 DEF Public!Known
    <2>2. said[b] \in [Public!Known -> Int] /\ pageClock \in Nat /\
             said \in [Public!Check -> [Public!Known -> Int]]
        BY DEF ReportsKnown
    <2>3. [said[b] EXCEPT ![shown[b]] = pageClock] \in [Public!Known -> Int]
        BY <2>1, <2>2
    <2>4. said' \in [Public!Check -> [Public!Known -> Int]]
        BY <2>1, <2>2, <2>3
    <2>5. said'[b] = [said[b] EXCEPT ![shown[b]] = pageClock]
          /\ \A c \in Public!Check : c # b => said'[c] = said[c]
        BY <2>1, <2>2
    <2>6. said'[b][shown[b]] = pageClock
          /\ \A s \in Public!Known : s # shown[b] => said'[b][s] = said[b][s]
        BY <2>1, <2>2, <2>5
    <2>7. \A c \in Public!Check, s \in Public!Known : said'[c][s] = said[c][s] \/ (said'[c][s] = pageClock)
        BY <2>5, <2>6
    <2>8. \A c \in Public!Check, s \in Public!Known : said'[c][s] <= pageClock
        BY <2>2, <2>7 DEF ReportsKnown
    <2>9. \A c \in Public!Check : c # b => shown'[c] = shown[c]
        BY <1>1 DEF ReportsKnown, Public!Rows
    <2>10. ReportsKnown'
        BY <1>1, <1>3, <2>2, <2>4, <2>8 DEF ReportsKnown
    <2>11. QED
        BY <1>1, <2>6, <2>7, <2>9, <2>10
<1>6. QED
    BY <1>4, <1>5

LEMMA OnlyReports ==
    ASSUME [Public!Next]_(Public!vars)
    PROVE  \/ \E b \in Public!Check, r \in Reported : Public!Report(b, r)
           \/ UNCHANGED <<shown, said>> /\ (pageClock' = pageClock \/ pageClock' = pageClock + 1)
BY DEF Public!Next, Public!vars, Public!Tick, Public!BeginExport, Public!ReadCheck, Public!StampExport,
   Public!ReadMember, Public!EndExport, Public!StartRun,
       Public!WritePage, Public!RunFails, Public!Fetch

LEMMA ReportsStay ==
    ASSUME ReportsKnown, [Public!Next]_(Public!vars)
    PROVE  ReportsKnown' /\ pageClock <= pageClock'
<1>1. CASE \E b \in Public!Check, r \in Reported : Public!Report(b, r)
    BY <1>1, ReportChanges DEF ReportsKnown
<1>2. CASE UNCHANGED <<shown, said>> /\ (pageClock' = pageClock \/ pageClock' = pageClock + 1)
    <2>1. \A c \in Public!Check, s \in Public!Known : said[c][s] \in Int
        BY DEF ReportsKnown
    <2>2. QED
        BY <1>2, <2>1 DEF ReportsKnown
<1>3. QED
    BY <1>1, <1>2, OnlyReports

\* What was once reported at t or later always was.
LEMMA SinceStays ==
    ASSUME ReportsKnown, [Public!Next]_(Public!vars), NEW c \in Public!Check, NEW s \in Public!Known,
           NEW CONSTANT t \in Int,
           t <= pageClock, Since(c, s, t)
    PROVE  Since(c, s, t)'
<1>1. said[c][s] \in Int /\ pageClock \in Nat /\ s # "unknown"
    BY DEF ReportsKnown, Public!Known
<1>2. CASE \E b \in Public!Check, r \in Reported : Public!Report(b, r)
    <2>1. said'[c][s] = said[c][s] \/ (said'[c][s] = pageClock)
        BY <1>2, ReportChanges
    <2>2. shown[c] = s => shown'[c] = s \/ said'[c][s] = pageClock
        BY <1>1, <1>2, ReportChanges
    <2>3. QED
        BY <1>1, <2>1, <2>2 DEF Since
<1>3. CASE UNCHANGED <<shown, said>>
    BY <1>3 DEF Since
<1>4. QED
    BY <1>2, <1>3, OnlyReports

LEMMA RowsStay ==
    ASSUME ReportsKnown, [Public!Next]_(Public!vars), NEW CONSTANT rows, NEW CONSTANT t \in Int, t <= pageClock,
           DOMAIN rows \subseteq Public!Check, \A c \in DOMAIN rows : rows[c] \in Public!Status,
           RowsSince(rows, t)
    PROVE  RowsSince(rows, t)'
<1>1. SUFFICES ASSUME NEW c \in DOMAIN rows, rows[c] # "unknown" PROVE Since(c, rows[c], t)'
    BY DEF RowsSince
<1>2. rows[c] \in Public!Known /\ c \in Public!Check /\ Since(c, rows[c], t)
    BY <1>1 DEF Public!Known, RowsSince
<1>3. QED
    BY <1>2, SinceStays

LEMMA BackedStays ==
    ASSUME ReportsKnown, [Public!Next]_(Public!vars), NEW CONSTANT rows, NEW CONSTANT component,
           NEW CONSTANT t \in Int, t <= pageClock, Backed(rows, component, t)
    PROVE  Backed(rows, component, t)'
<1>1. rows \in Public!Rows /\ RowsSince(rows, t)
    BY DEF Backed
<1>2. RowsSince(rows, t)'
    BY <1>1, RowsStay DEF Public!Rows
<1>3. "down" \in Public!Known /\ "up" \in Public!Known
    BY DEF Public!Known, Public!Status
<1>4. component = "down" => \E c \in Public!Check : Since(c, "down", t)'
    BY <1>3, SinceStays DEF Backed
<1>5. component = "up" => \A c \in Public!Check : Since(c, "up", t)'
    BY <1>3, SinceStays DEF Backed
<1>6. QED
    BY <1>1, <1>2, <1>4, <1>5 DEF Backed

LEMMA DocumentStays ==
    ASSUME ReportsKnown, [Public!Next]_(Public!vars), NEW CONSTANT d, DocumentBacked(d)
    PROVE  DocumentBacked(d)'
<1>1. FetchTimeout \in Nat /\ pageClock \in Nat /\ pageClock' \in Nat /\ pageClock <= pageClock'
    BY PageParameters, ReportsStay DEF Public!PageAssumption, ReportsKnown
<1>2. /\ d.generated \in Int /\ d.generated <= pageClock
      /\ Backed(d.checks, d.component, d.generated - FetchTimeout)
    BY DEF DocumentBacked
<1>3. d.generated - FetchTimeout \in Int /\ d.generated - FetchTimeout <= pageClock
    BY <1>1, <1>2
<1>4. Backed(d.checks, d.component, d.generated - FetchTimeout)'
    BY <1>2, <1>3, BackedStays
<1>5. QED
    BY <1>1, <1>2, <1>4 DEF DocumentBacked

LEMMA PageStays ==
    ASSUME ReportsKnown, [Public!Next]_(Public!vars), NEW CONSTANT p, PageBacked(p)
    PROVE  PageBacked(p)'
<1>1. FetchTimeout \in Nat /\ pageClock \in Nat /\ pageClock' \in Nat /\ pageClock <= pageClock'
    BY PageParameters, ReportsStay DEF Public!PageAssumption, ReportsKnown
<1>2. CASE p.stale
    BY <1>2 DEF PageBacked
<1>3. CASE ~p.stale
    <2>1. /\ p.generated \in Int /\ p.generated <= pageClock
          /\ Backed(p.rows, p.component, p.generated - FetchTimeout)
          /\ p.overall = "operational" => \A c \in Public!Check : p.rows[c] = "up"
        BY <1>3 DEF PageBacked
    <2>2. p.generated - FetchTimeout \in Int /\ p.generated - FetchTimeout <= pageClock
        BY <1>1, <2>1
    <2>3. Backed(p.rows, p.component, p.generated - FetchTimeout)'
        BY <2>1, <2>2, BackedStays
    <2>4. QED
        BY <1>1, <2>1, <2>3 DEF PageBacked
<1>4. QED
    BY <1>2, <1>3

LEMMA RowsReadStay ==
    ASSUME ReportsKnown, [Public!Next]_(Public!vars), NEW CONSTANT rows, NEW CONSTANT t \in Int, t <= pageClock,
           RowsRead(rows, t)
    PROVE  RowsRead(rows, t)'
<1>1. rows \in Seq(Public!Status) /\ Len(rows) <= Checks /\ RowsSince(rows, t)
    BY DEF RowsRead
<1>2. DOMAIN rows \subseteq Public!Check /\ \A c \in DOMAIN rows : rows[c] \in Public!Status
    BY <1>1, PageParameters DEF Public!PageAssumption, Public!Check
<1>3. RowsSince(rows, t)'
    BY <1>1, <1>2, RowsStay
<1>4. QED
    BY <1>1, <1>3 DEF RowsRead

LEMMA ExportStays ==
    ASSUME ReportsKnown, [Public!Next]_(Public!vars), NEW CONSTANT e, ExportBacked(e)
    PROVE  ExportBacked(e)'
<1>1. pageClock \in Nat /\ pageClock' \in Nat /\ pageClock <= pageClock'
    BY ReportsStay DEF ReportsKnown
<1>2. ASSUME e.at = "checks"
      PROVE  /\ e = [at |-> "checks", asked |-> e.asked, checks |-> e.checks]
             /\ e.asked \in Int /\ e.asked <= pageClock' /\ RowsRead(e.checks, e.asked)'
    <2>1. /\ e = [at |-> "checks", asked |-> e.asked, checks |-> e.checks]
          /\ e.asked \in Int /\ e.asked <= pageClock /\ RowsRead(e.checks, e.asked)
        BY <1>2 DEF ExportBacked
    <2>2. RowsRead(e.checks, e.asked)'
        BY <2>1, RowsReadStay
    <2>3. QED
        BY <1>1, <2>1, <2>2
<1>3. ASSUME e.at = "components"
      PROVE  /\ e = [at |-> "components", asked |-> e.asked, checks |-> e.checks,
                     generated |-> e.generated, members |-> e.members]
             /\ e.asked \in Int /\ e.generated \in Int /\ e.asked <= e.generated
             /\ e.generated <= pageClock' /\ Len(e.checks) = Checks
             /\ RowsRead(e.checks, e.asked)' /\ RowsRead(e.members, e.asked)'
    <2>1. /\ e = [at |-> "components", asked |-> e.asked, checks |-> e.checks,
                  generated |-> e.generated, members |-> e.members]
          /\ e.asked \in Int /\ e.generated \in Int /\ e.asked <= e.generated
          /\ e.generated <= pageClock /\ Len(e.checks) = Checks
          /\ RowsRead(e.checks, e.asked) /\ RowsRead(e.members, e.asked)
        BY <1>3 DEF ExportBacked
    <2>2. e.asked <= pageClock
        BY <1>1, <2>1
    <2>3. RowsRead(e.checks, e.asked)' /\ RowsRead(e.members, e.asked)'
        BY <2>1, <2>2, RowsReadStay
    <2>4. QED
        BY <1>1, <2>1, <2>3
<1>4. QED
    BY <1>2, <1>3 DEF ExportBacked

\* One more row, of what is reported now.
LEMMA OneMoreRow ==
    ASSUME ReportsKnown, NEW rows, NEW t \in Int, RowsRead(rows, t), Len(rows) < Checks
    PROVE  RowsRead(Public!WithNext(rows), t)
<1>1. Checks \in Nat /\ rows \in Seq(Public!Status) /\ Len(rows) \in Nat /\ shown \in Public!Rows
    BY PageParameters DEF Public!PageAssumption, RowsRead, ReportsKnown
<1>2. Len(rows) + 1 \in Public!Check
    BY <1>1 DEF Public!Check
<1>3. shown[Len(rows) + 1] \in Public!Status
    BY <1>1, <1>2 DEF Public!Rows
<1>4. /\ Public!WithNext(rows) \in Seq(Public!Status) /\ Len(Public!WithNext(rows)) = Len(rows) + 1
      /\ \A c \in 1 .. Len(rows) : Public!WithNext(rows)[c] = rows[c]
      /\ Public!WithNext(rows)[Len(rows) + 1] = shown[Len(rows) + 1]
    BY <1>1, <1>3 DEF Public!WithNext
<1>5. RowsSince(Public!WithNext(rows), t)
    <2>1. SUFFICES ASSUME NEW c \in 1 .. Len(rows) + 1, Public!WithNext(rows)[c] # "unknown"
                   PROVE  Since(c, Public!WithNext(rows)[c], t)
        BY <1>4 DEF RowsSince
    <2>2. CASE c \in 1 .. Len(rows)
        BY <1>1, <1>4, <2>1, <2>2 DEF RowsSince, RowsRead
    <2>3. CASE c = Len(rows) + 1
        BY <1>4, <2>3 DEF Since
    <2>4. QED
        BY <1>1, <2>2, <2>3
<1>6. QED
    BY <1>1, <1>4, <1>5 DEF RowsRead

\* An export goes on, and nothing that its rows rest on changes.
LEMMA ExportGoesOn ==
    ASSUME PageInv, Public!BeginExport \/ Public!ReadCheck \/ Public!StampExport \/ Public!ReadMember
    PROVE  ExportBacked(export)'
<1>1. /\ pageClock \in Nat /\ Checks \in Nat /\ ReportsKnown /\ ExportBacked(export)
      /\ UNCHANGED <<pageClock, shown, said>>
    BY PageParameters DEF PageInv, ReportsKnown, Public!PageAssumption, Public!BeginExport, Public!ReadCheck,
                          Public!StampExport, Public!ReadMember
<1>2. ASSUME NEW rows, NEW t \in Int, RowsRead(rows, t) PROVE RowsRead(rows, t)'
    BY <1>1, <1>2 DEF RowsRead, RowsSince, Since
<1>3. CASE Public!BeginExport
    <2>1. export' = [at |-> "checks", asked |-> pageClock, checks |-> <<>>]
        BY <1>3 DEF Public!BeginExport
    <2>2. RowsRead(<<>>, pageClock)
        BY <1>1 DEF RowsRead, RowsSince
    <2>3. export'.at = "checks" /\ export'.asked = pageClock /\ export'.checks = <<>>
        BY <2>1
    <2>4. QED
        BY <1>1, <1>2, <2>1, <2>2, <2>3 DEF ExportBacked
<1>4. CASE Public!ReadCheck
    <2>1. /\ export.at = "checks" /\ Len(export.checks) < Checks
          /\ export' = [export EXCEPT !.checks = Public!WithNext(export.checks)]
        BY <1>4 DEF Public!ReadCheck
    <2>2. PICK a, rows : a = export.asked /\ rows = export.checks
        OBVIOUS
    <2>3. /\ export = [at |-> "checks", asked |-> a, checks |-> rows]
          /\ a \in Int /\ a <= pageClock /\ RowsRead(rows, a)
        BY <1>1, <2>1, <2>2 DEF ExportBacked
    <2>4. export' = [at |-> "checks", asked |-> a, checks |-> Public!WithNext(rows)]
        BY <2>1, <2>2, <2>3
    <2>5. RowsRead(Public!WithNext(rows), a)
        BY <1>1, <2>1, <2>2, <2>3, OneMoreRow
    <2>6. QED
        BY <1>1, <1>2, <2>3, <2>4, <2>5 DEF ExportBacked
<1>5. CASE Public!StampExport \/ Public!ReadMember
    <2>1. PICK a, rows, g, members :
             /\ a \in Int /\ g \in Int /\ a <= g /\ g <= pageClock /\ Len(rows) = Checks
             /\ RowsRead(rows, a) /\ RowsRead(members, a)
             /\ export' = [at |-> "components", asked |-> a, checks |-> rows,
                           generated |-> g, members |-> members]
        <3>1. CASE Public!StampExport
            <4>1. /\ export.at = "checks" /\ Len(export.checks) = Checks
                  /\ export' = [at |-> "components", asked |-> export.asked,
                                checks |-> export.checks, generated |-> pageClock, members |-> <<>>]
                BY <3>1 DEF Public!StampExport
            <4>2. /\ export.asked \in Int /\ export.asked <= pageClock
                  /\ RowsRead(export.checks, export.asked)
                BY <1>1, <4>1 DEF ExportBacked
            <4>3. RowsRead(<<>>, export.asked)
                BY <1>1 DEF RowsRead, RowsSince
            <4>4. QED
                BY <1>1, <4>1, <4>2, <4>3
        <3>2. CASE Public!ReadMember
            <4>1. /\ export.at = "components" /\ Len(export.members) < Checks
                  /\ export' = [export EXCEPT !.members = Public!WithNext(export.members)]
                BY <3>2 DEF Public!ReadMember
            <4>2. PICK a, rows, g, members :
                     /\ a = export.asked /\ rows = export.checks
                     /\ g = export.generated /\ members = export.members
                OBVIOUS
            <4>3. /\ export = [at |-> "components", asked |-> a, checks |-> rows,
                               generated |-> g, members |-> members]
                  /\ a \in Int /\ g \in Int /\ a <= g /\ g <= pageClock /\ Len(rows) = Checks
                  /\ RowsRead(rows, a) /\ RowsRead(members, a) /\ Len(members) < Checks
                BY <1>1, <4>1, <4>2 DEF ExportBacked
            <4>4. export' = [at |-> "components", asked |-> a, checks |-> rows,
                             generated |-> g, members |-> Public!WithNext(members)]
                BY <4>1, <4>2, <4>3
            <4>5. RowsRead(Public!WithNext(members), a)
                BY <1>1, <4>3, OneMoreRow
            <4>6. QED
                BY <4>3, <4>4, <4>5
        <3>3. QED
            BY <1>5, <3>1, <3>2
    <2>2. /\ export'.at = "components" /\ export'.asked = a /\ export'.checks = rows
          /\ export'.generated = g /\ export'.members = members
        BY <2>1
    <2>3. RowsRead(rows, a)' /\ RowsRead(members, a)'
        BY <1>2, <2>1
    <2>4. QED
        BY <1>1, <2>1, <2>2, <2>3 DEF ExportBacked
<1>6. QED
    BY <1>3, <1>4, <1>5

\* The component of a document is that of the rows read for it.
LEMMA RolledSince ==
    ASSUME ReportsKnown, NEW rows, NEW t \in Int, RowsRead(rows, t), Len(rows) = Checks
    PROVE  /\ rows \in Public!Rows
           /\ Public!Roll(rows) = "down" => \E c \in Public!Check : Since(c, "down", t)
           /\ Public!Roll(rows) = "up" => \A c \in Public!Check : Since(c, "up", t)
<1>1. Checks \in Nat /\ rows \in Seq(Public!Status)
    BY PageParameters DEF Public!PageAssumption, RowsRead
<1>2. rows \in [Public!Check -> Public!Status] /\ DOMAIN rows = Public!Check
    BY <1>1 DEF Public!Check
<1>3. ASSUME NEW c \in Public!Check, rows[c] # "unknown" PROVE Since(c, rows[c], t)
    BY <1>2, <1>3 DEF RowsRead, RowsSince
<1>4. ASSUME Public!Roll(rows) = "down" PROVE \E c \in Public!Check : Since(c, "down", t)
    <2>1. "down" \in {rows[c] : c \in Public!Check}
        BY <1>4 DEF Public!Roll
    <2>2. PICK c \in Public!Check : rows[c] = "down"
        BY <2>1
    <2>3. QED
        BY <1>3, <2>2
<1>5. ASSUME Public!Roll(rows) = "up", NEW c \in Public!Check PROVE Since(c, "up", t)
    <2>1. rows[c] \notin {"down", "unknown", "warning"}
        BY <1>5 DEF Public!Roll
    <2>2. rows[c] = "up"
        BY <1>2, <2>1 DEF Public!Status
    <2>3. QED
        BY <1>3, <2>2
<1>6. QED
    BY <1>2, <1>4, <1>5 DEF Public!Rows

\* An earlier time is the weaker claim.
LEMMA SinceEarlier ==
    ASSUME ReportsKnown, NEW c \in Public!Check, NEW s \in Public!Known, NEW t \in Int, NEW u \in Int,
           u <= t, Since(c, s, t)
    PROVE  Since(c, s, u)
<1>1. said[c][s] \in Int
    BY DEF ReportsKnown
<1>2. QED
    BY <1>1 DEF Since

LEMMA ExportEnds ==
    ASSUME PageInv, Public!EndExport, NEW d \in documents' \ documents
    PROVE  DocumentBacked(d)
<1> DEFINE e == export
           t == e.generated - FetchTimeout
<1>1. /\ e.at = "components" /\ pageClock - e.asked <= FetchTimeout /\ Len(e.members) = Checks
      /\ d = [generated |-> e.generated, checks |-> e.checks, component |-> Public!Roll(e.members)]
    BY DEF Public!EndExport
<1>2. /\ ReportsKnown /\ pageClock \in Nat /\ FetchTimeout \in Nat
      /\ e.asked \in Int /\ e.generated \in Int /\ e.generated <= pageClock /\ Len(e.checks) = Checks
      /\ RowsRead(e.checks, e.asked) /\ RowsRead(e.members, e.asked)
    BY <1>1, PageParameters DEF PageInv, ReportsKnown, ExportBacked, Public!PageAssumption
<1>3. d.generated = e.generated /\ d.checks = e.checks /\ d.component = Public!Roll(e.members)
    BY <1>1
<1>4. t \in Int /\ t <= e.asked
    BY <1>1, <1>2
<1>5. "down" \in Public!Known /\ "up" \in Public!Known
    BY DEF Public!Known, Public!Status
<1> HIDE DEF e, t
<1>6. e.checks \in Public!Rows /\ DOMAIN e.checks = Public!Check
    BY <1>2, RolledSince DEF Public!Rows
<1>7. RowsSince(e.checks, t)
    <2>1. SUFFICES ASSUME NEW c \in Public!Check, e.checks[c] # "unknown" PROVE Since(c, e.checks[c], t)
        BY <1>6 DEF RowsSince
    <2>2. e.checks[c] \in Public!Known /\ Since(c, e.checks[c], e.asked)
        BY <1>2, <1>6, <2>1 DEF Public!Known, Public!Rows, RowsRead, RowsSince
    <2>3. QED
        BY <1>2, <1>4, <2>2, SinceEarlier
<1>8. /\ Public!Roll(e.members) = "down" => \E c \in Public!Check : Since(c, "down", e.asked)
      /\ Public!Roll(e.members) = "up" => \A c \in Public!Check : Since(c, "up", e.asked)
    BY <1>1, <1>2, RolledSince DEF e
<1>9. /\ Public!Roll(e.members) = "down" => \E c \in Public!Check : Since(c, "down", t)
      /\ Public!Roll(e.members) = "up" => \A c \in Public!Check : Since(c, "up", t)
    BY <1>2, <1>4, <1>5, <1>8, SinceEarlier
<1>10. Backed(e.checks, Public!Roll(e.members), t)
    BY <1>6, <1>7, <1>9 DEF Backed
<1>11. QED
    BY <1>2, <1>3, <1>10 DEF DocumentBacked, t

\* What is built says what the document does, or that it is stale.
LEMMA BuiltBacked ==
    ASSUME NEW d, DocumentBacked(d), NEW at
    PROVE  PageBacked(Public!Build(d, at))
<1> DEFINE stale == at - d.generated > MaxAge
           rows == [c \in Public!Check |-> IF stale THEN "unknown" ELSE d.checks[c]]
           component == IF stale THEN "unknown" ELSE d.component
           overall == Public!Overall(stale, {rows[c] : c \in Public!Check} \cup {component})
           built == [generated |-> d.generated, stale |-> stale, rows |-> rows,
                     component |-> component, overall |-> overall]
<1>1. Public!Build(d, at) = built
    BY DEF Public!Build
<1>2. /\ built.generated = d.generated /\ (built.stale <=> stale) /\ built.rows = rows
      /\ built.component = component /\ built.overall = overall
    OBVIOUS
<1>3. CASE stale
    BY <1>1, <1>2, <1>3 DEF PageBacked
<1>4. CASE ~stale
    <2>1. /\ d.generated \in Int /\ d.generated <= pageClock
          /\ Backed(d.checks, d.component, d.generated - FetchTimeout)
        BY DEF DocumentBacked
    <2>2. d.checks \in [Public!Check -> Public!Status]
        BY <2>1 DEF Backed, Public!Rows
    <2>3. rows = d.checks /\ component = d.component
        BY <1>4, <2>2
    <2>4. ASSUME overall = "operational", NEW c \in Public!Check PROVE rows[c] = "up"
        <3>1. rows[c] \notin {"down", "warning", "unknown"}
            BY <1>4, <2>4 DEF Public!Overall
        <3>2. rows[c] \in Public!Status
            BY <2>2, <2>3
        <3>3. QED
            BY <3>1, <3>2 DEF Public!Status
    <2> HIDE DEF stale, rows, component, overall, built
    <2>5. QED
        BY <1>1, <1>2, <2>1, <2>3, <2>4 DEF PageBacked
<1>5. QED
    BY <1>3, <1>4

LEMMA PageStep == PageInv /\ [Public!Next]_(Public!vars) => PageInv'
<1> SUFFICES ASSUME PageInv, [Public!Next]_(Public!vars) PROVE PageInv'
    OBVIOUS
<1>1. ReportsKnown /\ ReportsKnown'
    BY ReportsStay DEF PageInv
<1>2. ExportBacked(export)'
    <2>1. PICK e : e = export
        OBVIOUS
    <2>2. ExportBacked(e)'
        BY <1>1, <2>1, ExportStays DEF PageInv
    <2>3. CASE Public!BeginExport \/ Public!ReadCheck \/ Public!StampExport \/ Public!ReadMember
        BY <2>3, ExportGoesOn
    <2>4. CASE export' = export
        BY <2>1, <2>2, <2>4
    <2>5. CASE Public!EndExport
        <3>1. export'.at = "idle"
            BY <2>5 DEF Public!EndExport, Public!Idle
        <3>2. QED
            BY <3>1 DEF ExportBacked
    <2>6. QED
        BY <2>3, <2>4, <2>5 DEF Public!Next, Public!vars, Public!Report, Public!Tick, Public!StartRun,
           Public!WritePage, Public!RunFails, Public!Fetch
<1>3. ASSUME NEW d \in documents' PROVE DocumentBacked(d)'
    <2>1. DocumentBacked(d)
        <3>1. CASE d \in documents
            BY <3>1 DEF PageInv
        <3>2. CASE d \notin documents
            <4>1. Public!EndExport
                BY <1>3, <3>2 DEF Public!Next, Public!vars, Public!Report, Public!Tick, Public!BeginExport,
                   Public!ReadCheck, Public!StampExport,
                       Public!ReadMember, Public!StartRun, Public!WritePage, Public!RunFails, Public!Fetch
            <4>2. QED
                BY <1>3, <3>2, <4>1, ExportEnds
        <3>3. QED
            BY <3>1, <3>2
    <2>2. QED
        BY <1>1, <2>1, DocumentStays
<1>4. ASSUME run'.at = "built" PROVE PageBacked(run.page)'
    <2>1. PICK p : p = run'.page
        OBVIOUS
    <2>2. PageBacked(p)
        <3>1. CASE run' = run
            BY <1>4, <2>1, <3>1 DEF PageInv
        <3>2. CASE run' # run
            <4>1. PICK d \in documents : Public!Fetch(d)
                BY <1>4, <3>2 DEF Public!Next, Public!vars, Public!Report, Public!Tick, Public!BeginExport,
                   Public!ReadCheck, Public!StampExport,
                       Public!ReadMember, Public!EndExport, Public!StartRun, Public!WritePage, Public!RunFails,
                          Public!Idle
            <4>2. p = Public!Build(d, run.now)
                BY <2>1, <4>1 DEF Public!Fetch
            <4>3. QED
                BY <4>1, <4>2, BuiltBacked DEF PageInv
        <3>3. QED
            BY <3>1, <3>2
    <2>3. QED
        BY <1>1, <2>1, <2>2, PageStays
<1>5. (page = Public!NoPage \/ PageBacked(page))'
    <2>1. PICK p : p = page'
        OBVIOUS
    <2>2. p = Public!NoPage \/ PageBacked(p)
        <3>1. page' = page \/ (run.at = "built" /\ page' = run.page)
            BY DEF Public!Next, Public!vars, Public!Report, Public!Tick, Public!BeginExport, Public!ReadCheck,
               Public!StampExport,
                   Public!ReadMember, Public!EndExport, Public!StartRun, Public!WritePage, Public!RunFails,
                      Public!Fetch
        <3>2. QED
            BY <2>1, <3>1 DEF PageInv
    <2>3. QED
        BY <1>1, <2>1, <2>2, PageStays
<1>6. QED
    BY <1>1, <1>2, <1>3, <1>4, <1>5 DEF PageInv

LEMMA CurrentThen == PageInv => Public!PageIsCurrent
<1>1. ASSUME PageInv, page # Public!NoPage, ~Public!Flagged
      PROVE  /\ \A c \in Public!Check : page.rows[c] # "unknown" => Public!Lately(c, page.rows[c])
             /\ page.component = "down" => \E c \in Public!Check : Public!Lately(c, "down")
             /\ page.component = "up" \/ page.overall = "operational" =>
                    \A c \in Public!Check : Public!Lately(c, "up")
    <2> DEFINE t == page.generated - FetchTimeout
    <2>1. /\ ~page.stale /\ ~(pageClock - page.generated > MaxAge) /\ ReportsKnown
          /\ MaxAge \in Nat /\ FetchTimeout \in Nat /\ pageClock \in Nat
        BY <1>1, PageParameters DEF PageInv, Public!Flagged, ReportsKnown, Public!PageAssumption
    <2>2. /\ page.generated \in Int /\ Backed(page.rows, page.component, t)
          /\ page.overall = "operational" => \A c \in Public!Check : page.rows[c] = "up"
        BY <1>1, <2>1 DEF PageInv, PageBacked
    <2>3. t \in Int /\ pageClock - t <= MaxAge + FetchTimeout
        BY <2>1, <2>2
    <2> HIDE DEF t
    <2>4. ASSUME NEW c \in Public!Check, NEW s \in Public!Known, Since(c, s, t) PROVE Public!Lately(c, s)
        <3>1. said[c][s] \in Int
            BY <2>1 DEF ReportsKnown
        <3>2. QED
            BY <2>1, <2>3, <2>4, <3>1 DEF Since, Public!Lately
    <2>5. page.rows \in [Public!Check -> Public!Status] /\ "down" \in Public!Known /\ "up" \in Public!Known
        BY <2>2 DEF Backed, Public!Rows, Public!Known, Public!Status
    <2>6. ASSUME NEW c \in Public!Check, page.rows[c] # "unknown" PROVE Public!Lately(c, page.rows[c])
        <3>1. page.rows[c] \in Public!Known /\ Since(c, page.rows[c], t)
            BY <2>2, <2>5, <2>6 DEF Public!Known, Backed, RowsSince
        <3>2. QED
            BY <2>4, <3>1
    <2>7. page.component = "down" => \E c \in Public!Check : Public!Lately(c, "down")
        BY <2>2, <2>4, <2>5 DEF Backed
    <2>8. ASSUME page.component = "up" \/ page.overall = "operational", NEW c \in Public!Check
          PROVE  Public!Lately(c, "up")
        <3>1. CASE page.component = "up"
            BY <2>2, <2>4, <2>5, <3>1 DEF Backed
        <3>2. CASE page.overall = "operational"
            <4>1. page.rows[c] = "up"
                BY <2>2, <3>2
            <4>2. QED
                BY <2>6, <4>1
        <3>3. QED
            BY <2>8, <3>1, <3>2
    <2>9. QED
        BY <2>6, <2>7, <2>8
<1>2. QED
    BY <1>1 DEF Public!PageIsCurrent

-----------------------------------------------------------------------------
(* What is known of each machine while it is the one that moves.           *)

SwitchInv == machine = "switch" => Switch!TypeOK /\ NoticeInv /\ CalmInv
MonitorsInv == machine = "catalogue" => CatInv
AccountsInv == machine = "accounts" => Accounts!AdminInv /\ Accounts!StoreInv
TokensInv == machine = "tokens" => Tokens!StoreInv
WaitingInv == machine = "mutexes" => MutexInv
ByHandInv == machine = "by hand" => ByHand!NetInv
AutomaticInv == machine = "automatic" => Automatic!NetInv
ProberInv == machine = "prober" => Prober!ServedInv
PublicInv == machine = "page" => PageInv
NoticesKept == machine = "notices" => NoticesInv
ObservedInv == machine = "history" => HistoryInv
ReportInv == machine = "uptime" => UptimeInv

\* Each machine begins as its module has it.
LEMMA AllStart ==
    ASSUME ServicesInit
    PROVE  /\ Switch!Init /\ Monitors!Init /\ Waiting!Init /\ Prober!Init /\ Public!Init
           /\ Page!Init /\ Observed!Init
           /\ machine = "uptime" => Report!Init
           /\ machine = "accounts" => Accounts!Init
           /\ machine = "tokens" => Tokens!Init
           /\ machine = "by hand" => ByHand!Init
           /\ machine = "automatic" => Automatic!Init
BY DEF ServicesInit

\* A step is one of the machine that moves, in its own module.
LEMMA OneMoves ==
    ASSUME [ServicesNext]_servicesVars
    PROVE  /\ machine' = machine
           /\ machine = "switch" => [Switch!Next]_(Switch!vars)
           /\ machine = "catalogue" => [Monitors!Next]_(Monitors!vars)
           /\ machine = "accounts" => [Accounts!Next]_(Accounts!vars)
           /\ machine = "tokens" => [Tokens!Next]_(Tokens!vars)
           /\ machine = "mutexes" => [Waiting!Next]_(Waiting!vars)
           /\ machine = "by hand" => [ByHand!Next]_(ByHand!vars)
           /\ machine = "automatic" => [Automatic!Next]_(Automatic!vars)
           /\ machine = "prober" => [Prober!Next]_(Prober!vars)
           /\ machine = "page" => [Public!Next]_(Public!vars)
           /\ machine = "notices" => [Page!Next]_(Page!vars)
           /\ machine = "history" => [Observed!Next]_(Observed!vars)
           /\ machine = "uptime" => [Report!Next]_(Report!vars)
<1>1. CASE ServicesNext
    BY <1>1 DEF ServicesNext
<1>2. CASE UNCHANGED servicesVars
    <2>1. UNCHANGED Switch!vars
        BY <1>2 DEF servicesVars, switchVars, Switch!vars
    <2>2. UNCHANGED Monitors!vars
        BY <1>2 DEF servicesVars, catalogueVars, Monitors!vars
    <2>3. UNCHANGED Accounts!vars
        BY <1>2 DEF servicesVars, accessVars, Accounts!vars
    <2>4. UNCHANGED Tokens!vars
        BY <1>2 DEF servicesVars, accessVars, Tokens!vars
    <2>5. UNCHANGED Waiting!vars
        BY <1>2 DEF servicesVars, mutexVars, Waiting!vars
    <2>6. UNCHANGED ByHand!vars
        BY <1>2 DEF servicesVars, networkVars, ByHand!vars
    <2>7. UNCHANGED Automatic!vars
        BY <1>2 DEF servicesVars, networkVars, Automatic!vars
    <2>8. UNCHANGED Prober!vars
        BY <1>2 DEF servicesVars, proberVars, Prober!vars
    <2>9. UNCHANGED Public!vars
        BY <1>2 DEF servicesVars, pageVars, Public!vars
    <2>10. UNCHANGED Page!vars
        BY <1>2 DEF servicesVars, noticesVars, Page!vars
    <2>11. UNCHANGED Observed!vars
        BY <1>2 DEF servicesVars, historyVars, Observed!vars
    <2>12. UNCHANGED Report!vars
        BY <1>2 DEF servicesVars, uptimeVars, Report!vars
    <2>13. QED
        BY <1>2, <2>1, <2>2, <2>3, <2>4, <2>5, <2>6, <2>7, <2>8, <2>9, <2>10, <2>11, <2>12
        DEF servicesVars
<1>3. QED
    BY <1>1, <1>2

LEMMA ServicesStart ==
    ASSUME ServicesInit
    PROVE  /\ SwitchInv /\ MonitorsInv /\ AccountsInv /\ TokensInv /\ WaitingInv
           /\ ByHandInv /\ AutomaticInv /\ ProberInv /\ PublicInv
           /\ NoticesKept /\ ObservedInv /\ ReportInv
<1>1. Switch!SwitchAssumption /\ Waiting!MutexesAssumption
    BY Assumptions
<1>2. SwitchInv /\ MonitorsInv /\ WaitingInv /\ PublicInv /\ NoticesKept /\ ObservedInv
    BY <1>1, AllStart, SwitchStart, CatInit, MutexInit, PageInit, NoticesInit, HistoryInit
    DEF SwitchInv, MonitorsInv, WaitingInv, PublicInv, NoticesKept, ObservedInv
<1>3. AccountsInv /\ TokensInv
    BY AllStart, Accounts!AdminInit, Accounts!StoreInit, Tokens!StoreInit DEF AccountsInv, TokensInv
<1>4. ByHandInv /\ AutomaticInv /\ ProberInv
    BY Assumptions, AllStart, ByHand!NetInit, Automatic!NetInit, Prober!ServedInit
    DEF ByHandInv, AutomaticInv, ProberInv
<1>5. ReportInv
    BY AllStart, UptimeInit DEF ReportInv
<1>6. QED
    BY <1>2, <1>3, <1>4, <1>5

LEMMA SwitchMoves == SwitchInv /\ [ServicesNext]_servicesVars => SwitchInv'
<1>1. Switch!SwitchAssumption
    BY Assumptions
<1>2. ASSUME Switch!TypeOK, NoticeInv, CalmInv, [Switch!Next]_(Switch!vars)
      PROVE  (Switch!TypeOK /\ NoticeInv /\ CalmInv)'
    <2>1. Switch!TypeOK'
        BY <1>1, <1>2, SwitchTypeStep
    <2>2. QED
        BY <1>1, <1>2, <2>1, NoticeStep, AwaitedStep, CountsStep, HeardStep DEF CalmInv
<1>3. QED
    BY <1>2, OneMoves DEF SwitchInv

LEMMA MonitorsMove == MonitorsInv /\ [ServicesNext]_servicesVars => MonitorsInv'
BY OneMoves, CatStep DEF MonitorsInv

LEMMA AccountsMove == AccountsInv /\ [ServicesNext]_servicesVars => AccountsInv'
BY OneMoves, Accounts!AdminStep, Accounts!StoreStep DEF AccountsInv

LEMMA TokensMove == TokensInv /\ [ServicesNext]_servicesVars => TokensInv'
BY OneMoves, Tokens!StoreStep DEF TokensInv

LEMMA WaitingMoves == WaitingInv /\ [ServicesNext]_servicesVars => WaitingInv'
<1>1. Waiting!MutexesAssumption
    BY Assumptions
<1>2. QED
    BY <1>1, OneMoves, MutexStep DEF WaitingInv

LEMMA ByHandMoves == ByHandInv /\ [ServicesNext]_servicesVars => ByHandInv'
BY OneMoves, ByHand!NetStep DEF ByHandInv

LEMMA AutomaticMoves == AutomaticInv /\ [ServicesNext]_servicesVars => AutomaticInv'
BY OneMoves, Automatic!NetStep DEF AutomaticInv

LEMMA ProberMoves == ProberInv /\ [ServicesNext]_servicesVars => ProberInv'
BY Assumptions, OneMoves, Prober!ServedStep DEF ProberInv

LEMMA PublicMoves == PublicInv /\ [ServicesNext]_servicesVars => PublicInv'
BY OneMoves, PageStep DEF PublicInv

LEMMA NoticesMove == NoticesKept /\ [ServicesNext]_servicesVars => NoticesKept'
BY OneMoves, NoticesStep DEF NoticesKept

LEMMA ObservedMoves == ObservedInv /\ [ServicesNext]_servicesVars => ObservedInv'
BY OneMoves, HistoryStep DEF ObservedInv

LEMMA ReportMoves == ReportInv /\ [ServicesNext]_servicesVars => ReportInv'
BY OneMoves, UptimeStep DEF ReportInv
-----------------------------------------------------------------------------
(* The theorems.                                                           *)

\* Every variable of the dead-man's switch keeps its type, whatever the
\* intervals are.
THEOREM SwitchTypes == ServicesSpec => [](machine = "switch" => Switch!TypeOK)
<1>1. SwitchInv => (machine = "switch" => Switch!TypeOK)
    BY DEF SwitchInv
<1>2. QED
    BY <1>1, ServicesStart, SwitchMoves, PTL DEF ServicesSpec

\* However late, often or out of order the network delivers what the coordinator
\* signed, the watcher declares it dead within two grace periods, the skew and
\* one look after its last beat.
THEOREM DeathNoticed == ServicesSpec => []DeathIsNoticed
<1>1. SwitchInv => DeathIsNoticed
    BY Assumptions, NoticedThen DEF SwitchInv, DeathIsNoticed
<1>2. QED
    BY <1>1, ServicesStart, SwitchMoves, PTL DEF ServicesSpec

\* When nothing has gone wrong for a beat, its answer and the skew, the watcher
\* holds the coordinator alive, and the coordinator no longer believes that
\* nobody watches it.
THEOREM CalmRestores == ServicesSpec => []CalmIsAlive
<1>1. SwitchInv => CalmIsAlive
    BY Assumptions, CalmThen DEF SwitchInv, CalmIsAlive
<1>2. QED
    BY <1>1, ServicesStart, SwitchMoves, PTL DEF ServicesSpec

\* A change of monitors that was answered is in memory and in the file until as
\* many newer ones as are kept have pushed it out, and between changes the
\* monitors in force are those of the newest revision, through failed writes,
\* undone changes, crashes and what others persist in between (mutateMonitors).
THEOREM AnswersAreKept == ServicesSpec => []AnsweredIsKept
<1>1. MonitorsInv => AnsweredIsKept
    BY KeptThen DEF MonitorsInv, AnsweredIsKept
<1>2. QED
    BY <1>1, ServicesStart, MonitorsMove, PTL DEF ServicesSpec

\* The revisions are numbered in ascending order, no more of them are kept than
\* the limit, and all of them are catalogues that the components allow.
THEOREM CatalogueTypes == ServicesSpec => [](machine = "catalogue" => Monitors!TypeOK)
<1>1. MonitorsInv => (machine = "catalogue" => Monitors!TypeOK)
    BY CatalogueTyped DEF MonitorsInv
<1>2. QED
    BY <1>1, ServicesStart, MonitorsMove, PTL DEF ServicesSpec

\* As long as no handler writes over what it has not read, an enabled
\* administrator remains (AdminRemains of Access_proofs).
THEOREM AdminsRemain == ServicesSpec => []AnAdminRemains
<1>1. AccountsInv => AnAdminRemains
    BY Accounts!AdminsThen DEF AccountsInv, AnAdminRemains
<1>2. QED
    BY <1>1, ServicesStart, AccountsMove, PTL DEF ServicesSpec

\* What handlers answered is in the state file when they rest, and a token whose
\* revocation was once written is never good again (AnswersAreStored of
\* Access_proofs).
THEOREM AccessIsStored == ServicesSpec => []AnsweredIsStored
<1>1. AccountsInv /\ TokensInv => AnsweredIsStored
    BY Accounts!StoredThen, Tokens!StoredThen DEF AccountsInv, TokensInv, AnsweredIsStored
<1>2. QED
    BY <1>1, ServicesStart, AccountsMove, TokensMove, PTL DEF ServicesSpec

\* A page that does not say that it is out of date shows what was reported
\* within max_age and the time of a fetch, however old the document that a run
\* was served and however long the export and the run took (build, exportPage).
THEOREM PageStaysCurrent == ServicesSpec => []PageIsCurrent
<1>1. PublicInv => PageIsCurrent
    BY CurrentThen DEF PublicInv, PageIsCurrent
<1>2. QED
    BY <1>1, ServicesStart, PublicMoves, PTL DEF ServicesSpec

\* Whatever edits and updates overlap, each notice says what was posted of it, in
\* order, is in the state of the last update and knows since when (EditNotice
\* writes a copy back that it took before it let go of mu).
THEOREM TimelinesKept == ServicesSpec => []TimelineKept
<1>1. NoticesKept => TimelineKept
    BY TimelineThen DEF NoticesKept, TimelineKept
<1>2. QED
    BY <1>1, ServicesStart, NoticesMove, PTL DEF ServicesSpec

\* No notice goes but by deletion or after Retention, however many there are, and
\* none that was deleted comes back through an edit (CreateNotice, DeleteNotice).
THEOREM NoticesRemain == ServicesSpec => []NoticesStay
<1>1. NoticesKept => NoticesStay
    BY StayThen DEF NoticesKept, NoticesStay
<1>2. QED
    BY <1>1, ServicesStart, NoticesMove, PTL DEF ServicesSpec

\* There are never more notices than the limit, nor updates of one.
THEOREM NoticeTypes == ServicesSpec => [](machine = "notices" => Page!TypeOK)
<1>1. NoticesKept => (machine = "notices" => Page!TypeOK)
    BY NoticesTyped DEF NoticesKept
<1>2. QED
    BY <1>1, ServicesStart, NoticesMove, PTL DEF ServicesSpec

\* Whatever order observations come in, and whatever appends, compactions and
\* restarts there are: an observation is missing from memory, or from what a
\* restart would load, only if it is too old or newer ones fill the room
\* (appendHistoryLocked, loadHistory).
THEOREM NewestAreKept == ServicesSpec => []NewestKept
<1>1. ObservedInv => NewestKept
    BY NewestThen DEF ObservedInv, NewestKept
<1>2. QED
    BY <1>1, ServicesStart, ObservedMoves, PTL DEF ServicesSpec

\* The memory never exceeds its limit, and a line without an end is garbage.
THEOREM HistoryTypes == ServicesSpec => [](machine = "history" => Observed!TypeOK)
<1>1. ObservedInv => (machine = "history" => Observed!TypeOK)
    BY HistoryTyped DEF ObservedInv
<1>2. QED
    BY <1>1, ServicesStart, ObservedMoves, PTL DEF ServicesSpec

\* Whatever windows are configured, put, replaced and deleted, of any length and
\* period: the instants that a window takes off an outage are those at which it
\* suppresses the alert (occurrences and Maintenance.active).
THEOREM MaintenanceAgrees == ServicesSpec => [](machine = "uptime" => MutedIsTakenOff)
<1>1. ReportInv => (machine = "uptime" => MutedIsTakenOff)
    BY MutedThen DEF ReportInv
<1>2. QED
    BY <1>1, ServicesStart, ReportMoves, PTL DEF ServicesSpec

\* Windows and outages keep to their types, and only the last outage is open.
THEOREM UptimeTypes == ServicesSpec => [](machine = "uptime" => Report!TypeOK)
<1>1. ReportInv => (machine = "uptime" => Report!TypeOK)
    BY UptimeTyped DEF ReportInv
<1>2. QED
    BY <1>1, ServicesStart, ReportMoves, PTL DEF ServicesSpec

\* No goroutines of the coordinator ever wait for one another in a circle,
\* however many checks, probers' results, couriers and handlers there are:
\* corroborations, sends and writes with mutexes held end, and so do the waits.
THEOREM NoDeadlock == ServicesSpec => []NoCircle
<1>1. WaitingInv => NoCircle
    BY Assumptions, NoCircleThen DEF WaitingInv, NoCircle
<1>2. QED
    BY <1>1, ServicesStart, WaitingMoves, PTL DEF ServicesSpec

\* A public key that was given out stays the key of its machine until that
\* machine is built again, however it was set up (KeysStand of Network_proofs).
THEOREM GivenKeysStand == ServicesSpec => []KeysStay
<1>1. ByHandInv /\ AutomaticInv => KeysStay
    BY ByHand!KeysThen, Automatic!KeysThen DEF ByHandInv, AutomaticInv, KeysStay
<1>2. QED
    BY <1>1, ServicesStart, ByHandMoves, AutomaticMoves, PTL DEF ServicesSpec

\* A request that is delivered again and again is run once in its lifetime
\* (ServedOnce of ProberAgent_proofs).
THEOREM RequestsRunOnce == ServicesSpec => []RunOnce
<1>1. ProberInv => RunOnce
    BY Assumptions, Prober!ServedThen DEF ProberInv, RunOnce
<1>2. QED
    BY <1>1, ServicesStart, ProberMoves, PTL DEF ServicesSpec
=============================================================================
