------------------------- MODULE CallRegistryProofs -------------------------
(***************************************************************************)
(* What CallRegistry guarantees for any requests, table size and number of *)
(* threads: the index, the openings, and that create_call implements the   *)
(* idempotent creation of calls.                                           *)
(***************************************************************************)
EXTENDS CallRegistry, TLAPS, WellFoundedInduction

Places == {"idle", "build", "prepare", "insert", "accept", "done"}
Workings == {"none", "queued", "started", "dialing", "done", "lost", "canceled"}
Idents == [external : Keys \cup {NoKey}, task : Keys \cup {NoKey}]

TableType == /\ calls \in Seq(Requests)
             /\ index \in [Keys -> Requests \cup {NoCall}]
             /\ openings \subseteq Requests

HttpType == /\ clock \in Nat
            /\ ident \in [Requests -> Idents]
            /\ pc \in [Requests -> Places]
            /\ created \in [Requests -> Nat]
            /\ answer \in [Requests -> Requests \cup {NoCall}]

WorkType == /\ worker \in [Requests -> Workings]
            /\ dialed \subseteq Requests /\ failed \subseteq Requests

TypeInv == TableType /\ HttpType /\ WorkType

-----------------------------------------------------------------------------
(* Sequences as sets of calls, and the oldest of them                      *)

In(s, c) == \E i \in DOMAIN s : s[i] = c
Once(s) == \A i, j \in DOMAIN s : s[i] = s[j] => i = j

LEMMA Least ==
  ASSUME NEW S \in SUBSET Nat, S # {}
  PROVE  \E m \in S : \A n \in S : m <= n
<1> DEFINE R == OpToRel(<, Nat)
<1>1. \A m, n \in Nat : n < m => <<n, m>> \in R
  BY DEF OpToRel
<1>2. IsWellFoundedOn(R, Nat)
  BY NatLessThanWellFounded
<1> HIDE DEF R
<1>3. PICK m \in S : \A n \in S : <<n, m>> \notin R
  BY <1>2, WFMin
<1>4. ASSUME NEW n \in S PROVE m <= n
  <2>1. m \in Nat /\ n \in Nat /\ ~(n < m)
    BY <1>1, <1>3
  <2> QED BY <2>1
<1> QED BY <1>4

\* A table that is not empty has an oldest call, and OldestIn is its place.
LEMMA OldestPlace ==
  ASSUME HttpType, NEW s \in Seq(Requests), s # <<>>
  PROVE  OldestIn(s) \in DOMAIN s
<1> DEFINE Age(i) == created[s[i]]
           Ages == {Age(i) : i \in DOMAIN s}
<1>0. Len(s) \in Nat \ {0} /\ DOMAIN s = 1..Len(s)
  OBVIOUS
<1>1. /\ DOMAIN s \in SUBSET Nat /\ DOMAIN s # {}
      /\ \A i \in DOMAIN s : Age(i) \in Nat
  <2>1. \A i \in DOMAIN s : s[i] \in Requests
    BY <1>0
  <2>2. \A i \in DOMAIN s : Age(i) \in Nat
    BY <2>1 DEF HttpType
  <2>3. DOMAIN s \in SUBSET Nat /\ 1 \in DOMAIN s
    BY <1>0
  <2> QED BY <2>2, <2>3
<1>2. PICK m \in Ages : \A n \in Ages : m <= n
  <2>1. Ages \in SUBSET Nat /\ Ages # {}
    BY <1>1
  <2> QED BY <2>1, Least
<1> DEFINE Eldest == {i \in DOMAIN s : Age(i) = m}
<1>3. PICK i \in Eldest : \A j \in Eldest : i <= j
  <2>1. Eldest \in SUBSET Nat /\ Eldest # {}
    BY <1>1, <1>2
  <2> QED BY <2>1, Least
<1>4. \A j \in DOMAIN s : Age(i) < Age(j) \/ (Age(i) = Age(j) /\ i <= j)
  <2>1. SUFFICES ASSUME NEW j \in DOMAIN s
                 PROVE  Age(i) < Age(j) \/ (Age(i) = Age(j) /\ i <= j)
    OBVIOUS
  <2>2. Age(i) = m /\ m <= Age(j) /\ Age(i) \in Nat /\ Age(j) \in Nat
    BY <1>1, <1>2, <1>3
  <2>3. Age(j) = m => i <= j
    BY <1>3
  <2> HIDE DEF Age
  <2> QED BY <2>2, <2>3
<1> QED BY <1>3, <1>4 DEF OldestIn

LEMMA AppendFacts ==
  ASSUME NEW S, NEW s \in Seq(S), NEW x \in S
  PROVE  /\ Append(s, x) \in Seq(S) /\ Append(s, x) # <<>>
         /\ \A c : In(Append(s, x), c) <=> In(s, c) \/ c = x
         /\ Once(s) /\ ~In(s, x) => Once(Append(s, x))
<1>1. /\ Append(s, x) \in Seq(S) /\ Len(Append(s, x)) = Len(s) + 1
      /\ Len(s) \in Nat
      /\ DOMAIN s = 1..Len(s) /\ DOMAIN Append(s, x) = 1..(Len(s) + 1)
      /\ \A i \in 1..Len(s) : Append(s, x)[i] = s[i]
      /\ Append(s, x)[Len(s) + 1] = x
  OBVIOUS
<1>2. ASSUME NEW c PROVE In(Append(s, x), c) <=> In(s, c) \/ c = x
  BY <1>1 DEF In
<1>3. ASSUME Once(s), ~In(s, x) PROVE Once(Append(s, x))
  BY <1>1, <1>3 DEF Once, In
<1>4. Append(s, x) # <<>>
  BY <1>1
<1> QED BY <1>1, <1>2, <1>3, <1>4

LEMMA RemoveFacts ==
  ASSUME NEW S, NEW s \in Seq(S), NEW i \in DOMAIN s, Once(s)
  PROVE  /\ RemoveAt(s, i) \in Seq(S) /\ Once(RemoveAt(s, i))
         /\ \A c : In(RemoveAt(s, i), c) <=> In(s, c) /\ c # s[i]
<1> DEFINE a == SubSeq(s, 1, i - 1)
           b == SubSeq(s, i + 1, Len(s))
           r == RemoveAt(s, i)
           n == Len(s)
<1>1. n \in Nat /\ DOMAIN s = 1..n /\ i \in 1..n
  OBVIOUS
<1>2. a \in Seq(S) /\ Len(a) = i - 1 /\ \A j \in 1..(i - 1) : a[j] = s[j]
  BY <1>1
<1>3. b \in Seq(S) /\ Len(b) = n - i /\ \A j \in 1..(n - i) : b[j] = s[j + i]
  BY <1>1
<1>4. /\ r \in Seq(S) /\ DOMAIN r = 1..(n - 1)
      /\ \A j \in 1..(n - 1) : r[j] = IF j < i THEN s[j] ELSE s[j + 1]
  <2> HIDE DEF a, b, n
  <2>1. r = a \o b
    BY DEF RemoveAt, a, b, n
  <2>2. /\ r \in Seq(S) /\ Len(r) = Len(a) + Len(b)
        /\ \A j \in 1..(Len(a) + Len(b)) :
             r[j] = IF j <= Len(a) THEN a[j] ELSE b[j - Len(a)]
    BY <1>2, <1>3, <2>1
  <2>3. Len(r) = n - 1 /\ DOMAIN r = 1..(n - 1)
    BY <1>1, <1>2, <1>3, <2>2
  <2>4. ASSUME NEW j \in 1..(n - 1)
        PROVE  r[j] = IF j < i THEN s[j] ELSE s[j + 1]
    <3>1. CASE j < i
      BY <1>1, <1>2, <1>3, <2>2, <3>1
    <3>2. CASE ~(j < i)
      <4>1. j - (i - 1) \in 1..(n - i) /\ (j - (i - 1)) + i = j + 1
        BY <1>1, <3>2
      <4>2. r[j] = b[j - (i - 1)]
        BY <1>1, <1>2, <1>3, <2>2, <3>2
      <4> QED BY <1>3, <3>2, <4>1, <4>2
    <3> QED BY <3>1, <3>2
  <2> QED BY <2>2, <2>3, <2>4
<1> HIDE DEF a, b, r, n
<1>5. Once(r)
  <2>1. SUFFICES ASSUME NEW j \in 1..(n - 1), NEW k \in 1..(n - 1), r[j] = r[k]
                 PROVE  j = k
    BY <1>4 DEF Once
  <2>2. PICK jj \in 1..n : s[jj] = r[j] /\ jj = IF j < i THEN j ELSE j + 1
    BY <1>1, <1>4
  <2>3. PICK kk \in 1..n : s[kk] = r[k] /\ kk = IF k < i THEN k ELSE k + 1
    BY <1>1, <1>4
  <2>4. jj = kk
    BY <1>1, <2>1, <2>2, <2>3 DEF Once
  <2> QED BY <1>1, <2>2, <2>3, <2>4
<1>6. ASSUME NEW c, In(r, c) PROVE In(s, c) /\ c # s[i]
  <2>1. PICK j \in 1..(n - 1) : r[j] = c
    BY <1>4, <1>6 DEF In
  <2>2. PICK k \in 1..n : s[k] = c /\ k # i
    BY <1>1, <1>4, <2>1
  <2> QED BY <1>1, <2>2 DEF In, Once
<1>7. ASSUME NEW c, In(s, c), c # s[i] PROVE In(r, c)
  <2>1. PICK k \in 1..n : s[k] = c /\ k # i
    BY <1>1, <1>7 DEF In
  <2>2. CASE k < i
    BY <1>1, <1>4, <2>1, <2>2 DEF In
  <2>3. CASE k > i
    <3>1. k - 1 \in 1..(n - 1) /\ r[k - 1] = c
      BY <1>1, <1>4, <2>1, <2>3
    <3> QED BY <1>4, <3>1 DEF In
  <2> QED BY <1>1, <2>1, <2>2, <2>3
<1> QED BY <1>4, <1>5, <1>6, <1>7 DEF r

-----------------------------------------------------------------------------
(* The one step that changes the table                                     *)

\* Inserting call r evicts call e, which may be r itself, or nothing (NoCall).
Inserted(r, e) ==
  /\ calls' \in Seq(Requests) /\ Once(calls')
  /\ \A c \in Requests : In(calls', c) <=> (In(calls, c) \/ c = r) /\ c # e
  /\ e \in Requests => In(calls, e) \/ e = r
  /\ index' \in [Keys -> Requests \cup {NoCall}]
  /\ \A k \in Keys :
       index'[k] = IF e \in Requests /\ k \in {ident[e].external, ident[e].task}
                     THEN NoCall
                   ELSE IF k = IdempotencyKey(ident[r]) THEN r ELSE index[k]
  /\ openings' = openings \ {e}

LEMMA TrimFacts ==
  ASSUME TypeInv, Once(calls), NEW r \in Requests, ~In(calls, r),
         InsertAndTrim(r)
  PROVE  \E e \in Requests \cup {NoCall} : Inserted(r, e)
<1> DEFINE table == Append(calls, r)
           key == IdempotencyKey(ident[r])
           indexed == [x \in Keys |-> IF x = key THEN r ELSE index[x]]
           i == OldestIn(table)
           e == table[i]
<1>0. /\ calls \in Seq(Requests) /\ index \in [Keys -> Requests \cup {NoCall}]
      /\ openings \subseteq Requests /\ NoCall \notin Requests
  BY CallsAssumption DEF TypeInv, TableType
<1>1. /\ table \in Seq(Requests) /\ table # <<>> /\ Once(table)
      /\ \A c \in Requests : In(table, c) <=> In(calls, c) \/ c = r
  BY <1>0, AppendFacts
<1>2. indexed \in [Keys -> Requests \cup {NoCall}]
  BY <1>0
<1>3. CASE calls' = table /\ index' = indexed /\ UNCHANGED openings
  <2> HIDE DEF table
  <2>1. Inserted(r, NoCall)
    BY <1>0, <1>1, <1>2, <1>3 DEF Inserted
  <2> QED BY <2>1
<1>4. CASE /\ calls' = RemoveAt(table, i)
           /\ index' = ForgetKeys(indexed, e)
           /\ openings' = openings \ {e}
  <2>1. i \in DOMAIN table
    BY <1>1, OldestPlace DEF TypeInv
  <2> HIDE DEF table, i, indexed
  <2>2. e \in Requests /\ In(table, e)
    BY <1>1, <2>1 DEF In
  <2>3. /\ calls' \in Seq(Requests) /\ Once(calls')
        /\ \A c \in Requests : In(calls', c) <=> In(table, c) /\ c # e
    BY <1>1, <1>4, <2>1, RemoveFacts
  <2> HIDE DEF e
  <2>4. /\ index' \in [Keys -> Requests \cup {NoCall}]
        /\ \A k \in Keys :
             index'[k] = IF k \in {ident[e].external, ident[e].task}
                           THEN NoCall
                         ELSE IF k = key THEN r ELSE index[k]
    BY <1>2, <1>4 DEF ForgetKeys, indexed
  <2>5. Inserted(r, e)
    BY <1>1, <1>4, <2>2, <2>3, <2>4 DEF Inserted
  <2> QED BY <2>2, <2>5
<1> QED BY <1>3, <1>4 DEF InsertAndTrim

\* Every other step leaves the table and the index alone.
LEMMA TableSteps ==
  ASSUME [Next]_vars
  PROVE  \/ UNCHANGED <<calls, index>>
         \/ \E r \in Requests : /\ Insert(r) /\ InsertAndTrim(r)
                               /\ Remembered(IdempotencyKey(ident[r])) = NoCall
                               /\ answer' = [answer EXCEPT ![r] = r]
                               /\ pc' = [pc EXCEPT ![r] = "accept"]
BY DEF Next, Tick, Shutdown, Creating, LookUp, BuildRecord, Prepare, Insert,
   Accept, Originating, StartOriginate, ResolveEndpoint, OriginateReturns,
   TakeOpening, vars

-----------------------------------------------------------------------------
(* Types and the life of a request                                         *)

\* A request that has not been inserted is in no table and has no answer, and
\* its worker starts after it was accepted.
LifeInv ==
  /\ Once(calls)
  /\ \A r \in Requests :
       /\ pc[r] \in {"idle", "build", "prepare", "insert"} =>
            ~In(calls, r) /\ answer[r] = NoCall
       /\ pc[r] # "done" => worker[r] = "none"
       /\ worker[r] = "none" => r \notin failed

Basics == TypeInv /\ LifeInv

LEMMA RememberedType ==
  ASSUME TableType, NEW k
  PROVE  /\ Remembered(k) # NoCall => k # NoKey /\ In(calls, Remembered(k))
         /\ k \in Keys \cup {NoKey} => Remembered(k) \in Requests \cup {NoCall}
BY KeysAssumption DEF TableType, Remembered, InTable, In

LEMMA KeyType ==
  ASSUME HttpType, NEW r \in Requests
  PROVE  /\ ident[r] \in Idents
         /\ IdempotencyKey(ident[r]) \in Keys \cup {NoKey}
BY DEF HttpType, Idents, IdempotencyKey

LEMMA HttpStep == ASSUME Basics, [Next]_vars PROVE HttpType'
<1>0. HttpType /\ TableType /\ Identities \subseteq Idents
  BY IdentitiesAssumption DEF Basics, TypeInv, Idents
<1>1. clock' \in Nat
  <2>1. CASE Tick
    BY <1>0, <2>1 DEF HttpType, Tick
  <2>2. CASE UNCHANGED clock
    BY <1>0, <2>2 DEF HttpType
  <2> QED BY <2>1, <2>2 DEF Next, Shutdown, Creating, LookUp, BuildRecord, Prepare,
    Insert, Accept, Originating, StartOriginate, ResolveEndpoint,
    OriginateReturns, TakeOpening, vars
<1>2. ASSUME NEW r \in Requests, LookUp(r) PROVE HttpType'
  <2>1. PICK id \in Identities :
          LET known == Remembered(IdempotencyKey(id))
          IN /\ ident' = [ident EXCEPT ![r] = id]
             /\ answer' = [answer EXCEPT ![r] = known]
             /\ pc' = [pc EXCEPT ![r] = IF known = NoCall THEN "build" ELSE "done"]
    BY <1>2 DEF LookUp
  <2>2. id \in Idents /\ IdempotencyKey(id) \in Keys \cup {NoKey}
    BY <1>0 DEF Idents, IdempotencyKey
  <2>3. Remembered(IdempotencyKey(id)) \in Requests \cup {NoCall}
    BY <1>0, <2>2, RememberedType
  <2>4. UNCHANGED <<clock, created>>
    BY <1>2 DEF LookUp
  <2> QED BY <1>0, <2>1, <2>2, <2>3, <2>4 DEF HttpType, Places
<1>3. ASSUME NEW r \in Requests, BuildRecord(r) PROVE HttpType'
  BY <1>0, <1>3 DEF BuildRecord, HttpType, Places
<1>4. ASSUME NEW r \in Requests, Prepare(r) PROVE HttpType'
  BY <1>0, <1>4 DEF Prepare, HttpType, Places, httpVars
<1>5. ASSUME NEW r \in Requests, Insert(r) PROVE HttpType'
  <2>1. Remembered(IdempotencyKey(ident[r])) \in Requests \cup {NoCall}
    BY <1>0, RememberedType, KeyType
  <2> QED BY <1>0, <1>5, <2>1 DEF Insert, HttpType, Places
<1>6. ASSUME NEW r \in Requests, Accept(r) PROVE HttpType'
  BY <1>0, <1>6 DEF Accept, HttpType, Places, httpVars
<1>7. CASE UNCHANGED <<ident, created, answer, pc>>
  BY <1>0, <1>1, <1>7 DEF HttpType
<1> QED BY <1>2, <1>3, <1>4, <1>5, <1>6, <1>7 DEF Next, Tick, Shutdown, Creating,
  Originating, StartOriginate, ResolveEndpoint, OriginateReturns, TakeOpening,
  httpVars, vars

LEMMA WorkStep ==
  ASSUME TypeInv, [Next]_vars
  PROVE  WorkType' /\ openings' \in SUBSET Requests
<1>0. WorkType /\ openings \subseteq Requests
  BY DEF TypeInv, TableType
<1>1. openings' \in SUBSET Requests
  <2>1. ASSUME NEW r \in Requests, Insert(r) PROVE openings' \in SUBSET Requests
    BY <1>0, <2>1 DEF Insert, InsertAndTrim
  <2> QED BY <1>0, <2>1 DEF Next, Tick, Shutdown, Creating, LookUp, BuildRecord,
    Prepare, Accept, Originating, StartOriginate, ResolveEndpoint,
    OriginateReturns, TakeOpening, Fail, vars
<1>2. WorkType'
  BY <1>0 DEF WorkType, Workings, Next, Tick, Shutdown, Creating, LookUp,
     BuildRecord, Prepare, Insert, Accept, Originating, StartOriginate,
     ResolveEndpoint, OriginateReturns, TakeOpening, Fail, vars
<1> QED BY <1>1, <1>2

Early == {"idle", "build", "prepare", "insert"}

LEMMA TableStep ==
  ASSUME Basics, [Next]_vars
  PROVE  /\ calls' \in Seq(Requests) /\ Once(calls')
         /\ index' \in [Keys -> Requests \cup {NoCall}]
         /\ \A c \in Requests : In(calls', c) => In(calls, c) \/ pc'[c] = "accept"
<1> DEFINE Goal == /\ calls' \in Seq(Requests) /\ Once(calls')
                   /\ index' \in [Keys -> Requests \cup {NoCall}]
                   /\ \A c \in Requests :
                        In(calls', c) => In(calls, c) \/ pc'[c] = "accept"
<1>1. CASE UNCHANGED <<calls, index>>
  BY <1>1 DEF Basics, TypeInv, TableType, LifeInv
<1>2. ASSUME NEW r \in Requests, Insert(r), InsertAndTrim(r),
             pc' = [pc EXCEPT ![r] = "accept"]
      PROVE  Goal
  <2>1. pc[r] = "insert" /\ pc'[r] = "accept"
    BY <1>2 DEF Insert, Basics, TypeInv, HttpType
  <2>2. ~In(calls, r) /\ Once(calls) /\ TypeInv
    BY <2>1 DEF Basics, LifeInv
  <2>3. PICK e \in Requests \cup {NoCall} : Inserted(r, e)
    BY <1>2, <2>2, TrimFacts
  <2> QED BY <2>1, <2>3 DEF Inserted
<1> QED BY <1>1, <1>2, TableSteps

\* What a step does to the place of one request.
LEMMA PlaceMoves ==
  ASSUME Basics, [Next]_vars, NEW c \in Requests
  PROVE  /\ pc'[c] \in Early => pc[c] \in Early /\ answer'[c] = NoCall
         /\ pc'[c] # "done" => worker'[c] = "none"
         /\ worker'[c] = "none" => c \notin failed'
<1>0. /\ pc \in [Requests -> Places] /\ worker \in [Requests -> Workings]
      /\ answer \in [Requests -> Requests \cup {NoCall}]
      /\ pc[c] \in Early => answer[c] = NoCall
      /\ pc[c] # "done" => worker[c] = "none"
      /\ worker[c] = "none" => c \notin failed
  BY DEF Basics, TypeInv, HttpType, WorkType, LifeInv, Early
<1> DEFINE Goal == /\ pc'[c] \in Early => pc[c] \in Early /\ answer'[c] = NoCall
                   /\ pc'[c] # "done" => worker'[c] = "none"
                   /\ worker'[c] = "none" => c \notin failed'
<1>1. ASSUME NEW r \in Requests, Creating(r) PROVE Goal
  <2>1. UNCHANGED failed
    BY <1>1 DEF Creating, LookUp, BuildRecord, Prepare, Insert, Accept
  <2>2. CASE LookUp(r)
    BY <1>0, <2>1, <2>2 DEF LookUp, Early
  <2>3. CASE BuildRecord(r) \/ Prepare(r)
    BY <1>0, <2>1, <2>3 DEF BuildRecord, Prepare, httpVars, Early
  <2>4. CASE Insert(r)
    BY <1>0, <2>1, <2>4 DEF Insert, Early
  <2>5. CASE Accept(r)
    BY <1>0, <2>1, <2>5 DEF Accept, httpVars, Early
  <2> QED BY <1>1, <2>2, <2>3, <2>4, <2>5 DEF Creating
<1>2. ASSUME NEW r \in Requests, Originating(r) PROVE Goal
  <2>1. UNCHANGED <<pc, answer>>
    BY <1>2 DEF Originating, StartOriginate, ResolveEndpoint, OriginateReturns,
       httpVars
  <2>2. /\ worker[r] # "none" /\ worker'[r] # "none"
        /\ r # c => worker'[c] = worker[c]
        /\ failed' = failed \/ failed' = failed \cup {r}
    BY <1>0, <1>2 DEF Originating, StartOriginate, ResolveEndpoint,
       OriginateReturns, Fail
  <2> QED BY <1>0, <2>1, <2>2 DEF Early
<1>3. CASE Shutdown
  BY <1>0, <1>3 DEF Shutdown, httpVars, Early
<1>4. CASE UNCHANGED <<pc, answer, worker, failed>>
  BY <1>0, <1>4 DEF Early
<1> QED BY <1>1, <1>2, <1>3, <1>4 DEF Next, Tick, TakeOpening, httpVars, vars

LEMMA BasicsStep == ASSUME Basics, [Next]_vars PROVE Basics'
<1>1. TypeInv'
  BY HttpStep, WorkStep, TableStep DEF Basics, TypeInv, TableType
<1>2. ASSUME NEW c \in Requests, pc'[c] \in Early PROVE ~In(calls', c)
  <2>1. ~In(calls, c)
    BY <1>2, PlaceMoves DEF Basics, LifeInv, Early
  <2> QED BY <1>2, <2>1, TableStep DEF Early
<1> QED BY <1>1, <1>2, TableStep, PlaceMoves DEF Basics, LifeInv, Early

LEMMA InitBasics == Init => Basics
<1> SUFFICES ASSUME Init PROVE Basics
  OBVIOUS
<1>1. TableType
  BY DEF Init, TableType
<1>2. HttpType
  BY DEF Init, HttpType, NoIdentity, Idents, Places
<1>3. WorkType
  BY DEF Init, WorkType, Workings
<1>4. LifeInv
  BY DEF Init, LifeInv, Once, In
<1> QED BY <1>1, <1>2, <1>3, <1>4 DEF Basics, TypeInv

-----------------------------------------------------------------------------
(* The openings                                                            *)

LEMMA OwnedStep == ASSUME Basics, OpeningsOwned, [Next]_vars PROVE OpeningsOwned'
<1>0. /\ pc \in [Requests -> Places] /\ worker \in [Requests -> Workings]
      /\ answer \in [Requests -> Requests \cup {NoCall}]
      /\ openings \subseteq Requests /\ TableType /\ NoCall \notin Requests
  BY CallsAssumption DEF Basics, TypeInv, HttpType, WorkType, TableType
<1>1. ASSUME UNCHANGED <<calls, pc, answer>>,
             \/ UNCHANGED failed /\ openings' \subseteq openings
             \/ \E c : failed' = failed \cup {c} /\ openings' = openings \ {c}
      PROVE  OpeningsOwned'
  BY <1>1 DEF OpeningsOwned, InTable
<1>2. ASSUME NEW r \in Requests, LookUp(r) PROVE OpeningsOwned'
  <2>1. pc[r] = "idle" /\ UNCHANGED <<calls, openings, failed>>
    BY <1>2 DEF LookUp
  <2>2. r \notin openings
    BY <2>1 DEF OpeningsOwned, Basics, LifeInv, InTable, In
  <2>3. \A c \in Requests \ {r} : pc'[c] = pc[c] /\ answer'[c] = answer[c]
    BY <1>0, <1>2 DEF LookUp
  <2> QED BY <1>0, <2>1, <2>2, <2>3 DEF OpeningsOwned, InTable
<1>3. ASSUME NEW r \in Requests, BuildRecord(r) \/ Prepare(r)
      PROVE  OpeningsOwned'
  <2>1. pc[r] \in {"build", "prepare"} /\ UNCHANGED <<calls, answer, failed>>
    BY <1>3 DEF BuildRecord, Prepare, httpVars
  <2>2. r \notin openings /\ r \notin failed
    BY <2>1 DEF OpeningsOwned, Basics, LifeInv, InTable, In
  <2>3. /\ \A c \in Requests \ {r} : pc'[c] = pc[c]
        /\ openings' \subseteq openings \cup {r}
        /\ r \in openings' => pc'[r] = "insert"
    BY <1>0, <1>3, <2>2 DEF BuildRecord, Prepare
  <2> QED BY <1>0, <2>1, <2>2, <2>3 DEF OpeningsOwned, InTable
<1>4. ASSUME NEW r \in Requests, Insert(r) PROVE OpeningsOwned'
  <2>1. pc[r] = "insert" /\ ~In(calls, r) /\ Once(calls) /\ TypeInv
    BY <1>4 DEF Insert, Basics, LifeInv
  <2>2. UNCHANGED failed /\ \A c \in Requests \ {r} : /\ pc'[c] = pc[c]
                                                    /\ answer'[c] = answer[c]
    BY <1>0, <1>4 DEF Insert
  <2>3. CASE Remembered(IdempotencyKey(ident[r])) # NoCall
    <3>1. UNCHANGED <<calls, openings>>
      BY <1>4, <2>3 DEF Insert
    <3>2. answer'[r] \notin {r, NoCall}
      <4>1. answer'[r] = Remembered(IdempotencyKey(ident[r]))
        BY <1>0, <1>4, <2>3 DEF Insert
      <4> QED BY <1>0, <2>1, <2>3, <4>1, RememberedType
    <3> QED BY <1>0, <2>2, <3>1, <3>2 DEF OpeningsOwned, InTable
  <2>4. CASE Remembered(IdempotencyKey(ident[r])) = NoCall
    <3>1. InsertAndTrim(r)
      BY <1>4, <2>4 DEF Insert
    <3>2. PICK e \in Requests \cup {NoCall} : Inserted(r, e)
      BY <2>1, <3>1, TrimFacts
    <3>3. \A c \in Requests : In(calls', c) <=> (In(calls, c) \/ c = r) /\ c # e
      BY <3>2 DEF Inserted
    <3>4. openings' = openings \ {e}
      BY <3>2 DEF Inserted
    <3> QED BY <1>0, <2>2, <3>3, <3>4 DEF OpeningsOwned, InTable, In
  <2> QED BY <2>3, <2>4
<1>5. ASSUME NEW r \in Requests, Accept(r) PROVE OpeningsOwned'
  <2>1. /\ pc[r] = "accept" /\ UNCHANGED <<calls, answer, openings, failed>>
        /\ \A c \in Requests : pc'[c] = pc[c] \/ pc[c] = "accept"
    BY <1>0, <1>5 DEF Accept, httpVars
  <2> QED BY <1>0, <2>1 DEF OpeningsOwned, InTable
<1> QED BY <1>1, <1>2, <1>3, <1>4, <1>5 DEF Next, Tick, Shutdown, Creating,
  Originating, StartOriginate, ResolveEndpoint, OriginateReturns, TakeOpening,
  Fail, httpVars, vars

\* A prepared opening leaves the store with its call, evicted or never dialed,
\* for any table size and any number of creating threads; only a call that lost
\* its creation race leaves one over.
THEOREM OpeningsAreOwned == Spec => []OpeningsOwned
<1>1. Init => OpeningsOwned
  BY DEF Init, OpeningsOwned
<1>2. Basics /\ OpeningsOwned /\ [Next]_vars => Basics' /\ OpeningsOwned'
  BY BasicsStep, OwnedStep
<1> QED BY InitBasics, <1>1, <1>2, PTL DEF Spec

-----------------------------------------------------------------------------
(* The index                                                               *)

\* An entry leads to a call of the table whose key it is.
EntriesLead == \A k \in Keys : index[k] # NoCall =>
  In(calls, index[k]) /\ IdempotencyKey(ident[index[k]]) = k

\* A call of the table is found under its key, if that is not shadowed.
KeysFound == \A c \in Requests, k \in Keys :
  In(calls, c) /\ IdempotencyKey(ident[c]) = k /\ ~Shadowed(k) => index[k] = c

\* A request that has not begun has no identity.
Anonymous == \A r \in Requests : pc[r] = "idle" => ident[r] = NoIdentity

LEMMA IndexParts ==
  ASSUME TypeInv PROVE IndexExact <=> EntriesLead /\ KeysFound
<1>1. /\ \A i \in DOMAIN calls : calls[i] \in Requests
      /\ \A c \in Requests : IdempotencyKey(ident[c]) \in Keys \cup {NoKey}
  BY DEF TypeInv, TableType, HttpType, Idents, IdempotencyKey
<1> QED BY <1>1, KeysAssumption DEF IndexExact, EntriesLead, KeysFound, InTable, In

\* The identity of a call that is in the table has been given for good.
LEMMA IdentKept ==
  ASSUME Basics, [Next]_vars, NEW c \in Requests, In(calls, c) \/ pc[c] = "insert"
  PROVE  ident'[c] = ident[c]
<1>1. pc[c] # "idle" /\ ident \in [Requests -> Idents]
  BY DEF Basics, TypeInv, HttpType, LifeInv
<1>2. ASSUME NEW r \in Requests, LookUp(r) PROVE ident'[c] = ident[c]
  BY <1>1, <1>2 DEF LookUp
<1> QED BY <1>2 DEF Next, Tick, Shutdown, Creating, BuildRecord, Prepare, Insert,
  Accept, Originating, StartOriginate, ResolveEndpoint, OriginateReturns,
  TakeOpening, httpVars, vars

LEMMA EntriesStep ==
  ASSUME Basics, EntriesLead, [Next]_vars
  PROVE  EntriesLead'
<1>0. /\ index \in [Keys -> Requests \cup {NoCall}]
      /\ NoCall \notin Requests /\ NoKey \notin Keys
  BY CallsAssumption, KeysAssumption DEF Basics, TypeInv, TableType
<1>1. CASE UNCHANGED <<calls, index>>
  BY <1>0, <1>1, IdentKept DEF EntriesLead
<1>2. ASSUME NEW r \in Requests, Insert(r), InsertAndTrim(r)
      PROVE  EntriesLead'
  <2>1. /\ pc[r] = "insert" /\ ~In(calls, r) /\ Once(calls) /\ TypeInv
        /\ UNCHANGED ident
    BY <1>2 DEF Insert, Basics, LifeInv
  <2>2. PICK e \in Requests \cup {NoCall} : Inserted(r, e)
    BY <1>2, <2>1, TrimFacts
  <2>3. SUFFICES ASSUME NEW k \in Keys, index'[k] # NoCall
                 PROVE  In(calls', index'[k]) /\ IdempotencyKey(ident[index'[k]]) = k
    BY <2>1 DEF EntriesLead, IdempotencyKey
  <2> DEFINE d == index'[k]
  <2>4. /\ ~(e \in Requests /\ k \in {ident[e].external, ident[e].task})
        /\ d = IF k = IdempotencyKey(ident[r]) THEN r ELSE index[k]
    BY <2>2, <2>3 DEF Inserted
  <2>5. d \in Requests /\ IdempotencyKey(ident[d]) = k
    BY <1>0, <2>3, <2>4 DEF EntriesLead
  <2>6. d # e
    BY <2>4, <2>5 DEF IdempotencyKey
  <2>7. In(calls, d) \/ d = r
    BY <2>3, <2>4 DEF EntriesLead
  <2> HIDE DEF d
  <2>8. In(calls', d)
    BY <2>2, <2>5, <2>6, <2>7 DEF Inserted
  <2> QED BY <2>5, <2>8 DEF d
<1> QED BY <1>1, <1>2, TableSteps

LEMMA AnonymousStep == ASSUME Anonymous, TypeInv, [Next]_vars PROVE Anonymous'
<1>0. ident \in [Requests -> Idents] /\ pc \in [Requests -> Places]
  BY DEF TypeInv, HttpType
<1>1. ASSUME NEW r \in Requests, LookUp(r) PROVE Anonymous'
  BY <1>0, <1>1 DEF LookUp, Anonymous
<1>2. ASSUME NEW r \in Requests, BuildRecord(r) \/ Prepare(r) \/ Insert(r) \/ Accept(r)
      PROVE  Anonymous'
  BY <1>0, <1>2 DEF BuildRecord, Prepare, Insert, Accept, httpVars, Anonymous
<1>3. CASE UNCHANGED <<ident, pc>>
  BY <1>3 DEF Anonymous
<1> QED BY <1>1, <1>2, <1>3 DEF Next, Tick, Shutdown, Creating, Originating,
  StartOriginate, ResolveEndpoint, OriginateReturns, TakeOpening, httpVars, vars

\* A key stays shadowed.
LEMMA ShadowStays ==
  ASSUME Basics, Anonymous, [Next]_vars, NEW k \in Keys, Shadowed(k)
  PROVE  Shadowed(k)'
<1>1. PICK r \in Requests : ident[r].task = k /\ IdempotencyKey(ident[r]) # k
  BY DEF Shadowed
<1>2. pc[r] # "idle"
  BY <1>1, KeysAssumption DEF Anonymous, NoIdentity
<1>3. ident'[r] = ident[r]
  <2>1. ident \in [Requests -> Idents]
    BY DEF Basics, TypeInv, HttpType
  <2>2. ASSUME NEW q \in Requests, LookUp(q) PROVE ident'[r] = ident[r]
    BY <1>2, <2>1, <2>2 DEF LookUp
  <2> QED BY <2>2 DEF Next, Tick, Shutdown, Creating, BuildRecord, Prepare, Insert,
    Accept, Originating, StartOriginate, ResolveEndpoint, OriginateReturns,
    TakeOpening, httpVars, vars
<1> QED BY <1>1, <1>3 DEF Shadowed, IdempotencyKey

LEMMA KeysStep ==
  ASSUME Basics, Anonymous, EntriesLead, KeysFound, [Next]_vars
  PROVE  KeysFound'
<1>0. /\ index \in [Keys -> Requests \cup {NoCall}] /\ ident \in [Requests -> Idents]
      /\ NoCall \notin Requests /\ NoKey \notin Keys
  BY CallsAssumption, KeysAssumption DEF Basics, TypeInv, TableType, HttpType
<1>1. SUFFICES ASSUME NEW c \in Requests, NEW x \in Keys, In(calls', c),
                      IdempotencyKey(ident'[c]) = x, ~Shadowed(x)'
               PROVE  index'[x] = c
  BY DEF KeysFound, IdempotencyKey
<1>2. ~Shadowed(x)
  BY <1>1, ShadowStays
<1>3. CASE UNCHANGED <<calls, index>>
  <2>1. In(calls, c) /\ ident'[c] = ident[c]
    BY <1>1, <1>3, IdentKept
  <2> QED BY <1>1, <1>2, <1>3, <2>1 DEF KeysFound
<1>4. ASSUME NEW r \in Requests, Insert(r), InsertAndTrim(r),
             Remembered(IdempotencyKey(ident[r])) = NoCall
      PROVE  index'[x] = c
  <2>1. /\ pc[r] = "insert" /\ ~In(calls, r) /\ Once(calls) /\ TypeInv
        /\ UNCHANGED ident
    BY <1>4 DEF Insert, Basics, LifeInv
  <2>2. PICK e \in Requests \cup {NoCall} : Inserted(r, e)
    BY <1>4, <2>1, TrimFacts
  <2>3. IdempotencyKey(ident[c]) = x /\ x # NoKey
    BY <1>0, <1>1, <2>1
  <2> DEFINE key == IdempotencyKey(ident[r])
  <2>4. c # e /\ (In(calls, c) \/ c = r)
    BY <1>1, <2>2 DEF Inserted
  \* Another call of the table with this key is the one found under it, so that
  \* r would not have been inserted with the same key.
  <2>5. ASSUME NEW d \in Requests, In(calls, d), IdempotencyKey(ident[d]) = x
        PROVE  index[x] = d /\ key # x
    <3>1. index[x] = d
      BY <1>2, <2>5 DEF KeysFound
    <3>2. InTable(index[x])
      BY <2>5, <3>1 DEF InTable, In
    <3>3. Remembered(x) = d
      BY <1>0, <2>3, <3>1, <3>2 DEF Remembered
    <3> QED BY <1>0, <1>4, <3>1, <3>3
  <2>6. ASSUME e \in Requests PROVE x \notin {ident[e].external, ident[e].task}
    <3>1. SUFFICES ASSUME IdempotencyKey(ident[e]) = x PROVE FALSE
      BY <1>2, <2>3, <2>6 DEF Shadowed, IdempotencyKey
    <3>2. In(calls, e) \/ e = r
      BY <2>2, <2>6 DEF Inserted
    <3>3. CASE In(calls, e)
      BY <2>3, <2>4, <2>5, <2>6, <3>1, <3>3
    <3>4. CASE e = r
      BY <2>3, <2>4, <2>5, <3>1, <3>4
    <3> QED BY <3>2, <3>3, <3>4
  <2>7. index'[x] = IF x = key THEN r ELSE index[x]
    BY <2>2, <2>3, <2>6 DEF Inserted
  <2> QED BY <2>3, <2>4, <2>5, <2>7
<1> QED BY <1>3, <1>4, TableSteps

\* The index is exact whatever creations race and whatever they evict, for any
\* requests, table size and identities, those whose call id is their task
\* included.
THEOREM IndexIsExact == Spec => []IndexExact
<1> DEFINE Inv == Basics /\ Anonymous /\ EntriesLead /\ KeysFound
<1>1. Init => Inv
  <2>1. Init => Anonymous /\ EntriesLead /\ KeysFound
    BY DEF Init, Anonymous, EntriesLead, KeysFound, In
  <2> QED BY <2>1, InitBasics
<1>2. Inv /\ [Next]_vars => Inv'
  BY BasicsStep, AnonymousStep, EntriesStep, KeysStep DEF Basics
<1>3. Inv => IndexExact
  BY IndexParts DEF Basics
<1> QED BY <1>1, <1>2, <1>3, PTL DEF Spec

-----------------------------------------------------------------------------
(* create_call implements the idempotent creation                          *)

Key(r) == IF answer[r] = NoCall THEN NoKey ELSE IdempotencyKey(ident[r])

LEMMA SameKnown ==
  ASSUME UNCHANGED <<calls, index>>
  PROVE  \A k : Remembered(k)' = Remembered(k)
BY DEF Remembered, InTable

\* A request is answered: the abstract key and answer change for it alone.
LEMMA AnswerMaps ==
  ASSUME Basics, Basics', NEW r \in Requests, NEW c \in Requests,
         answer[r] = NoCall, answer' = [answer EXCEPT ![r] = c],
         \A q \in Requests \ {r} : ident'[q] = ident[q]
  PROVE  Creation!Answer(r, IdempotencyKey(ident[r])', c)
<1>1. answer \in [Requests -> Requests \cup {NoCall}] /\ NoCall \notin Requests
  BY CallsAssumption DEF Basics, TypeInv, HttpType
<1>2. [q \in Requests |-> Key(q)]'
        = [[q \in Requests |-> Key(q)] EXCEPT ![r] = IdempotencyKey(ident[r])']
  <2>1. Key(r)' = IdempotencyKey(ident[r])'
    BY <1>1 DEF Key
  <2>2. \A q \in Requests \ {r} : Key(q)' = Key(q)
    BY <1>1 DEF Key, IdempotencyKey
  <2> QED BY <2>1, <2>2
<1> QED BY <1>2 DEF Creation!Answer, Key

LEMMA Stutters ==
  ASSUME Basics, UNCHANGED <<calls, index, answer>>,
         \A q \in Requests : answer[q] = NoCall \/ ident'[q] = ident[q]
  PROVE  UNCHANGED Creation!vars
<1>1. \A q \in Requests : Key(q)' = Key(q)
  BY DEF Key, IdempotencyKey
<1>2. \A k : Remembered(k)' = Remembered(k)
  BY SameKnown
<1> QED BY <1>1, <1>2 DEF Creation!vars, Key

\* A request that repeats a remembered key
LEMMA RepeatMaps ==
  ASSUME Basics, Basics', NEW r \in Requests, answer[r] = NoCall,
         UNCHANGED <<calls, index>>,
         NEW k \in Keys \cup {NoKey}, IdempotencyKey(ident[r])' = k,
         NEW c, c = Remembered(k), c # NoCall,
         answer' = [answer EXCEPT ![r] = c],
         \A q \in Requests \ {r} : ident'[q] = ident[q]
  PROVE  Creation!Repeat(r)
<1>1. k \in Keys /\ c \in Requests
  BY RememberedType DEF Basics, TypeInv
<1>2. Creation!Answer(r, k, c)
  <2>1. Creation!Answer(r, IdempotencyKey(ident[r])', c)
    BY <1>1, AnswerMaps
  <2> QED BY <2>1
<1>3. [x \in Keys |-> Remembered(x)]' = [x \in Keys |-> Remembered(x)]
  BY SameKnown
<1>4. [x \in Keys |-> Remembered(x)][k] = c
  BY <1>1
<1>5. Creation!Answer(r, k, [x \in Keys |-> Remembered(x)][k])
  BY <1>2, <1>4 DEF Creation!Answer
<1> QED BY <1>1, <1>3, <1>4, <1>5 DEF Creation!Repeat, Creation!Answer

\* A request that creates a call, and the keys that are forgotten for it
LEMMA CreateMaps ==
  ASSUME Basics, Basics', EntriesLead, NEW r \in Requests,
         pc[r] = "insert", InsertAndTrim(r), UNCHANGED ident,
         Remembered(IdempotencyKey(ident[r])) = NoCall,
         answer' = [answer EXCEPT ![r] = r]
  PROVE  Creation!Create(r)
<1> DEFINE k == IdempotencyKey(ident[r])
           known == [x \in Keys |-> Remembered(x)]
           forgotten == {x \in Keys : Remembered(x)' = NoCall}
<1>0. /\ NoCall \notin Requests /\ NoKey \notin Keys /\ TypeInv /\ Once(calls)
      /\ ~In(calls, r) /\ answer[r] = NoCall
      /\ index \in [Keys -> Requests \cup {NoCall}]
  BY CallsAssumption, KeysAssumption DEF Basics, LifeInv, TypeInv, TableType
<1>1. k \in Keys \cup {NoKey} /\ k' = k
  BY <1>0, KeyType DEF TypeInv, IdempotencyKey
<1>2. Creation!Answer(r, k, r)
  BY <1>0, <1>1, AnswerMaps
<1>3. PICK e \in Requests \cup {NoCall} : Inserted(r, e)
  BY <1>0, TrimFacts
<1>4. ASSUME NEW x \in Keys, Remembered(x)' # NoCall
      PROVE  Remembered(x)' = IF x = k THEN r ELSE Remembered(x)
  <2>1. Remembered(x)' = index'[x] /\ index'[x] # NoCall
    BY <1>4 DEF Remembered
  <2>2. index'[x] = IF x = k THEN r ELSE index[x]
    BY <1>3, <2>1 DEF Inserted
  <2>3. CASE x # k
    <3>1. index[x] # NoCall /\ In(calls, index[x])
      BY <2>1, <2>2, <2>3 DEF EntriesLead
    <3>2. Remembered(x) = index[x]
      BY <1>0, <3>1 DEF Remembered, InTable, In
    <3> QED BY <2>1, <2>2, <2>3, <3>2
  <2> QED BY <2>1, <2>2, <2>3
<1>5. known' = [x \in Keys |-> IF x \in forgotten THEN NoCall
                               ELSE IF x = k THEN r ELSE known[x]]
  BY <1>4
<1>6. k \in Keys => known[k] = NoCall
  OBVIOUS
<1>7. forgotten \in SUBSET Keys
  OBVIOUS
<1> HIDE DEF k, forgotten
<1> QED BY <1>1, <1>2, <1>5, <1>6, <1>7 DEF Creation!Create

LEMMA CreationStep ==
  ASSUME Basics, Basics', EntriesLead, [Next]_vars
  PROVE  [Creation!Next]_Creation!vars
<1>0. /\ pc \in [Requests -> Places] /\ ident \in [Requests -> Idents]
      /\ answer \in [Requests -> Requests \cup {NoCall}]
      /\ \A r \in Requests : pc[r] \in {"idle", "insert"} => answer[r] = NoCall
  BY DEF Basics, TypeInv, HttpType, LifeInv
<1>1. ASSUME NEW r \in Requests, LookUp(r) PROVE [Creation!Next]_Creation!vars
  <2>1. PICK id \in Identities :
          LET known == Remembered(IdempotencyKey(id))
          IN /\ ident' = [ident EXCEPT ![r] = id]
             /\ answer' = [answer EXCEPT ![r] = known]
    BY <1>1 DEF LookUp
  <2>2. /\ answer[r] = NoCall /\ UNCHANGED <<calls, index>>
        /\ \A q \in Requests \ {r} : ident'[q] = ident[q]
        /\ ident'[r] = id
    BY <1>0, <1>1, <2>1 DEF LookUp
  <2>3. IdempotencyKey(ident[r])' = IdempotencyKey(id)
    BY <2>2 DEF IdempotencyKey
  <2>4. CASE Remembered(IdempotencyKey(id)) = NoCall
    <3>1. UNCHANGED answer
      BY <1>0, <2>1, <2>2, <2>4
    <3> QED BY <2>2, <3>1, Stutters
  <2>5. CASE Remembered(IdempotencyKey(id)) # NoCall
    <3>1. IdempotencyKey(ident[r])' \in Keys \cup {NoKey}
      BY KeyType DEF Basics, TypeInv, HttpType, Idents, IdempotencyKey
    <3> QED BY <2>1, <2>2, <2>3, <2>5, <3>1, RepeatMaps DEF Creation!Next
  <2> QED BY <2>4, <2>5
<1>2. ASSUME NEW r \in Requests, Insert(r) PROVE [Creation!Next]_Creation!vars
  <2> DEFINE known == Remembered(IdempotencyKey(ident[r]))
  <2>1. pc[r] = "insert" /\ answer[r] = NoCall /\ UNCHANGED ident
    BY <1>0, <1>2 DEF Insert
  <2>2. CASE known # NoCall
    <3>1. answer' = [answer EXCEPT ![r] = known] /\ UNCHANGED <<calls, index>>
      BY <1>2, <2>2 DEF Insert
    <3>2. IdempotencyKey(ident[r])' = IdempotencyKey(ident[r])
      BY <2>1 DEF IdempotencyKey
    <3>3. IdempotencyKey(ident[r]) \in Keys \cup {NoKey}
      BY KeyType DEF Basics, TypeInv
    <3> QED BY <2>1, <2>2, <3>1, <3>2, <3>3, RepeatMaps DEF Creation!Next
  <2>3. CASE known = NoCall
    <3>1. answer' = [answer EXCEPT ![r] = r] /\ InsertAndTrim(r)
      BY <1>2, <2>3 DEF Insert
    <3> QED BY <2>1, <2>3, <3>1, CreateMaps DEF Creation!Next
  <2> QED BY <2>2, <2>3
<1>3. CASE UNCHANGED <<calls, index, answer, ident>>
  BY <1>3, Stutters
<1> QED BY <1>1, <1>2, <1>3 DEF Next, Tick, Shutdown, Creating, BuildRecord,
  Prepare, Accept, Originating, StartOriginate, ResolveEndpoint,
  OriginateReturns, TakeOpening, httpVars, vars

\* create_call is idempotent for any requests, identities and table size: its
\* lookups, insertions and evictions are those of IdempotentCreation.
THEOREM CreatesOnce == Spec => Idempotent
<1> DEFINE Inv == Basics /\ EntriesLead
<1>1. Init => Inv
  <2>1. Init => EntriesLead
    BY DEF Init, EntriesLead
  <2> QED BY <2>1, InitBasics
<1>2. Inv /\ [Next]_vars => Inv'
  BY BasicsStep, EntriesStep
<1>3. Init => Creation!Init
  BY DEF Init, Creation!Init, Remembered
<1>4. Inv /\ Inv' /\ [Next]_vars => [Creation!Next]_Creation!vars
  BY CreationStep
<1> QED BY <1>1, <1>2, <1>3, <1>4, PTL DEF Spec, Idempotent, Creation!Spec
=============================================================================
