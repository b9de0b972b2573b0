--------------------------- MODULE RedLockProofs ----------------------------
(***************************************************************************)
(* Mutual exclusion of RedLock, for any number of clients and servers, any *)
(* time to live and any number of retries.                                 *)
(***************************************************************************)
EXTENDS RedLock, FiniteSetTheorems, TLAPS

\* The numbers among the constants.
LEMMA Numbers ==
  /\ N \in Nat /\ N > 0
  /\ Ttl \in Nat
  /\ Drift \in Nat
  /\ Second \in Nat /\ Second > 0
  /\ Retries \in Nat /\ Retries > 0
BY RedLockAssumption

\* An attempt has a try left to count down.
Retrying ==
  \A c \in Clients : pc[c] \in {"locking", "undoing", "waiting"} => retry[c] > 0

TypeInv == TypeOK /\ Retrying

\* Every step of CRedLock keeps the types.
LEMMA TypeStep == TypeInv /\ [Next]_vars => TypeInv'
<1> SUFFICES ASSUME TypeInv, [Next]_vars PROVE TypeInv'
  OBVIOUS
<1> USE Numbers
<1>1. CASE Tick
  <2>1. clock' \in 0..(Second - 1)
    BY <1>1 DEF Tick, TypeInv, TypeOK
  <2>2. /\ key' \in [Servers -> Vals \cup {NoVal}]
        /\ left' \in [Servers -> Nat]
    BY <1>1 DEF Tick, TypeInv, TypeOK
  <2>3. age' \in [Clients -> Nat]
    BY <1>1 DEF Tick, TypeInv, TypeOK, Older
  <2>4. secs' \in [Clients -> Nat]
    BY <1>1 DEF Tick, TypeInv, TypeOK, Older
  <2>5. valid' \in [Clients -> Nat]
    BY <1>1 DEF Tick, TypeInv, TypeOK
  <2> QED
    BY <1>1, <2>1, <2>2, <2>3, <2>4, <2>5 DEF Tick, TypeInv, TypeOK, Retrying
<1>2. ASSUME NEW c \in Clients, Call(c) PROVE TypeInv'
  BY <1>2 DEF Call, Attempt, TypeInv, TypeOK, Retrying, Vals, Phases
<1>3. ASSUME NEW c \in Clients, LockInstance(c) PROVE TypeInv'
  <2>1. Val(c) \in Vals
    BY DEF Val, Vals, TypeInv, TypeOK
  <2> QED
    BY <1>3, <2>1 DEF LockInstance, TypeInv, TypeOK, Retrying
<1>4. ASSUME NEW c \in Clients, Decide(c) PROVE TypeInv'
  <2>1. Val(c) \in Vals
    BY DEF Val, Vals, TypeInv, TypeOK
  <2>2. Validity(c) \in Int
    BY DEF Validity, TypeInv, TypeOK
  <2> QED
    BY <1>4, <2>1, <2>2 DEF Decide, TypeInv, TypeOK, Retrying, Phases
<1>5. ASSUME NEW c \in Clients, UnlockInstance(c) PROVE TypeInv'
  BY <1>5 DEF UnlockInstance, TypeInv, TypeOK, Retrying
<1>6. ASSUME NEW c \in Clients, Unlocked(c) PROVE TypeInv'
  BY <1>6 DEF Unlocked, TypeInv, TypeOK, Retrying, Phases
<1>7. ASSUME NEW c \in Clients, Retry(c) PROVE TypeInv'
  BY <1>7 DEF Retry, TriesLeft, Attempt, TypeInv, TypeOK, Retrying, Phases
<1>8. ASSUME NEW c \in Clients, Release(c) PROVE TypeInv'
  BY <1>8 DEF Release, TypeInv, TypeOK, Retrying, Phases
<1>9. CASE UNCHANGED vars
  BY <1>9 DEF vars, TypeInv, TypeOK, Retrying
<1> QED
  BY <1>1, <1>2, <1>3, <1>4, <1>5, <1>6, <1>7, <1>8, <1>9 DEF Next

\* The types hold in every state.
THEOREM TypeCorrect == Spec => []TypeOK
<1>1. Init => TypeInv
  BY Numbers DEF Init, TypeInv, TypeOK, Retrying, Phases
<1>2. TypeInv => TypeOK
  BY DEF TypeInv
<1> QED
  BY <1>1, <1>2, TypeStep, PTL DEF Spec

-----------------------------------------------------------------------------
\* m_continueLock holds nothing or a value of its own object.
OldIsOwn == \A c \in Clients : old[c] = NoVal \/ old[c] \in {c} \X Nat

\* While an attempt, or the lock it got, is younger than the time to live, the
\* servers that counted have its key, for at least the rest of that time.
Kept ==
  \A c \in Clients : pc[c] \in {"locking", "held"} /\ age[c] < Ttl =>
    \A s \in got[c] : key[s] = Val(c) /\ left[s] + age[c] >= Ttl

\* A lock was got from a majority.
HasMajority == \A c \in Clients : pc[c] = "held" => Cardinality(got[c]) >= Quorum

Inv == TypeInv /\ OldIsOwn /\ Kept /\ HasMajority

\* The values of two clients differ, and are values.
LEMMA ValsDiffer ==
  ASSUME TypeInv, NEW c \in Clients, NEW d \in Clients
  PROVE  /\ Val(c) # NoVal
         /\ c # d => Val(c) # Val(d) /\ Val(c) \notin {d} \X Nat
         /\ Val(c) \in {c} \X Nat
<1>1. calls[c] \in Nat
  BY DEF TypeInv, TypeOK
<1>2. Val(c) \in Vals
  BY <1>1 DEF Val, Vals
<1>3. NoVal \notin Vals
  BY RedLockAssumption
<1> QED
  BY <1>1, <1>2, <1>3 DEF Val

LEMMA OldStep == Inv /\ [Next]_vars => OldIsOwn'
<1> SUFFICES ASSUME Inv, [Next]_vars PROVE OldIsOwn'
  OBVIOUS
<1>1. old \in [Clients -> Vals \cup {NoVal}] /\ calls \in [Clients -> Nat]
  BY DEF Inv, TypeInv, TypeOK
<1>2. ASSUME NEW c \in Clients, Call(c) PROVE OldIsOwn'
  <2>1. <<c, calls[c] + 1>> \in {c} \X Nat
    BY <1>1
  <2>2. old' = old \/ old' = [old EXCEPT ![c] = <<c, calls[c] + 1>>]
    BY <1>2 DEF Call
  <2> QED
    BY <1>1, <2>1, <2>2 DEF Inv, OldIsOwn
<1>3. ASSUME NEW c \in Clients, Decide(c) PROVE OldIsOwn'
  <2>1. Val(c) \in {c} \X Nat
    BY <1>1 DEF Val
  <2>2. old' = old \/ old' = [old EXCEPT ![c] = Val(c)]
    BY <1>3 DEF Decide
  <2> QED
    BY <1>1, <2>1, <2>2 DEF Inv, OldIsOwn
<1>4. CASE UNCHANGED old
  BY <1>4 DEF Inv, OldIsOwn
<1> QED
  BY <1>2, <1>3, <1>4
  DEF Next, Tick, LockInstance, UnlockInstance, Unlocked, Retry, Release, vars

LEMMA KeptStep == Inv /\ [Next]_vars => Kept'
<1> SUFFICES ASSUME Inv, [Next]_vars,
                    NEW c \in Clients, pc'[c] \in {"locking", "held"}, age'[c] < Ttl,
                    NEW s \in got'[c]
             PROVE  key'[s] = Val(c)' /\ left'[s] + age'[c] >= Ttl
  BY DEF Kept
<1>1. /\ key \in [Servers -> Vals \cup {NoVal}] /\ left \in [Servers -> Nat]
      /\ age \in [Clients -> Nat] /\ got \in [Clients -> SUBSET Servers]
      /\ calls \in [Clients -> Nat] /\ next \in [Clients -> Nat]
      /\ pc \in [Clients -> Phases]
  BY DEF Inv, TypeInv, TypeOK
<1>2. Val(c) # NoVal
  BY ValsDiffer DEF Inv
<1>3. ASSUME pc[c] \in {"locking", "held"}, age[c] < Ttl, s \in got[c]
      PROVE  key[s] = Val(c) /\ left[s] + age[c] >= Ttl /\ s \in Servers
  BY <1>3, <1>1 DEF Inv, Kept
<1>5. CASE Tick
  <2>1. pc[c] \in {"locking", "held"} /\ s \in got[c] /\ Val(c)' = Val(c)
    BY <1>5 DEF Tick, Val
  <2>2. age'[c] = age[c] + 1 /\ age[c] < Ttl
    BY <1>5, <2>1, <1>1, Numbers DEF Tick, Timed, Older
  <2>3. key[s] = Val(c) /\ left[s] + age[c] >= Ttl /\ s \in Servers
    BY <1>3, <2>1, <2>2
  <2>4. left[s] > 1
    BY <2>2, <2>3, <1>1, Numbers
  <2>5. key'[s] = key[s] /\ left'[s] = left[s] - 1
    BY <1>5, <2>3, <2>4 DEF Tick
  <2> QED
    BY <2>1, <2>2, <2>3, <2>5, <1>1, Numbers
<1>6. ASSUME NEW d \in Clients, Call(d) PROVE key'[s] = Val(c)' /\ left'[s] + age'[c] >= Ttl
  <2>1. d # c
    BY <1>6, <1>1 DEF Call, Attempt
  <2>2. /\ pc[c] = pc'[c] /\ age'[c] = age[c] /\ got'[c] = got[c] /\ Val(c)' = Val(c)
        /\ UNCHANGED <<key, left>>
    BY <1>6, <2>1, <1>1 DEF Call, Attempt, Val
  <2> QED
    BY <2>2, <1>3
<1>7. ASSUME NEW d \in Clients, LockInstance(d) PROVE key'[s] = Val(c)' /\ left'[s] + age'[c] >= Ttl
  <2>1. /\ next[d] \in Servers /\ UNCHANGED <<pc, age, calls>> /\ Val(c)' = Val(c)
        /\ \/ Settable(d, next[d]) /\ key' = [key EXCEPT ![next[d]] = Val(d)]
              /\ left' = [left EXCEPT ![next[d]] = Ttl]
              /\ got' \in {[got EXCEPT ![d] = @ \cup {next[d]}], got}
           \/ UNCHANGED <<key, left, got>>
    BY <1>7, Zenon DEF LockInstance, Val
  <2>2. CASE UNCHANGED <<key, left, got>>
    BY <2>1, <2>2, <1>3
  <2>3. CASE /\ Settable(d, next[d]) /\ key' = [key EXCEPT ![next[d]] = Val(d)]
             /\ left' = [left EXCEPT ![next[d]] = Ttl]
             /\ got' \in {[got EXCEPT ![d] = @ \cup {next[d]}], got}
    <3>1. CASE s = next[d] /\ d = c
      <4>1. key'[s] = Val(c) /\ left'[s] = Ttl
        BY <3>1, <2>3, <2>1, <1>1
      <4> QED
        BY <4>1, <2>1, <1>1, Numbers
    <3>2. CASE s # next[d]
      <4>1. s \in got[c]
        BY <3>2, <2>3, <1>1
      <4>2. key'[s] = key[s] /\ left'[s] = left[s]
        BY <3>2, <2>3, <4>1, <1>1
      <4> QED
        BY <4>1, <4>2, <2>1, <1>3
    <3>3. CASE s = next[d] /\ d # c
      <4>1. s \in got[c]
        BY <3>3, <2>3, <1>1
      <4>2. key[s] = Val(c)
        BY <4>1, <2>1, <1>3
      <4>3. Val(c) \notin {d} \X Nat
        BY <3>3, ValsDiffer DEF Inv
      <4>4. old[d] = NoVal \/ old[d] \in {d} \X Nat
        BY DEF Inv, OldIsOwn
      <4> QED
        BY <4>2, <4>3, <4>4, <1>2, <2>3, <3>3 DEF Settable
    <3> QED
      BY <3>1, <3>2, <3>3
  <2> QED
    BY <2>1, <2>2, <2>3
<1>8. ASSUME NEW d \in Clients, Decide(d) PROVE key'[s] = Val(c)' /\ left'[s] + age'[c] >= Ttl
  <2>1. /\ pc[d] = "locking" /\ UNCHANGED <<key, left, age, calls>> /\ Val(c)' = Val(c)
        /\ \/ pc' = [pc EXCEPT ![d] = "held"] /\ UNCHANGED got
           \/ pc' = [pc EXCEPT ![d] = "undoing"] /\ got' = [got EXCEPT ![d] = {}]
    BY <1>8, Zenon DEF Decide, Val
  <2>2. pc[c] \in {"locking", "held"} /\ s \in got[c]
    BY <2>1, <1>1
  <2> QED
    BY <2>1, <2>2, <1>3
<1>9. ASSUME NEW d \in Clients, UnlockInstance(d) PROVE key'[s] = Val(c)' /\ left'[s] + age'[c] >= Ttl
  <2>1. /\ pc[d] \in {"undoing", "releasing"} /\ UNCHANGED <<pc, age, got, calls>>
        /\ Val(c)' = Val(c)
        /\ \/ Deletable(d, next[d]) /\ key' = [key EXCEPT ![next[d]] = NoVal]
              /\ left' = [left EXCEPT ![next[d]] = 0]
           \/ UNCHANGED <<key, left>>
    BY <1>9, Zenon DEF UnlockInstance, Val
  <2>2. key[s] = Val(c) /\ left[s] + age[c] >= Ttl /\ s \in Servers
    BY <2>1, <1>3
  <2>3. d # c
    BY <2>1
  <2>4. Val(c) # Val(d)
    BY <2>3, ValsDiffer DEF Inv
  <2>5. key'[s] = key[s] /\ left'[s] = left[s]
    BY <2>1, <2>2, <2>4, <1>1 DEF Deletable
  <2> QED
    BY <2>1, <2>2, <2>5
<1>10. ASSUME NEW d \in Clients, Unlocked(d) \/ Release(d) \/ Retry(d)
       PROVE  key'[s] = Val(c)' /\ left'[s] + age'[c] >= Ttl
  <2>1. UNCHANGED <<key, left, calls>> /\ Val(c)' = Val(c)
    BY <1>10, Zenon DEF Unlocked, Release, Retry, Val
  <2>2. d # c
    BY <1>10, <1>1 DEF Unlocked, Release, Retry, Attempt
  <2>3. pc'[c] = pc[c] /\ age'[c] = age[c] /\ got'[c] = got[c]
    BY <1>10, <2>2, <1>1 DEF Unlocked, Release, Retry, Attempt
  <2> QED
    BY <2>1, <2>3, <1>3
<1>11. CASE UNCHANGED vars
  BY <1>11, <1>3 DEF vars, Val
<1> QED
  BY <1>5, <1>6, <1>7, <1>8, <1>9, <1>10, <1>11 DEF Next

LEMMA MajorityStep == Inv /\ [Next]_vars => HasMajority'
<1> SUFFICES ASSUME Inv, [Next]_vars, NEW c \in Clients, pc'[c] = "held"
             PROVE  Cardinality(got'[c]) >= Quorum
  BY DEF HasMajority, Quorum
<1>1. pc \in [Clients -> Phases] /\ got \in [Clients -> SUBSET Servers]
  BY DEF Inv, TypeInv, TypeOK
<1>2. pc[c] = "held" => Cardinality(got[c]) >= Quorum
  BY DEF Inv, HasMajority
<1>3. ASSUME NEW d \in Clients, Decide(d) PROVE Cardinality(got'[c]) >= Quorum
  <2>1. CASE pc' = [pc EXCEPT ![d] = "held"] /\ Cardinality(got[d]) >= Quorum /\ UNCHANGED got
    BY <2>1, <1>1, <1>2
  <2>2. CASE pc' = [pc EXCEPT ![d] = "undoing"] /\ got' = [got EXCEPT ![d] = {}]
    BY <2>2, <1>1, <1>2
  <2> QED
    BY <1>3, <2>1, <2>2, Zenon DEF Decide
<1>4. ASSUME NEW d \in Clients, Call(d) \/ LockInstance(d) \/ UnlockInstance(d)
             \/ Unlocked(d) \/ Release(d) \/ Retry(d)
      PROVE  pc[c] = "held" /\ got'[c] = got[c]
  <2>1. CASE Call(d)
    BY <2>1, <1>1 DEF Call, Attempt
  <2>2. CASE LockInstance(d)
    <3>1. /\ UNCHANGED pc /\ pc[d] = "locking"
          /\ got' \in {[got EXCEPT ![d] = @ \cup {next[d]}], got}
      BY <2>2, Zenon DEF LockInstance
    <3> QED
      BY <3>1, <1>1
  <2>3. CASE UnlockInstance(d)
    BY <2>3, Zenon DEF UnlockInstance
  <2>4. CASE Unlocked(d) \/ Release(d) \/ Retry(d)
    BY <2>4, <1>1 DEF Unlocked, Release, Retry, Attempt
  <2> QED
    BY <1>4, <2>1, <2>2, <2>3, <2>4
<1>5. CASE Tick \/ UNCHANGED vars
  BY <1>5, <1>2 DEF Tick, vars
<1> QED
  BY <1>2, <1>3, <1>4, <1>5 DEF Next

\* Two majorities of the servers have a server in common.
LEMMA MajoritiesMeet ==
  ASSUME NEW A \in SUBSET Servers, NEW B \in SUBSET Servers,
         Cardinality(A) >= Quorum, Cardinality(B) >= Quorum
  PROVE  A \cap B # {}
<1>1. IsFiniteSet(Servers) /\ Cardinality(Servers) = N
  BY FS_Interval, Numbers DEF Servers
<1>2. IsFiniteSet(A) /\ IsFiniteSet(B)
  BY <1>1, FS_Subset
<1>3. /\ Cardinality(A \cup B) = Cardinality(A) + Cardinality(B) - Cardinality(A \cap B)
      /\ Cardinality(A \cup B) \in Nat
  BY <1>2, FS_Union, FS_CardinalityType
<1>4. Cardinality(A \cup B) <= N
  BY <1>1, FS_Subset
<1>5. Cardinality(A) \in Nat /\ Cardinality(B) \in Nat
  BY <1>2, FS_CardinalityType
<1>6. A \cap B = {} => Cardinality(A \cap B) = 0
  BY FS_EmptySet
<1>7. 2 * Quorum > N
  BY Numbers DEF Quorum
<1>8. Quorum \in Nat
  BY Numbers DEF Quorum
<1> QED
  BY <1>3, <1>4, <1>5, <1>6, <1>7, <1>8, Numbers

LEMMA InvariantHolds == Spec => []Inv
<1>1. Init => Inv
  <2>1. Init => TypeInv
    BY Numbers DEF Init, TypeInv, TypeOK, Retrying, Phases
  <2>2. Init => OldIsOwn /\ Kept /\ HasMajority
    BY DEF Init, OldIsOwn, Kept, HasMajority
  <2> QED
    BY <2>1, <2>2 DEF Inv
<1>2. Inv /\ [Next]_vars => Inv'
  <2>1. Inv /\ [Next]_vars => TypeInv'
    BY TypeStep DEF Inv
  <2> QED
    BY <2>1, OldStep, KeptStep, MajorityStep DEF Inv
<1> QED
  BY <1>1, <1>2, PTL DEF Spec

\* Every server that counted for a lock keeps its key while the lock is held:
\* neither the retries nor the Unlock of other clients remove it.
THEOREM KeptOnServers == Spec => []HeldOnServers
<1>1. Inv => HeldOnServers
  BY DEF Inv, Kept, HeldOnServers, Holds
<1> QED
  BY <1>1, InvariantHolds, PTL

\* Lock never gives the lock to two clients at once, whatever commands and
\* answers are lost and however long the calls take.
THEOREM Exclusive == Spec => []MutualExclusion
<1>1. Inv => MutualExclusion
  <2> SUFFICES ASSUME Inv, NEW c \in Clients, NEW d \in Clients, Holds(c), Holds(d)
               PROVE  c = d
    BY DEF MutualExclusion
  <2>1. got[c] \in SUBSET Servers /\ got[d] \in SUBSET Servers
    BY DEF Inv, TypeInv, TypeOK
  <2>2. PICK s : s \in got[c] /\ s \in got[d]
    BY <2>1, MajoritiesMeet DEF Inv, HasMajority, Holds
  <2>3. key[s] = Val(c) /\ key[s] = Val(d)
    BY <2>2 DEF Inv, Kept, Holds
  <2> QED
    BY <2>3, ValsDiffer DEF Inv
<1> QED
  BY <1>1, InvariantHolds, PTL
=============================================================================
