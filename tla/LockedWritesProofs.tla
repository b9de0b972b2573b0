------------------------- MODULE LockedWritesProofs -------------------------
(***************************************************************************)
(* Proofs about LockedWrites, for any number of nodes, clients, keys and   *)
(* requests: type correctness; mutual exclusion on every key that is only  *)
(* written and whose lock has not expired; that the log is ahead of the    *)
(* tables; who can be refused a lock; and that the tables agree, in the    *)
(* end, on every key with at most one writer.                              *)
(***************************************************************************)
EXTENDS LockedWrites, TLAPS

-----------------------------------------------------------------------------
(* Types.                                                                  *)

LEMMA SeqFacts ==
  ASSUME NEW S, NEW s \in Seq(S)
  PROVE  /\ \A x \in S : /\ Append(s, x) \in Seq(S) /\ Append(s, x) # <<>>
                         /\ Append(s, x)[Len(Append(s, x))] = x
         /\ s # <<>> => Head(s) \in S /\ Tail(s) \in Seq(S) /\ s[Len(s)] \in S
<1>1. ASSUME NEW x \in S
      PROVE  /\ Append(s, x) \in Seq(S) /\ Append(s, x) # <<>>
             /\ Append(s, x)[Len(Append(s, x))] = x
  OBVIOUS
<1>2. ASSUME s # <<>> PROVE Head(s) \in S /\ Tail(s) \in Seq(S) /\ s[Len(s)] \in S
  BY <1>2
<1> QED
  BY <1>1, <1>2

\* A client has a request in flight whenever it is not idle.
HasRequest == \A c \in Clients : stage[c] # "idle" => issued[c] # <<>>
Typed == TypeOK /\ HasRequest

LEMMA LastType ==
  ASSUME Typed, NEW c \in Clients, stage[c] # "idle"
  PROVE  /\ Last(c) \in Requests /\ Last(c).key \in Keys
         /\ Last(c).op \in Ops
<1>1. issued[c] \in Seq(Requests) /\ issued[c] # <<>>
  BY DEF Typed, TypeOK, HasRequest
<1>2. Last(c) \in Requests
  BY <1>1, SeqFacts DEF Last
<1> QED
  BY <1>2 DEF Requests

LEMMA SlaveFacts ==
  ASSUME NEW s \in Slaves
  PROVE  s[1] \in Clients /\ s[2] \in Nodes
  BY DEF Slaves

LEMMA PerformType ==
  ASSUME TypeOK, NEW n \in Nodes, NEW r \in Requests, Perform(n, r)
  PROVE  /\ store' \in [Nodes -> [Keys -> Requests \cup {NoVal}]]
         /\ applied' \in [Nodes -> SUBSET Requests]
<1>1. /\ store \in [Nodes -> [Keys -> Requests \cup {NoVal}]]
      /\ applied \in [Nodes -> SUBSET Requests] /\ r.key \in Keys
  BY DEF Requests, TypeOK
<1>2. CASE r.op = "set"
  <2>1. /\ store' = [store EXCEPT ![n][r.key] = r]
        /\ applied' = [applied EXCEPT ![n] = @ \cup {r}]
    BY <1>2 DEF Perform
  <2>2. store' \in [Nodes -> [Keys -> Requests \cup {NoVal}]]
    BY <1>1, <2>1
  <2>3. applied' \in [Nodes -> SUBSET Requests]
    BY <1>1, <2>1
  <2> QED
    BY <2>2, <2>3
<1>3. CASE r.op # "set"
  BY <1>1, <1>3 DEF Perform
<1> QED
  BY <1>2, <1>3

LEMMA InitTyped == Init => Typed
  BY LockAssumption DEF Init, Typed, TypeOK, HasRequest, Stages

LEMMA IssueTyped ==
  ASSUME Typed, NEW c \in Clients, Issue(c)
  PROVE  /\ Typed' /\ stage' = [stage EXCEPT ![c] = "arrived"]
         /\ UNCHANGED <<lock, expired>>
         /\ \E r \in Requests : issued' = [issued EXCEPT ![c] = Append(issued[c], r)]
         /\ \A d \in Clients : d # c => issued'[d] = issued[d]
<1>1. PICK o \in Ops, k \in Keys : issued' = [issued EXCEPT ![c] =
        Append(@, [cl |-> c, seq |-> Len(@) + 1, op |-> o, key |-> k])]
  BY Zenon DEF Issue
<1>2. PICK r : r = [cl |-> c, seq |-> Len(issued[c]) + 1, op |-> o, key |-> k]
  BY Zenon
<1>3. issued \in [Clients -> Seq(Requests)] /\ issued[c] \in Seq(Requests)
  BY DEF Typed, TypeOK
<1>4. Len(issued[c]) + 1 \in Nat
  BY <1>3
<1>5. r \in Requests
  BY <1>2, <1>4 DEF Requests
<1>6. issued' = [issued EXCEPT ![c] = Append(issued[c], r)]
  BY <1>1, <1>2, <1>3
<1>7. Append(issued[c], r) \in Seq(Requests) /\ Append(issued[c], r) # <<>>
  BY <1>3, <1>5, SeqFacts
<1>8. issued' \in [Clients -> Seq(Requests)]
  BY <1>3, <1>6, <1>7
<1>9. /\ stage' = [stage EXCEPT ![c] = "arrived"]
      /\ UNCHANGED <<store, lock, fwd, imsg, wire, produced, applied, acked,
                     expired>>
  BY DEF Issue
<1>10. stage' \in [Clients -> Stages]
  BY <1>9 DEF Typed, TypeOK, Stages
<1>11. TypeOK'
  BY <1>8, <1>9, <1>10 DEF Typed, TypeOK
<1>12. \A d \in Clients : d # c => issued'[d] = issued[d]
  BY <1>3, <1>6
<1>13. HasRequest'
  <2>1. issued'[c] # <<>>
    BY <1>3, <1>6, <1>7
  <2>2. ASSUME NEW d \in Clients, d # c, stage'[d] # "idle" PROVE issued'[d] # <<>>
    <3>1. stage'[d] = stage[d]
      BY <1>9, <2>2 DEF Typed, TypeOK
    <3> QED
      BY <1>12, <2>2, <3>1 DEF Typed, HasRequest
  <2> QED
    BY <2>1, <2>2 DEF HasRequest
<1> QED
  BY <1>5, <1>6, <1>9, <1>11, <1>12, <1>13, Zenon DEF Typed

\* A step that moves the request of one client on.
LEMMA MoveTyped ==
  ASSUME Typed, NEW c \in Clients, stage[c] # "idle", NEW x \in Stages,
         stage' = [stage EXCEPT ![c] = x], UNCHANGED issued,
         store' \in [Nodes -> [Keys -> Requests \cup {NoVal}]],
         lock' \in [Keys -> Clients \cup {Free}],
         fwd' \in [Clients -> BOOLEAN],
         imsg' \in [Slaves -> Seq(Requests)], UNCHANGED wire,
         produced' \in SUBSET Requests,
         applied' \in [Nodes -> SUBSET Requests],
         acked' \in SUBSET Requests, UNCHANGED expired
  PROVE  Typed'
<1>1. stage' \in [Clients -> Stages]
  BY DEF Typed, TypeOK
<1>2. TypeOK'
  BY <1>1 DEF Typed, TypeOK
<1>3. HasRequest'
  BY DEF Typed, TypeOK, HasRequest
<1> QED
  BY <1>2, <1>3 DEF Typed

LEMMA PropagateType ==
  ASSUME TypeOK, NEW c \in Clients, NEW r \in Requests
  PROVE  Propagate(c, r) \in [Slaves -> Seq(Requests)]
<1>1. \A s \in Slaves : imsg[s] \in Seq(Requests) /\ Append(imsg[s], r) \in Seq(Requests)
  BY SeqFacts DEF TypeOK
<1> QED
  BY <1>1 DEF Propagate

LEMMA ReqRecvTyped ==
  ASSUME Typed, NEW c \in Clients, ReqRecv(c)
  PROVE  Typed'
<1>1. stage[c] = "arrived" /\ UNCHANGED <<store, issued, wire, applied, acked,
                                          expired>>
  BY DEF ReqRecv
<1>2. Last(c) \in Requests /\ Last(c).key \in Keys
  BY <1>1, LastType
<1>3. PICK f \in BOOLEAN : f = (fwd[c] \/ Last(c).op = "set")
  BY Zenon
<1>4. fwd' = [fwd EXCEPT ![c] = f]
  BY <1>3 DEF ReqRecv
<1>5. lock' = IF Lockable(Last(c).key) THEN [lock EXCEPT ![Last(c).key] = c] ELSE lock
  BY DEF ReqRecv
<1>6. fwd' \in [Clients -> BOOLEAN]
  BY <1>3, <1>4, Zenon DEF Typed, TypeOK
<1>7. lock' \in [Keys -> Clients \cup {Free}]
  BY <1>2, <1>5 DEF Typed, TypeOK
<1>8. imsg' \in {imsg, Propagate(c, Last(c))}
  BY DEF ReqRecv
<1>9. imsg' \in [Slaves -> Seq(Requests)]
  BY <1>2, <1>8, PropagateType DEF Typed, TypeOK
<1>10. produced' \in {produced, produced \cup {Last(c)}}
  BY DEF ReqRecv, Produce
<1>11. produced' \in SUBSET Requests
  BY <1>2, <1>10 DEF Typed, TypeOK
<1>12. PICK x \in {"dropped", "queued"} : stage' = [stage EXCEPT ![c] = x]
  BY DEF ReqRecv
<1>13. /\ x \in Stages /\ store' \in [Nodes -> [Keys -> Requests \cup {NoVal}]]
       /\ applied' \in [Nodes -> SUBSET Requests] /\ acked' \in SUBSET Requests
  BY <1>1 DEF Stages, Typed, TypeOK
<1> QED
  BY <1>1, <1>6, <1>7, <1>9, <1>11, <1>12, <1>13, MoveTyped, Zenon

LEMMA ReqSendTyped ==
  ASSUME Typed, NEW c \in Clients, ReqSend(c)
  PROVE  Typed'
<1>1. /\ stage[c] # "idle" /\ stage' = [stage EXCEPT ![c] = "sent"]
      /\ UNCHANGED <<store, lock, fwd, issued, imsg, wire, produced, applied, acked,
                     expired>>
  BY DEF ReqSend
<1>2. "sent" \in Stages
  BY DEF Stages
<1> QED
  BY <1>1, <1>2, MoveTyped, Zenon DEF Typed, TypeOK

LEMMA HandleRequestTyped ==
  ASSUME Typed, NEW c \in Clients, HandleRequest(c)
  PROVE  Typed'
<1>1. /\ stage[c] # "idle" /\ stage' = [stage EXCEPT ![c] = "answered"]
      /\ UNCHANGED <<lock, fwd, issued, imsg, wire, produced, acked, expired>>
      /\ Perform(Home[c], Last(c))
  BY DEF HandleRequest
<1>2. "answered" \in Stages /\ Home[c] \in Nodes /\ Last(c) \in Requests
  BY <1>1, LastType, LockAssumption DEF Stages
<1>3. /\ store' \in [Nodes -> [Keys -> Requests \cup {NoVal}]]
      /\ applied' \in [Nodes -> SUBSET Requests]
  BY <1>1, <1>2, PerformType DEF Typed
<1> QED
  BY <1>1, <1>2, <1>3, MoveTyped, Zenon DEF Typed, TypeOK

LEMMA RspRecvTyped ==
  ASSUME Typed, NEW c \in Clients, RspRecv(c)
  PROVE  Typed'
<1>1. /\ stage[c] # "idle" /\ stage' = [stage EXCEPT ![c] = "reply"]
      /\ UNCHANGED <<store, fwd, issued, imsg, wire, produced, applied, acked,
                     expired>>
      /\ lock' = [lock EXCEPT ![Last(c).key] = Free]
  BY DEF RspRecv, Unlock
<1>2. "reply" \in Stages
  BY DEF Stages
<1>3. lock' \in [Keys -> Clients \cup {Free}]
  BY <1>1, Zenon DEF Typed, TypeOK
<1> QED
  BY <1>1, <1>2, <1>3, MoveTyped, Zenon DEF Typed, TypeOK

LEMMA RspSendTyped ==
  ASSUME Typed, NEW c \in Clients, RspSend(c)
  PROVE  Typed'
<1>1. /\ stage[c] # "idle" /\ stage' = [stage EXCEPT ![c] = "idle"]
      /\ UNCHANGED <<store, lock, fwd, issued, imsg, wire, produced, applied,
                     expired>>
      /\ acked' \in {acked, acked \cup {Last(c)}}
  BY DEF RspSend
<1>2. "idle" \in Stages /\ Last(c) \in Requests
  BY <1>1, LastType DEF Stages
<1>3. acked' \in SUBSET Requests
  BY <1>1, <1>2 DEF Typed, TypeOK
<1> QED
  BY <1>1, <1>2, <1>3, MoveTyped, Zenon DEF Typed, TypeOK

LEMMA ReplicaTyped ==
  ASSUME Typed, NEW s \in Slaves, ReplicaReqSend(s) \/ ReplicaHandle(s)
  PROVE  Typed' /\ UNCHANGED <<lock, issued, stage, expired>>
<1>1. UNCHANGED <<lock, fwd, issued, stage, produced, acked, expired>>
  BY DEF ReplicaReqSend, ReplicaHandle
<1>2. /\ imsg \in [Slaves -> Seq(Requests)] /\ wire \in [Slaves -> Seq(Requests)]
      /\ imsg[s] \in Seq(Requests) /\ wire[s] \in Seq(Requests)
  BY DEF Typed, TypeOK
<1>3. HasRequest'
  BY <1>1 DEF Typed, HasRequest
<1>4. CASE ReplicaReqSend(s)
  <2>1. /\ imsg[s] # <<>> /\ UNCHANGED <<store, applied>>
        /\ imsg' = [imsg EXCEPT ![s] = Tail(imsg[s])]
        /\ wire' = [wire EXCEPT ![s] = Append(wire[s], Head(imsg[s]))]
    BY <1>2, <1>4 DEF ReplicaReqSend
  <2>2. Tail(imsg[s]) \in Seq(Requests) /\ Append(wire[s], Head(imsg[s])) \in Seq(Requests)
    BY <1>2, <2>1, SeqFacts
  <2>3. imsg' \in [Slaves -> Seq(Requests)] /\ wire' \in [Slaves -> Seq(Requests)]
    BY <1>2, <2>1, <2>2
  <2> QED
    BY <1>1, <1>3, <2>1, <2>3 DEF Typed, TypeOK
<1>5. CASE ReplicaHandle(s)
  <2>1. /\ wire[s] # <<>> /\ UNCHANGED imsg /\ Perform(s[2], Head(wire[s]))
        /\ wire' = [wire EXCEPT ![s] = Tail(wire[s])]
    BY <1>2, <1>5 DEF ReplicaHandle
  <2>2. Tail(wire[s]) \in Seq(Requests) /\ Head(wire[s]) \in Requests
    BY <1>2, <2>1, SeqFacts
  <2>3. wire' \in [Slaves -> Seq(Requests)]
    BY <1>2, <2>1, <2>2
  <2>4. /\ store' \in [Nodes -> [Keys -> Requests \cup {NoVal}]]
        /\ applied' \in [Nodes -> SUBSET Requests]
    BY <2>1, <2>2, SlaveFacts, PerformType DEF Typed
  <2> QED
    BY <1>1, <1>3, <2>1, <2>3, <2>4 DEF Typed, TypeOK
<1> QED
  BY <1>1, <1>4, <1>5

LEMMA ExpireTyped ==
  ASSUME Typed, NEW k \in Keys, Expire(k)
  PROVE  Typed'
<1>1. /\ lock' = [lock EXCEPT ![k] = Free] /\ expired' = expired \cup {k}
      /\ UNCHANGED <<store, fwd, issued, stage, imsg, wire, produced, applied, acked>>
  BY DEF Expire
<1>2. lock' \in [Keys -> Clients \cup {Free}]
  BY <1>1 DEF Typed, TypeOK
<1> QED
  BY <1>1, <1>2 DEF Typed, TypeOK, HasRequest

LEMMA NextTyped == Typed /\ [Next]_vars => Typed'
<1> SUFFICES ASSUME Typed, [Next]_vars PROVE Typed'
  OBVIOUS
<1>1. CASE UNCHANGED vars
  BY <1>1 DEF vars, Typed, TypeOK, HasRequest
<1> QED
  BY <1>1, IssueTyped, ReqRecvTyped, ReqSendTyped, HandleRequestTyped, RspRecvTyped,
     RspSendTyped, ReplicaTyped, ExpireTyped, Zenon DEF Next, Advance

\* Type correctness of the active-active topology with locks.
THEOREM LockTypeCorrect == Spec => []TypeOK
<1>1. Typed => TypeOK
  BY DEF Typed
<1> QED
  BY <1>1, InitTyped, NextTyped, PTL DEF Spec

-----------------------------------------------------------------------------
(* Mutual exclusion.                                                       *)

\* What a client works on does not change under it.
LEMMA SameLast ==
  ASSUME NEW c \in Clients, issued'[c] = issued[c]
  PROVE  Last(c)' = Last(c)
  BY DEF Last

\* A key that is protected after a step was protected before it.
LEMMA SameProtected ==
  ASSUME UNCHANGED <<issued, expired>>
  PROVE  \A k : Protected(k)' <=> Protected(k)
  BY DEF Protected

LEMMA IssueProtected ==
  ASSUME Typed, NEW c \in Clients, Issue(c), NEW k \in Keys, Protected(k)'
  PROVE  Protected(k)
<1>1. PICK r \in Requests : issued' = [issued EXCEPT ![c] = Append(issued[c], r)]
  BY IssueTyped
<1>2. UNCHANGED expired /\ issued \in [Clients -> Seq(Requests)]
  BY IssueTyped DEF Typed, TypeOK
<1>3. ASSUME NEW d \in Clients, NEW i \in DOMAIN issued[d]
      PROVE  i \in DOMAIN issued'[d] /\ issued'[d][i] = issued[d][i]
  <2>1. CASE d = c
    BY <1>1, <1>2, <1>3, <2>1
  <2>2. CASE d # c
    BY <1>1, <1>2, <1>3, <2>2
  <2> QED
    BY <2>1, <2>2
<1> QED
  BY <1>2, <1>3 DEF Protected

\* A request for a protected key is a set.
LEMMA ProtectedIsSet ==
  ASSUME Typed, NEW c \in Clients, stage[c] # "idle", Protected(Last(c).key)
  PROVE  Last(c).op = "set"
<1>1. issued[c] \in Seq(Requests) /\ issued[c] # <<>>
  BY DEF Typed, TypeOK, HasRequest
<1>2. Len(issued[c]) \in DOMAIN issued[c]
  BY <1>1
<1> QED
  BY <1>2 DEF Protected, Last

\* A step of client c that leaves the locks of the others alone.
LEMMA OthersHold ==
  ASSUME Typed, HoldsLock, NEW c \in Clients, NEW x,
         stage' = [stage EXCEPT ![c] = x],
         \A d \in Clients : d # c => issued'[d] = issued[d],
         \A k \in Keys : Protected(k)' =>
           Protected(k) /\ (lock'[k] = lock[k] \/ lock[k] \in {Free, c}),
         x \in {"queued", "sent", "answered"} /\ Protected(Last(c).key)'
           => lock'[Last(c)'.key] = c
  PROVE  HoldsLock'
<1>1. ASSUME NEW d \in Clients, d # c, Working(d)', Protected(Last(d).key)'
      PROVE  lock'[Last(d)'.key] = d
  <2>1. stage'[d] = stage[d] /\ Last(d)' = Last(d)
    BY <1>1, SameLast DEF Typed, TypeOK
  <2>2. Working(d) /\ stage[d] # "idle"
    BY <1>1, <2>1 DEF Working
  <2>3. PICK k \in Keys : k = Last(d).key
    BY <2>2, LastType
  <2>4. Protected(k)'
    BY <1>1, <2>1, <2>3
  <2>5. Protected(k) /\ (lock'[k] = lock[k] \/ lock[k] \in {Free, c})
    BY <2>4
  <2>6. lock[k] = d
    BY <2>2, <2>3, <2>5 DEF HoldsLock
  <2>7. lock[k] \notin {Free, c}
    BY <1>1, <2>6, LockAssumption
  <2> QED
    BY <2>1, <2>3, <2>5, <2>6, <2>7
<1>2. ASSUME Working(c)', Protected(Last(c).key)' PROVE lock'[Last(c)'.key] = c
  <2>1. stage'[c] = x
    BY DEF Typed, TypeOK
  <2> QED
    BY <1>2, <2>1 DEF Working
<1> QED
  BY <1>1, <1>2, Zenon DEF HoldsLock

LEMMA NextHoldsLock ==
  ASSUME Typed, HoldsLock, [Next]_vars
  PROVE  HoldsLock'
<1>1. ASSUME NEW c \in Clients, Issue(c) PROVE HoldsLock'
  <2>1. \A k \in Keys : Protected(k)' => Protected(k)
    BY <1>1, IssueProtected
  <2> QED
    BY <1>1, <2>1, IssueTyped, OthersHold, Zenon
<1>2. ASSUME NEW c \in Clients, ReqRecv(c) PROVE HoldsLock'
  <2>1. /\ stage[c] # "idle" /\ UNCHANGED <<issued, expired>>
        /\ lock' = IF Lockable(Last(c).key) THEN [lock EXCEPT ![Last(c).key] = c] ELSE lock
    BY <1>2 DEF ReqRecv
  <2>2. Last(c).key \in Keys /\ Last(c)' = Last(c)
    BY <2>1, LastType, SameLast, Zenon
  <2>3. PICK x \in {"queued", "dropped"} :
          /\ stage' = [stage EXCEPT ![c] = x]
          /\ x = "queued" /\ Last(c).op = "set" => Lockable(Last(c).key)
    BY <1>2, <2>2 DEF ReqRecv
  <2>4. \A k \in Keys : Protected(k)' =>
          Protected(k) /\ (lock'[k] = lock[k] \/ lock[k] \in {Free, c})
    BY <2>1, <2>2, SameProtected DEF Typed, TypeOK, Lockable
  <2>5. ASSUME x = "queued", Protected(Last(c).key)' PROVE lock'[Last(c).key] = c
    <3>1. Protected(Last(c).key)
      BY <2>1, <2>2, <2>5, SameProtected
    <3>2. Last(c).op = "set"
      BY <2>1, <3>1, ProtectedIsSet
    <3> QED
      BY <2>1, <2>2, <2>3, <2>5, <3>2 DEF Typed, TypeOK
  <2>6. x \in {"queued", "sent", "answered"} /\ Protected(Last(c).key)'
          => lock'[Last(c)'.key] = c
    BY <2>2, <2>3, <2>5
  <2> QED
    BY <2>1, <2>3, <2>4, <2>6, OthersHold, Zenon
<1>3. ASSUME NEW c \in Clients, ReqSend(c) \/ HandleRequest(c) \/ RspSend(c)
      PROVE  HoldsLock'
  <2>1. PICK x \in {"sent", "answered", "idle"} :
          /\ stage' = [stage EXCEPT ![c] = x] /\ UNCHANGED <<issued, lock,
                                                             expired>>
          /\ x # "idle" => Working(c)
    BY <1>3 DEF ReqSend, HandleRequest, RspSend, Working
  <2>2. Working(c) /\ Protected(Last(c).key) => lock[Last(c).key] = c
    BY DEF HoldsLock
  <2>3. Last(c)' = Last(c) /\ Protected(Last(c).key)' = Protected(Last(c).key)
    BY <2>1 DEF Last, Protected
  <2>4. x \in {"queued", "sent", "answered"} /\ Protected(Last(c).key)'
          => lock'[Last(c)'.key] = c
    BY <2>1, <2>2, <2>3
  <2>5. \A k \in Keys : Protected(k)' => Protected(k) /\ lock'[k] = lock[k]
    BY <2>1, SameProtected
  <2> QED
    BY <2>1, <2>4, <2>5, OthersHold, Zenon
<1>4. ASSUME NEW c \in Clients, RspRecv(c) PROVE HoldsLock'
  <2>1. /\ stage' = [stage EXCEPT ![c] = "reply"] /\ UNCHANGED <<issued, expired>>
        /\ lock' = [lock EXCEPT ![Last(c).key] = Free] /\ Working(c)
    BY <1>4 DEF RspRecv, Unlock, Working
  <2>2. Protected(Last(c).key) => lock[Last(c).key] = c
    BY <2>1 DEF HoldsLock
  <2>3. \A k \in Keys : Protected(k)' =>
          Protected(k) /\ (lock'[k] = lock[k] \/ lock[k] \in {Free, c})
    BY <2>1, <2>2, SameProtected DEF Typed, TypeOK
  <2> QED
    BY <2>1, <2>3, OthersHold, Zenon
<1>5. ASSUME NEW s \in Slaves, ReplicaReqSend(s) \/ ReplicaHandle(s) PROVE HoldsLock'
  <2>1. UNCHANGED <<lock, issued, stage, expired>>
    BY <1>5, ReplicaTyped
  <2> QED
    BY <2>1 DEF HoldsLock, Working, Last, Protected
<1>6. ASSUME NEW k \in Keys, Expire(k) PROVE HoldsLock'
  <2>1. /\ lock' = [lock EXCEPT ![k] = Free] /\ expired' = expired \cup {k}
        /\ UNCHANGED <<issued, stage>>
    BY <1>6 DEF Expire
  <2>2. ASSUME NEW d \in Clients, Working(d)', Protected(Last(d).key)'
        PROVE  lock'[Last(d)'.key] = d
    <3>1. Working(d) /\ Last(d)' = Last(d) /\ stage[d] # "idle"
      BY <2>1, <2>2 DEF Working, Last
    <3>2. Last(d).key \in Keys /\ Last(d).key # k /\ Protected(Last(d).key)
      BY <2>1, <2>2, <3>1, LastType, Zenon DEF Protected
    <3> QED
      BY <2>1, <3>1, <3>2 DEF HoldsLock, Typed, TypeOK
  <2> QED
    BY <2>2, Zenon DEF HoldsLock
<1>7. CASE UNCHANGED vars
  BY <1>7 DEF vars, HoldsLock, Working, Last, Protected
<1> QED
  BY <1>1, <1>2, <1>3, <1>4, <1>5, <1>6, <1>7, Zenon DEF Next, Advance

\* On a key that is only written and whose lock has not expired, a set works
\* under its own lock from req_recv to rsp_recv, whatever clients do with the
\* other keys.
THEOREM HoldsLockHolds == Spec => []HoldsLock
<1>1. Init => HoldsLock
  BY DEF Init, HoldsLock, Working
<1>2. Typed /\ HoldsLock /\ [Next]_vars => HoldsLock'
  BY NextHoldsLock
<1> QED
  BY <1>1, <1>2, InitTyped, NextTyped, PTL DEF Spec

\* On such a key the lock keeps sets apart, whichever proxies they go through.
THEOREM OneAtATimeHolds == Spec => []OneAtATime
<1>1. HoldsLock => OneAtATime
  BY Zenon DEF HoldsLock, OneAtATime
<1> QED
  BY <1>1, HoldsLockHolds, PTL

-----------------------------------------------------------------------------
(* The log is ahead of the tables.                                         *)

\* What makes AppliedIsLogged inductive: the same of every set on its way to a
\* datalet.
Logged ==
  /\ \A c \in Clients :
       stage[c] \in {"queued", "sent"} /\ Last(c).op = "set" => Last(c) \in produced
  /\ \A s \in Slaves : \A i \in DOMAIN imsg[s] : imsg[s][i] \in produced
  /\ \A s \in Slaves : \A i \in DOMAIN wire[s] : wire[s][i] \in produced
  /\ AppliedIsLogged

LEMMA SeqElements ==
  ASSUME NEW S, NEW q \in Seq(S)
  PROVE  /\ \A x \in S : \A i \in DOMAIN Append(q, x) :
              Append(q, x)[i] = x \/ (i \in DOMAIN q /\ Append(q, x)[i] = q[i])
         /\ q # <<>> => /\ 1 \in DOMAIN q /\ Head(q) = q[1]
                        /\ \A i \in DOMAIN Tail(q) :
                             i + 1 \in DOMAIN q /\ Tail(q)[i] = q[i + 1]
<1>1. ASSUME NEW x \in S, NEW i \in DOMAIN Append(q, x)
      PROVE  Append(q, x)[i] = x \/ (i \in DOMAIN q /\ Append(q, x)[i] = q[i])
  BY <1>1
<1>2. ASSUME q # <<>>
      PROVE  /\ 1 \in DOMAIN q /\ Head(q) = q[1]
             /\ \A i \in DOMAIN Tail(q) : i + 1 \in DOMAIN q /\ Tail(q)[i] = q[i + 1]
  BY <1>2
<1> QED
  BY <1>1, <1>2

\* A datalet that carries out a logged request keeps to the log.
LEMMA PerformLogged ==
  ASSUME TypeOK, AppliedIsLogged, NEW n \in Nodes, NEW r, Perform(n, r),
         r.op = "set" => r \in produced, UNCHANGED produced
  PROVE  AppliedIsLogged'
<1>1. CASE r.op = "set"
  <2>1. applied' = [applied EXCEPT ![n] = @ \cup {r}] /\ r \in produced
    BY <1>1 DEF Perform
  <2> QED
    BY <2>1 DEF TypeOK, AppliedIsLogged
<1>2. CASE r.op # "set"
  <2>1. UNCHANGED applied
    BY <1>2 DEF Perform
  <2> QED
    BY <2>1 DEF AppliedIsLogged
<1> QED
  BY <1>1, <1>2

LEMMA ReqRecvLogged ==
  ASSUME Typed, Logged, NEW c \in Clients, ReqRecv(c)
  PROVE  Logged'
<1>1. stage[c] # "idle" /\ UNCHANGED <<issued, wire, applied>>
  BY DEF ReqRecv
<1>2. Last(c) \in Requests
  BY <1>1, LastType
<1>3. PICK f \in BOOLEAN : f = (fwd[c] \/ Last(c).op = "set")
  BY Zenon
<1>4. /\ produced \subseteq produced'
      /\ f => Last(c) \in produced'
  BY <1>3, Zenon DEF ReqRecv, Produce
<1>5. imsg' = imsg \/ (f /\ imsg' = Propagate(c, Last(c)))
  BY <1>3, Zenon DEF ReqRecv
<1>6. ASSUME NEW d \in Clients, stage'[d] \in {"queued", "sent"}, Last(d)'.op = "set"
      PROVE  Last(d)' \in produced'
  <2>1. Last(d)' = Last(d)
    BY <1>1 DEF Last
  <2>2. CASE d = c
    BY <1>3, <1>4, <1>6, <2>1, <2>2, Zenon
  <2>3. CASE d # c
    <3>1. stage'[d] = stage[d]
      BY <2>3 DEF ReqRecv, Typed, TypeOK
    <3> QED
      BY <1>4, <1>6, <2>1, <3>1 DEF Logged
  <2> QED
    BY <2>2, <2>3
<1>7. ASSUME NEW s \in Slaves, NEW i \in DOMAIN imsg'[s] PROVE imsg'[s][i] \in produced'
  <2>1. imsg'[s] = imsg[s] \/ (f /\ imsg'[s] = Append(imsg[s], Last(c)))
    BY <1>5 DEF Propagate
  <2>2. imsg[s] \in Seq(Requests)
    BY DEF Typed, TypeOK
  <2>3. (imsg'[s][i] = Last(c) /\ f) \/ (i \in DOMAIN imsg[s] /\ imsg'[s][i] = imsg[s][i])
    BY <1>2, <1>7, <2>1, <2>2, SeqElements
  <2> QED
    BY <1>4, <2>3 DEF Logged
<1>8. \A s \in Slaves : \A i \in DOMAIN wire'[s] : wire'[s][i] \in produced'
  BY <1>1, <1>4 DEF Logged
<1>9. AppliedIsLogged'
  BY <1>1, <1>4 DEF Logged, AppliedIsLogged
<1> QED
  BY <1>6, <1>7, <1>8, <1>9 DEF Logged

LEMMA ReplicaLogged ==
  ASSUME Typed, Logged, NEW s \in Slaves, ReplicaReqSend(s) \/ ReplicaHandle(s)
  PROVE  Logged'
<1>1. UNCHANGED <<issued, stage, produced>>
  BY DEF ReplicaReqSend, ReplicaHandle
<1>2. /\ imsg \in [Slaves -> Seq(Requests)] /\ wire \in [Slaves -> Seq(Requests)]
      /\ imsg[s] \in Seq(Requests) /\ wire[s] \in Seq(Requests)
  BY DEF Typed, TypeOK
<1>3. \A c \in Clients : stage'[c] \in {"queued", "sent"} /\ Last(c)'.op = "set"
        => Last(c)' \in produced'
  BY <1>1 DEF Logged, Last
<1>4. CASE ReplicaReqSend(s)
  <2>1. /\ imsg[s] # <<>> /\ UNCHANGED applied
        /\ imsg' = [imsg EXCEPT ![s] = Tail(imsg[s])]
        /\ wire' = [wire EXCEPT ![s] = Append(wire[s], Head(imsg[s]))]
    BY <1>2, <1>4 DEF ReplicaReqSend
  <2>2. Head(imsg[s]) \in produced /\ Head(imsg[s]) \in Requests
    <3>1. PICK q \in Seq(Requests) : q = imsg[s] /\ q # <<>>
      BY <1>2, <2>1
    <3>2. 1 \in DOMAIN q /\ Head(q) = q[1] /\ Head(q) \in Requests
      BY <3>1, SeqElements, SeqFacts
    <3> QED
      BY <3>1, <3>2, Zenon DEF Logged
  <2>3. ASSUME NEW t \in Slaves, NEW i \in DOMAIN imsg'[t] PROVE imsg'[t][i] \in produced
    <3>1. imsg'[t] = IF t = s THEN Tail(imsg[s]) ELSE imsg[t]
      BY <1>2, <2>1
    <3> QED
      BY <1>2, <2>1, <2>3, <3>1, SeqElements DEF Logged
  <2>4. ASSUME NEW t \in Slaves, NEW i \in DOMAIN wire'[t] PROVE wire'[t][i] \in produced
    <3>1. wire'[t] = IF t = s THEN Append(wire[s], Head(imsg[s])) ELSE wire[t]
      BY <1>2, <2>1
    <3> QED
      BY <1>2, <2>2, <2>4, <3>1, SeqElements DEF Logged
  <2> QED
    BY <1>1, <1>3, <2>1, <2>3, <2>4 DEF Logged, AppliedIsLogged
<1>5. CASE ReplicaHandle(s)
  <2>1. /\ wire[s] # <<>> /\ UNCHANGED imsg /\ Perform(s[2], Head(wire[s]))
        /\ wire' = [wire EXCEPT ![s] = Tail(wire[s])]
    BY <1>2, <1>5 DEF ReplicaHandle
  <2>2. Head(wire[s]) \in produced
    BY <1>2, <2>1, SeqElements DEF Logged
  <2>3. AppliedIsLogged'
    BY <1>1, <2>1, <2>2, SlaveFacts, PerformLogged DEF Logged, Typed
  <2>4. ASSUME NEW t \in Slaves, NEW i \in DOMAIN wire'[t] PROVE wire'[t][i] \in produced
    <3>1. wire'[t] = IF t = s THEN Tail(wire[s]) ELSE wire[t]
      BY <1>2, <2>1
    <3>2. PICK q \in Seq(Requests) : q = wire[s] /\ q # <<>>
      BY <1>2, <2>1
    <3>3. CASE t = s
      <4>1. i + 1 \in DOMAIN q /\ wire'[t][i] = q[i + 1]
        BY <2>4, <3>1, <3>2, <3>3, SeqElements
      <4> QED
        BY <3>2, <4>1, Zenon DEF Logged
    <3>4. CASE t # s
      BY <2>4, <3>1, <3>4, Zenon DEF Logged
    <3> QED
      BY <3>3, <3>4
  <2> QED
    BY <1>1, <1>3, <2>1, <2>3, <2>4, Zenon DEF Logged
<1> QED
  BY <1>4, <1>5

LEMMA NextLogged == Typed /\ Logged /\ [Next]_vars => Logged'
<1> SUFFICES ASSUME Typed, Logged, [Next]_vars PROVE Logged'
  OBVIOUS
<1>1. ASSUME NEW c \in Clients, Issue(c) PROVE Logged'
  <2>1. /\ stage' = [stage EXCEPT ![c] = "arrived"]
        /\ UNCHANGED <<imsg, wire, produced, applied>>
    BY <1>1 DEF Issue
  <2>2. ASSUME NEW d \in Clients, stage'[d] \in {"queued", "sent"}
        PROVE  stage'[d] = stage[d] /\ Last(d)' = Last(d)
    <3>1. d # c /\ stage'[d] = stage[d]
      BY <2>1, <2>2 DEF Typed, TypeOK
    <3> QED
      BY <1>1, <3>1, IssueTyped, SameLast
  <2> QED
    BY <2>1, <2>2 DEF Logged, AppliedIsLogged
<1>2. ASSUME NEW c \in Clients, ReqSend(c) \/ RspRecv(c) \/ RspSend(c) PROVE Logged'
  <2>1. /\ UNCHANGED <<issued, imsg, wire, produced, applied>>
        /\ \A d \in Clients : stage'[d] \in {"queued", "sent"}
             => stage[d] \in {"queued", "sent"}
    BY <1>2 DEF ReqSend, RspRecv, RspSend, Typed, TypeOK
  <2> QED
    BY <2>1 DEF Logged, AppliedIsLogged, Last
<1>3. ASSUME NEW c \in Clients, HandleRequest(c) PROVE Logged'
  <2>1. /\ UNCHANGED <<issued, imsg, wire, produced>> /\ Perform(Home[c], Last(c))
        /\ stage[c] = "sent"
        /\ \A d \in Clients : stage'[d] \in {"queued", "sent"}
             => stage[d] \in {"queued", "sent"}
    BY <1>3 DEF HandleRequest, Typed, TypeOK
  <2>2. Home[c] \in Nodes /\ (Last(c).op = "set" => Last(c) \in produced)
    BY <2>1, LockAssumption DEF Logged
  <2>3. AppliedIsLogged'
    BY <2>1, <2>2, PerformLogged DEF Logged, Typed
  <2> QED
    BY <2>1, <2>3, Zenon DEF Logged, Last
<1>4. ASSUME NEW k \in Keys, Expire(k) PROVE Logged'
  BY <1>4, Zenon DEF Expire, Logged, AppliedIsLogged, Last
<1>5. CASE UNCHANGED vars
  BY <1>5 DEF vars, Logged, AppliedIsLogged, Last
<1> QED
  BY <1>1, <1>2, <1>3, <1>4, <1>5, ReqRecvLogged, ReplicaLogged, Zenon DEF Next, Advance

\* Whatever a datalet stores, through its own proxy or through a slave link of
\* another, req_recv handed to the Kafka producer before: the log that
\* recover_kafka replays is never behind a table.
THEOREM AppliedIsLoggedHolds == Spec => []AppliedIsLogged
<1>1. Init => Logged
  BY DEF Init, Logged, AppliedIsLogged
<1>2. Logged => AppliedIsLogged
  BY DEF Logged
<1> QED
  BY <1>1, <1>2, InitTyped, NextTyped, NextLogged, PTL DEF Spec

-----------------------------------------------------------------------------
(* Who is dropped.                                                         *)

\* A lock that is set belongs to a request between req_recv and rsp_recv.
LockOwner ==
  \A k \in Keys, c \in Clients : lock[k] = c => Working(c) /\ Last(c).key = k

\* What a client has issued stays issued.
LEMMA IssuedStays ==
  ASSUME Typed, [Next]_vars, NEW d \in Clients, NEW i \in DOMAIN issued[d]
  PROVE  i \in DOMAIN issued'[d] /\ issued'[d][i] = issued[d][i]
<1>1. ASSUME NEW c \in Clients, Issue(c)
      PROVE  i \in DOMAIN issued'[d] /\ issued'[d][i] = issued[d][i]
  <2>1. PICK r \in Requests : issued' = [issued EXCEPT ![c] = Append(issued[c], r)]
    BY <1>1, IssueTyped
  <2>2. issued \in [Clients -> Seq(Requests)]
    BY Zenon DEF Typed, TypeOK
  <2>3. CASE d = c
    BY <2>1, <2>2, <2>3
  <2>4. CASE d # c
    BY <2>1, <2>2, <2>4
  <2> QED
    BY <2>3, <2>4
<1>2. ASSUME UNCHANGED issued
      PROVE  i \in DOMAIN issued'[d] /\ issued'[d][i] = issued[d][i]
  BY <1>2
<1>3. UNCHANGED issued \/ \E c \in Clients : Issue(c)
  BY Zenon DEF Next, Advance, ReqRecv, ReqSend, HandleRequest, RspRecv, RspSend,
     ReplicaReqSend, ReplicaHandle, Expire, vars
<1> QED
  BY <1>1, <1>2, <1>3

\* The request in flight is one of those issued.
LEMMA LastIssued ==
  ASSUME Typed, NEW c \in Clients, stage[c] # "idle"
  PROVE  /\ Len(issued[c]) \in DOMAIN issued[c]
         /\ issued[c][Len(issued[c])] = Last(c)
<1>1. issued[c] \in Seq(Requests) /\ issued[c] # <<>>
  BY Zenon DEF Typed, TypeOK, HasRequest
<1> QED
  BY <1>1 DEF Last

\* A step of client c leaves the request of the others in place.
LEMMA OthersStay ==
  ASSUME Typed, NEW c \in Clients, NEW x, stage' = [stage EXCEPT ![c] = x],
         UNCHANGED issued
  PROVE  /\ stage'[c] = x /\ Last(c)' = Last(c)
         /\ \A d \in Clients : Last(d)' = Last(d)
         /\ \A d \in Clients : d # c => stage'[d] = stage[d]
<1>1. stage \in [Clients -> Stages]
  BY Zenon DEF Typed, TypeOK
<1>2. \A d \in Clients : Last(d)' = Last(d)
  BY DEF Last
<1> QED
  BY <1>1, <1>2

LEMMA OwnerStep ==
  ASSUME Typed, LockOwner, [Next]_vars
  PROVE  LockOwner'
<1> USE LockAssumption
<1>0. lock \in [Keys -> Clients \cup {Free}] /\ stage \in [Clients -> Stages]
  BY Zenon DEF Typed, TypeOK
<1>1. ASSUME NEW c \in Clients, Issue(c) PROVE LockOwner'
  <2>1. /\ stage[c] = "idle" /\ stage' = [stage EXCEPT ![c] = "arrived"]
        /\ UNCHANGED lock /\ \A d \in Clients : d # c => issued'[d] = issued[d]
    BY <1>1, IssueTyped DEF Issue
  <2>2. ASSUME NEW k \in Keys, NEW d \in Clients, lock'[k] = d
        PROVE  Working(d)' /\ Last(d)'.key = k
    <3>1. Working(d) /\ Last(d).key = k
      BY <2>1, <2>2 DEF LockOwner
    <3>2. d # c
      BY <2>1, <3>1 DEF Working
    <3> QED
      BY <1>0, <2>1, <3>1, <3>2, SameLast DEF Working
  <2> QED
    BY <2>2 DEF LockOwner
<1>2. ASSUME NEW c \in Clients, ReqRecv(c) PROVE LockOwner'
  <2>1. /\ stage[c] = "arrived" /\ UNCHANGED issued
        /\ lock' = IF Lockable(Last(c).key) THEN [lock EXCEPT ![Last(c).key] = c] ELSE lock
    BY <1>2 DEF ReqRecv
  <2>2. PICK x \in {"queued", "dropped"} : /\ stage' = [stage EXCEPT ![c] = x]
                                           /\ Lockable(Last(c).key) => x = "queued"
    BY <1>2 DEF ReqRecv
  <2>3. /\ stage'[c] = x /\ \A d \in Clients : Last(d)' = Last(d)
        /\ \A d \in Clients : d # c => stage'[d] = stage[d]
    BY <2>1, <2>2, OthersStay, Zenon
  <2>4. ASSUME NEW k \in Keys, NEW d \in Clients, lock'[k] = d
        PROVE  Working(d)' /\ Last(d)'.key = k
    <3>1. CASE lock[k] = d
      <4>1. Working(d) /\ Last(d).key = k
        BY <3>1 DEF LockOwner
      <4>2. d # c
        BY <2>1, <4>1 DEF Working
      <4> QED
        BY <2>3, <4>1, <4>2 DEF Working
    <3>2. CASE lock[k] # d
      <4>1. Lockable(Last(c).key) /\ Last(c).key = k /\ d = c
        BY <1>0, <2>1, <2>4, <3>2
      <4> QED
        BY <2>2, <2>3, <4>1 DEF Working
    <3> QED
      BY <3>1, <3>2
  <2> QED
    BY <2>4 DEF LockOwner
<1>3. ASSUME NEW c \in Clients, ReqSend(c) \/ HandleRequest(c) \/ RspSend(c)
      PROVE  LockOwner'
  <2>1. PICK x \in {"sent", "answered", "idle"} :
          /\ stage' = [stage EXCEPT ![c] = x] /\ UNCHANGED <<issued, lock>>
          /\ x = "idle" => ~Working(c)
    BY <1>3 DEF ReqSend, HandleRequest, RspSend, Working
  <2>2. /\ stage'[c] = x /\ \A d \in Clients : Last(d)' = Last(d)
        /\ \A d \in Clients : d # c => stage'[d] = stage[d]
    BY <2>1, OthersStay, Zenon
  <2> QED
    BY <2>1, <2>2 DEF LockOwner, Working
<1>4. ASSUME NEW c \in Clients, RspRecv(c) PROVE LockOwner'
  <2>1. /\ stage' = [stage EXCEPT ![c] = "reply"] /\ UNCHANGED issued
        /\ lock' = [lock EXCEPT ![Last(c).key] = Free]
    BY <1>4 DEF RspRecv, Unlock
  <2>2. /\ \A d \in Clients : Last(d)' = Last(d)
        /\ \A d \in Clients : d # c => stage'[d] = stage[d]
    BY <2>1, OthersStay, Zenon
  <2>3. ASSUME NEW k \in Keys, NEW d \in Clients, lock'[k] = d
        PROVE  Working(d)' /\ Last(d)'.key = k
    <3>1. k # Last(c).key /\ lock[k] = d
      BY <1>0, <2>1, <2>3
    <3>2. Working(d) /\ Last(d).key = k
      BY <3>1 DEF LockOwner
    <3> QED
      BY <2>2, <3>1, <3>2 DEF Working
  <2> QED
    BY <2>3 DEF LockOwner
<1>5. ASSUME NEW s \in Slaves, ReplicaReqSend(s) \/ ReplicaHandle(s) PROVE LockOwner'
  BY <1>5 DEF ReplicaReqSend, ReplicaHandle, LockOwner, Working, Last
<1>6. ASSUME NEW k \in Keys, Expire(k) PROVE LockOwner'
  <2>1. lock' = [lock EXCEPT ![k] = Free] /\ UNCHANGED <<issued, stage>>
    BY <1>6 DEF Expire
  <2>2. \A j \in Keys, d \in Clients : lock'[j] = d => lock[j] = d
    BY <1>0, <2>1
  <2> QED
    BY <2>1, <2>2 DEF LockOwner, Working, Last
<1>7. CASE UNCHANGED vars
  BY <1>7, Zenon DEF vars, LockOwner, Working, Last
<1> QED
  BY <1>1, <1>2, <1>3, <1>4, <1>5, <1>6, <1>7, Zenon DEF Next, Advance

LEMMA DroppedStep ==
  ASSUME Typed, LockOwner, DroppedOnlyContended, [Next]_vars
  PROVE  DroppedOnlyContended'
<1> SUFFICES ASSUME NEW c \in Clients, stage'[c] = "dropped"
             PROVE  \E d \in Clients \ {c} : \E i \in DOMAIN issued'[d] :
                      issued'[d][i].key = Last(c)'.key
  BY Zenon DEF DroppedOnlyContended
<1>0. lock \in [Keys -> Clients \cup {Free}] /\ stage \in [Clients -> Stages]
  BY Zenon DEF Typed, TypeOK
<1>1. \E d \in Clients \ {c} : \E i \in DOMAIN issued[d] : issued[d][i].key = Last(c).key
  <2>1. CASE stage[c] = "dropped"
    BY <2>1 DEF DroppedOnlyContended
  <2>2. CASE stage[c] # "dropped"
    <3>1. ReqRecv(c)
      BY <1>0, <2>2, Zenon DEF Next, Advance, Issue, ReqRecv, ReqSend, HandleRequest, RspRecv,
         RspSend, ReplicaReqSend, ReplicaHandle, Expire, vars
    <3>2. stage[c] = "arrived" /\ ~Lockable(Last(c).key)
      BY <1>0, <3>1 DEF ReqRecv
    <3>3. Last(c).key \in Keys
      BY <3>2, LastType
    <3>4. PICK d \in Clients : lock[Last(c).key] = d
      BY <1>0, <3>2, <3>3 DEF Lockable
    <3>5. Working(d) /\ Last(d).key = Last(c).key
      BY <3>3, <3>4, Zenon DEF LockOwner
    <3>6. d # c /\ stage[d] # "idle"
      BY <3>2, <3>5 DEF Working
    <3> QED
      BY <3>5, <3>6, LastIssued, Zenon
  <2> QED
    BY <2>1, <2>2
<1>2. Last(c)' = Last(c)
  <2>1. CASE \E d \in Clients : Issue(d)
    <3>1. PICK d \in Clients : Issue(d)
      BY <2>1
    <3>2. stage' = [stage EXCEPT ![d] = "arrived"] /\ \A e \in Clients : e # d => issued'[e] = issued[e]
      BY <3>1, IssueTyped
    <3>3. d # c
      BY <1>0, <3>2
    <3> QED
      BY <3>2, <3>3, SameLast
  <2>2. CASE UNCHANGED issued
    BY <2>2 DEF Last
  <2> QED
    BY <2>1, <2>2, Zenon DEF Next, Advance, ReqRecv, ReqSend, HandleRequest, RspRecv,
       RspSend, ReplicaReqSend, ReplicaHandle, Expire, vars
<1> QED
  BY <1>1, <1>2, IssuedStays, Zenon

\* A request is dropped only when another client has a request for its key: a
\* client is never refused because of a lock it left behind itself, expired
\* locks and locks given back for others included.
THEOREM DroppedOnlyContendedHolds == Spec => []DroppedOnlyContended
<1>1. Init => LockOwner /\ DroppedOnlyContended
  BY LockAssumption DEF Init, LockOwner, DroppedOnlyContended
<1>2. Typed /\ LockOwner /\ DroppedOnlyContended /\ [Next]_vars
        => LockOwner' /\ DroppedOnlyContended'
  BY OwnerStep, DroppedStep
<1> QED
  BY <1>1, <1>2, InitTyped, NextTyped, PTL DEF Spec

-----------------------------------------------------------------------------
(* Keys with one writer.                                                   *)

\* r writes k; the last write of k in queue q is v; q has no write of k.
Sets(r, k) == r.op = "set" /\ r.key = k
LastSet(q, k, v) ==
  \E i \in DOMAIN q : /\ Sets(q[i], k) /\ q[i] = v
                      /\ \A j \in DOMAIN q : Sets(q[j], k) => j <= i
NoSet(q, k) == \A i \in DOMAIN q : ~Sets(q[i], k)

LEMMA AppendSet ==
  ASSUME NEW S, NEW q \in Seq(S), NEW r \in S, NEW k
  PROVE  /\ Sets(r, k) => LastSet(Append(q, r), k, r)
         /\ ~Sets(r, k) =>
              /\ \A v : LastSet(q, k, v) => LastSet(Append(q, r), k, v)
              /\ NoSet(q, k) => NoSet(Append(q, r), k)
<1> DEFINE a == Append(q, r)
<1>1. /\ Len(q) + 1 \in DOMAIN a /\ a[Len(q) + 1] = r
      /\ \A i \in DOMAIN a : i \in Int /\ i <= Len(q) + 1
      /\ \A i \in DOMAIN q : i \in DOMAIN a /\ a[i] = q[i]
      /\ \A i \in DOMAIN a : i \in DOMAIN q \/ a[i] = r
  <2>1. /\ a \in Seq(S) /\ Len(a) = Len(q) + 1 /\ a[Len(q) + 1] = r
        /\ Len(q) \in Nat /\ DOMAIN q = 1..Len(q) /\ DOMAIN a = 1..Len(a)
    OBVIOUS
  <2>2. \A i \in DOMAIN q : i \in DOMAIN a
    BY <2>1
  <2>3. ASSUME NEW i \in DOMAIN q PROVE a[i] = q[i]
    BY <2>3
  <2>4. ASSUME NEW i \in DOMAIN a PROVE i \in DOMAIN q \/ i = Len(q) + 1
    BY <2>1, <2>4
  <2>5. \A i \in DOMAIN a : i \in Int /\ i <= Len(q) + 1
    BY <2>1
  <2>6. Len(q) + 1 \in DOMAIN a
    BY <2>1
  <2> QED
    BY <2>1, <2>2, <2>3, <2>4, <2>5, <2>6, Zenon
<1> HIDE DEF a
<1>2. Sets(r, k) => LastSet(a, k, r)
  BY <1>1, Zenon DEF LastSet
<1>3. ASSUME ~Sets(r, k), NEW v, LastSet(q, k, v) PROVE LastSet(a, k, v)
  <2>1. PICK i \in DOMAIN q : /\ Sets(q[i], k) /\ q[i] = v
                              /\ \A j \in DOMAIN q : Sets(q[j], k) => j <= i
    BY <1>3, Zenon DEF LastSet
  <2>2. \A j \in DOMAIN a : Sets(a[j], k) => j \in DOMAIN q /\ Sets(q[j], k)
    BY <1>1, <1>3, Zenon
  <2>3. i \in DOMAIN a /\ a[i] = q[i] /\ \A j \in DOMAIN a : Sets(a[j], k) => j <= i
    BY <1>1, <2>1, <2>2, Zenon
  <2> QED
    BY <2>1, <2>3, Zenon DEF LastSet
<1>4. ~Sets(r, k) /\ NoSet(q, k) => NoSet(a, k)
  BY <1>1, Zenon DEF NoSet
<1> QED
  BY <1>2, <1>3, <1>4, Zenon DEF a

LEMMA TailSet ==
  ASSUME NEW S, NEW q \in Seq(S), q # <<>>, NEW k
  PROVE  /\ \A v : LastSet(q, k, v) =>
              \/ LastSet(Tail(q), k, v)
              \/ NoSet(Tail(q), k) /\ Sets(Head(q), k) /\ Head(q) = v
         /\ NoSet(q, k) => NoSet(Tail(q), k) /\ ~Sets(Head(q), k)
<1> DEFINE b == Tail(q)
<1>1. /\ 1 \in DOMAIN q /\ Head(q) = q[1]
      /\ \A i \in DOMAIN b : i + 1 \in DOMAIN q /\ b[i] = q[i + 1] /\ i \in Int /\ i >= 1
      /\ \A i \in DOMAIN q : i \in Int /\ (i = 1 \/ (i - 1 \in DOMAIN b /\ b[i - 1] = q[i]))
  OBVIOUS
<1> HIDE DEF b
<1>2. ASSUME NEW v, LastSet(q, k, v)
      PROVE  \/ LastSet(b, k, v)
             \/ NoSet(b, k) /\ Sets(Head(q), k) /\ Head(q) = v
  <2>1. PICK i \in DOMAIN q : /\ Sets(q[i], k) /\ q[i] = v
                              /\ \A j \in DOMAIN q : Sets(q[j], k) => j <= i
    BY <1>2, Zenon DEF LastSet
  <2>2. CASE i = 1
    <3>1. ASSUME NEW j \in DOMAIN b, Sets(b[j], k) PROVE FALSE
      <4>1. j + 1 <= 1
        BY <1>1, <2>1, <2>2, <3>1
      <4> QED
        BY <1>1, <3>1, <4>1
    <3> QED
      BY <1>1, <2>1, <2>2, <3>1, Zenon DEF NoSet
  <2>3. CASE i # 1
    <3>1. i - 1 \in DOMAIN b /\ b[i - 1] = q[i]
      BY <1>1, <2>3
    <3>2. ASSUME NEW j \in DOMAIN b, Sets(b[j], k) PROVE j <= i - 1
      <4>1. j + 1 <= i
        BY <1>1, <2>1, <3>2
      <4> QED
        BY <1>1, <3>2, <4>1
    <3> QED
      BY <2>1, <3>1, <3>2, Zenon DEF LastSet
  <2> QED
    BY <2>2, <2>3
<1>3. NoSet(q, k) => NoSet(b, k) /\ ~Sets(Head(q), k)
  BY <1>1, Zenon DEF NoSet
<1> QED
  BY <1>2, <1>3, Zenon DEF b

\* Every request on a slave link was issued by the client of the link.
Sent(c, r) == \E i \in DOMAIN issued[c] : issued[c][i] = r
LinksCarry ==
  \A s \in Slaves :
    /\ \A i \in DOMAIN imsg[s] : Sent(s[1], imsg[s][i])
    /\ \A i \in DOMAIN wire[s] : Sent(s[1], wire[s][i])

\* What c has last written to k: the set on its way to the datalet of its own
\* node, or what that datalet holds.
Target(c, k) ==
  IF stage[c] \in {"queued", "sent"} /\ Sets(Last(c), k) THEN Last(c)
  ELSE store[Home[c]][k]

\* What the datalet of node n will hold for k when the slave link of c is empty.
Owed(c, n, k, v) ==
  \/ LastSet(imsg[<<c, n>>], k, v)
  \/ /\ NoSet(imsg[<<c, n>>], k)
     /\ \/ LastSet(wire[<<c, n>>], k, v)
        \/ NoSet(wire[<<c, n>>], k) /\ store[n][k] = v

\* Of a key nobody but c writes, every other node holds or is owed what c has
\* last written to it; a key nobody writes has no value.
InStep ==
  /\ \A c \in Clients, k \in Keys, n \in Nodes :
       Writers(k) \subseteq {c} /\ n # Home[c] => Owed(c, n, k, Target(c, k))
  /\ \A k \in Keys, n \in Nodes : Writers(k) = {} => store[n][k] = NoVal

\* Writers only become more.
LEMMA WritersStay ==
  ASSUME Typed, [Next]_vars, NEW k
  PROVE  Writers(k) \subseteq Writers(k)'
<1>1. ASSUME NEW c \in Writers(k) PROVE c \in Writers(k)'
  <2>1. PICK i \in DOMAIN issued[c] : issued[c][i].op = "set" /\ issued[c][i].key = k
    BY <1>1 DEF Writers
  <2>2. c \in Clients
    BY <1>1 DEF Writers
  <2>3. i \in DOMAIN issued'[c] /\ issued'[c][i] = issued[c][i]
    BY <2>1, <2>2, IssuedStays
  <2> QED
    BY <2>1, <2>2, <2>3 DEF Writers
<1> QED
  BY <1>1

\* A request of d that sets k makes d a writer of k.
LEMMA SentWriter ==
  ASSUME NEW d \in Clients, NEW r, Sent(d, r), NEW k, Sets(r, k)
  PROVE  d \in Writers(k)
  BY DEF Sent, Sets, Writers

LEMMA LastSent ==
  ASSUME Typed, NEW c \in Clients, stage[c] # "idle"
  PROVE  Sent(c, Last(c))
  BY LastIssued, Zenon DEF Sent

LEMMA SentStays ==
  ASSUME Typed, [Next]_vars, NEW c \in Clients, NEW r, Sent(c, r)
  PROVE  Sent(c, r)'
<1>1. PICK i \in DOMAIN issued[c] : issued[c][i] = r
  BY DEF Sent
<1>2. i \in DOMAIN issued'[c] /\ issued'[c][i] = issued[c][i]
  BY IssuedStays
<1> QED
  BY <1>1, <1>2 DEF Sent

\* Carrying out a request changes the key it sets, at one node.
LEMMA PerformStore ==
  ASSUME Typed, NEW n \in Nodes, NEW r \in Requests, Perform(n, r)
  PROVE  \A m \in Nodes, k \in Keys :
           store'[m][k] = IF m = n /\ Sets(r, k) THEN r ELSE store[m][k]
<1>1. store \in [Nodes -> [Keys -> Requests \cup {NoVal}]]
  BY Zenon DEF Typed, TypeOK
<1>2. CASE r.op = "set"
  <2>1. store' = [store EXCEPT ![n][r.key] = r]
    BY <1>2 DEF Perform
  <2> QED
    BY <1>1, <1>2, <2>1 DEF Sets
<1>3. CASE r.op # "set"
  BY <1>3 DEF Perform, Sets
<1> QED
  BY <1>2, <1>3

LEMMA LinkFacts ==
  ASSUME NEW c \in Clients, NEW n \in Nodes, n # Home[c]
  PROVE  <<c, n>> \in Slaves
  BY DEF Slaves

LEMMA CarryStep ==
  ASSUME Typed, LinksCarry, [Next]_vars
  PROVE  LinksCarry'
<1>0. SUFFICES ASSUME NEW s \in Slaves
             PROVE  /\ \A i \in DOMAIN imsg'[s] :
                         \E j \in DOMAIN issued'[s[1]] : issued'[s[1]][j] = imsg'[s][i]
                    /\ \A i \in DOMAIN wire'[s] :
                         \E j \in DOMAIN issued'[s[1]] : issued'[s[1]][j] = wire'[s][i]
  BY Zenon DEF LinksCarry, Sent
<1> DEFINE c == s[1]
           After(r) == \E j \in DOMAIN issued'[c] : issued'[c][j] = r
<1>1. /\ imsg \in [Slaves -> Seq(Requests)] /\ wire \in [Slaves -> Seq(Requests)]
      /\ imsg[s] \in Seq(Requests) /\ wire[s] \in Seq(Requests)
  BY DEF Typed, TypeOK
<1>2. c \in Clients
  BY SlaveFacts
<1>3. \A r : Sent(c, r) => After(r)
  BY <1>2, SentStays, Zenon DEF Sent
<1>4. /\ \A i \in DOMAIN imsg[s] : Sent(c, imsg[s][i])
      /\ \A i \in DOMAIN wire[s] : Sent(c, wire[s][i])
  BY Zenon DEF LinksCarry
<1> HIDE DEF c, After
<1>5. ASSUME UNCHANGED imsg \/ imsg'[s] = imsg[s]
      PROVE  \A i \in DOMAIN imsg'[s] : After(imsg'[s][i])
  <2>1. imsg'[s] = imsg[s]
    BY <1>5
  <2> QED
    BY <1>3, <1>4, <2>1
<1>6. ASSUME UNCHANGED wire \/ wire'[s] = wire[s]
      PROVE  \A i \in DOMAIN wire'[s] : After(wire'[s][i])
  <2>1. wire'[s] = wire[s]
    BY <1>6
  <2> QED
    BY <1>3, <1>4, <2>1
<1> DEFINE Goal == /\ \A i \in DOMAIN imsg'[s] : After(imsg'[s][i])
                   /\ \A i \in DOMAIN wire'[s] : After(wire'[s][i])
<1>7. ASSUME UNCHANGED <<imsg, wire>> PROVE Goal
  BY <1>5, <1>6, <1>7
<1>8. ASSUME NEW d \in Clients, ReqRecv(d) PROVE Goal
  <2>1. /\ stage[d] # "idle" /\ UNCHANGED wire
        /\ imsg' = imsg \/ imsg' = Propagate(d, Last(d))
    BY <1>8 DEF ReqRecv
  <2>2. Last(d) \in Requests /\ Sent(d, Last(d))
    BY <2>1, LastType, LastSent
  <2>3. imsg'[s] = imsg[s] \/ (c = d /\ imsg'[s] = Append(imsg[s], Last(d)))
    BY <2>1 DEF Propagate, c
  <2>4. ASSUME NEW i \in DOMAIN imsg'[s] PROVE After(imsg'[s][i])
    <3>1. \/ i \in DOMAIN imsg[s] /\ imsg'[s][i] = imsg[s][i]
          \/ imsg'[s][i] = Last(d) /\ c = d
      <4>1. CASE imsg'[s] = imsg[s]
        BY <2>4, <4>1
      <4>2. CASE c = d /\ imsg'[s] = Append(imsg[s], Last(d))
        <5>1. \A j \in DOMAIN Append(imsg[s], Last(d)) :
                \/ Append(imsg[s], Last(d))[j] = Last(d)
                \/ j \in DOMAIN imsg[s] /\ Append(imsg[s], Last(d))[j] = imsg[s][j]
          <6>1. PICK q \in Seq(Requests), r \in Requests : q = imsg[s] /\ r = Last(d)
            BY <1>1, <2>2
          <6>2. \A j \in DOMAIN Append(q, r) :
                  Append(q, r)[j] = r \/ (j \in DOMAIN q /\ Append(q, r)[j] = q[j])
            BY SeqElements
          <6> QED
            BY <6>1, <6>2
        <5> QED
          BY <2>4, <4>2, <5>1
      <4> QED
        BY <2>3, <4>1, <4>2, Zenon
    <3>2. PICK r : r = imsg'[s][i]
      OBVIOUS
    <3>3. Sent(c, r)
      BY <1>4, <2>2, <3>1, <3>2
    <3> QED
      BY <1>3, <3>2, <3>3
  <2> QED
    BY <1>6, <2>1, <2>4
<1>9. ASSUME NEW t \in Slaves, ReplicaReqSend(t) PROVE Goal
  <2>1. /\ imsg[t] # <<>>
        /\ imsg' = [imsg EXCEPT ![t] = Tail(imsg[t])]
        /\ wire' = [wire EXCEPT ![t] = Append(wire[t], Head(imsg[t]))]
    BY <1>1, <1>9 DEF ReplicaReqSend
  <2>2. CASE t # s
    <3>1. imsg'[s] = imsg[s] /\ wire'[s] = wire[s]
      BY <1>1, <2>1, <2>2
    <3> QED
      BY <1>5, <1>6, <3>1
  <2>3. CASE t = s
    <3>1. imsg'[s] = Tail(imsg[s]) /\ wire'[s] = Append(wire[s], Head(imsg[s]))
      BY <1>1, <2>1, <2>3
    <3>2. Head(imsg[s]) \in Requests
      BY <1>1, <2>1, <2>3, SeqFacts
    <3>3. ASSUME NEW i \in DOMAIN imsg'[s] PROVE After(imsg'[s][i])
      <4>1. i + 1 \in DOMAIN imsg[s] /\ imsg'[s][i] = imsg[s][i + 1]
        BY <1>1, <2>1, <2>3, <3>1, <3>3, SeqElements
      <4> QED
        BY <1>3, <1>4, <4>1, Zenon
    <3>4. ASSUME NEW i \in DOMAIN wire'[s] PROVE After(wire'[s][i])
      <4>1. \/ i \in DOMAIN wire[s] /\ wire'[s][i] = wire[s][i]
            \/ wire'[s][i] = imsg[s][1] /\ 1 \in DOMAIN imsg[s]
        <5>1. PICK q \in Seq(Requests), m \in Seq(Requests), r \in Requests :
                /\ q = wire[s] /\ m = imsg[s] /\ m # <<>> /\ r = Head(m)
                /\ wire'[s] = Append(q, r)
          BY <1>1, <2>1, <2>3, <3>1, <3>2
        <5>2. 1 \in DOMAIN m /\ r = m[1]
          BY <5>1, SeqElements
        <5>3. wire'[s][i] = r \/ (i \in DOMAIN q /\ wire'[s][i] = q[i])
          BY <3>4, <5>1, SeqElements
        <5> QED
          BY <5>1, <5>2, <5>3, Zenon
      <4>2. PICK r : r = wire'[s][i]
        OBVIOUS
      <4>3. Sent(c, r)
        BY <1>4, <4>1, <4>2, Zenon
      <4> QED
        BY <1>3, <4>2, <4>3
    <3> QED
      BY <3>3, <3>4
  <2> QED
    BY <2>2, <2>3
<1>10. ASSUME NEW t \in Slaves, ReplicaHandle(t) PROVE Goal
  <2>1. /\ wire[t] # <<>> /\ UNCHANGED imsg
        /\ wire' = [wire EXCEPT ![t] = Tail(wire[t])]
    BY <1>1, <1>10 DEF ReplicaHandle
  <2>2. CASE t # s
    <3>1. wire'[s] = wire[s]
      BY <1>1, <2>1, <2>2
    <3> QED
      BY <1>5, <1>6, <2>1, <3>1
  <2>3. CASE t = s
    <3>1. wire'[s] = Tail(wire[s])
      BY <1>1, <2>1, <2>3
    <3>2. ASSUME NEW i \in DOMAIN wire'[s] PROVE After(wire'[s][i])
      <4>1. i + 1 \in DOMAIN wire[s] /\ wire'[s][i] = wire[s][i + 1]
        BY <1>1, <2>1, <2>3, <3>1, <3>2, SeqElements
      <4> QED
        BY <1>3, <1>4, <4>1, Zenon
    <3> QED
      BY <1>5, <2>1, <3>2
  <2> QED
    BY <2>2, <2>3
<1>11. Goal
  <2>1. \/ UNCHANGED <<imsg, wire>> \/ \E d \in Clients : ReqRecv(d)
        \/ \E t \in Slaves : ReplicaReqSend(t) \/ ReplicaHandle(t)
    BY Zenon DEF Next, Advance, Issue, ReqSend, HandleRequest, RspRecv, RspSend, Expire,
       vars
  <2> QED
    BY <1>7, <1>8, <1>9, <1>10, <2>1, Zenon
<1> QED
  BY <1>11, Zenon DEF c, After

\* A slave link and a table that do not change owe what they owed.
LEMMA OwedStays ==
  ASSUME NEW c, NEW n, NEW k, NEW v, Owed(c, n, k, v),
         imsg'[<<c, n>>] = imsg[<<c, n>>], wire'[<<c, n>>] = wire[<<c, n>>],
         store'[n][k] = store[n][k]
  PROVE  Owed(c, n, k, v)'
<1>1. \/ LastSet(imsg[<<c, n>>], k, v)
      \/ /\ NoSet(imsg[<<c, n>>], k)
         /\ \/ LastSet(wire[<<c, n>>], k, v)
            \/ NoSet(wire[<<c, n>>], k) /\ store[n][k] = v
  BY Zenon DEF Owed
<1> QED
  BY <1>1, Zenon DEF Owed, LastSet, NoSet

LEMMA TargetStays ==
  ASSUME NEW c \in Clients, NEW k,
         stage'[c] \in {"queued", "sent"} <=> stage[c] \in {"queued", "sent"},
         stage[c] \in {"queued", "sent"} => Last(c)' = Last(c),
         store'[Home[c]][k] = store[Home[c]][k]
  PROVE  Target(c, k)' = Target(c, k)
  BY Zenon DEF Target, Sets

\* A request of a client other than c leaves a key that only c writes alone.
LEMMA ForeignKey ==
  ASSUME NEW c \in Clients, NEW d \in Clients, d # c, NEW k, Writers(k) \subseteq {c},
         NEW r, Sent(d, r)
  PROVE  ~Sets(r, k)
  BY SentWriter

\* req_recv of the writer: the set is owed to every other node, or, dropped,
\* to none.
LEMMA ReqRecvOwed ==
  ASSUME Typed, NEW c \in Clients, ReqRecv(c), NEW n \in Nodes, n # Home[c],
         NEW k \in Keys, Owed(c, n, k, Target(c, k))
  PROVE  Owed(c, n, k, Target(c, k))'
<1>1. stage[c] = "arrived" /\ UNCHANGED <<store, issued, wire>>
  BY Zenon DEF ReqRecv
<1>2. Last(c) \in Requests /\ Last(c)' = Last(c)
  BY <1>1, LastType, SameLast, Zenon
<1>3. Target(c, k) = store[Home[c]][k]
  BY <1>1, Zenon DEF Target
<1>4. PICK v : v = Target(c, k)
  OBVIOUS
<1>5. Owed(c, n, k, v)
  BY <1>4
<1>6. PICK f \in BOOLEAN : f = (fwd[c] \/ Last(c).op = "set")
  BY Zenon
<1>7. \/ f /\ stage' = [stage EXCEPT ![c] = "dropped"] /\ UNCHANGED imsg
      \/ /\ stage' = [stage EXCEPT ![c] = "queued"]
         /\ imsg' = IF f THEN Propagate(c, Last(c)) ELSE imsg
  BY <1>6, Zenon DEF ReqRecv
<1>8. <<c, n>> \in Slaves
  BY LinkFacts
<1>9. imsg[<<c, n>>] \in Seq(Requests)
  BY <1>8, Zenon DEF Typed, TypeOK
<1>10. stage \in [Clients -> Stages]
  BY Zenon DEF Typed, TypeOK
<1>11. CASE UNCHANGED imsg /\ (stage'[c] \in {"queued", "sent"} => ~Sets(Last(c), k))
  <2>1. Target(c, k)' = v
    BY <1>1, <1>2, <1>3, <1>4, <1>11, Zenon DEF Target, Sets
  <2>2. Owed(c, n, k, v)'
    BY <1>1, <1>5, <1>11, OwedStays, Zenon
  <2> QED
    BY <2>1, <2>2, Zenon DEF Owed
<1>12. CASE /\ stage'[c] = "queued"
            /\ imsg'[<<c, n>>] = Append(imsg[<<c, n>>], Last(c))
  <2>1. CASE Sets(Last(c), k)
    <3>1. PICK r : r = Last(c)
      OBVIOUS
    <3>2. LastSet(Append(imsg[<<c, n>>], r), k, r)
      BY <1>2, <1>9, <2>1, <3>1, AppendSet, Zenon
    <3>3. LastSet(imsg'[<<c, n>>], k, r)
      BY <1>12, <3>1, <3>2
    <3>4. Target(c, k)' = r
      BY <1>2, <1>12, <2>1, <3>1, Zenon DEF Target, Sets
    <3> QED
      BY <3>3, <3>4, Zenon DEF Owed, LastSet
  <2>2. CASE ~Sets(Last(c), k)
    <3>1. Target(c, k)' = v
      BY <1>1, <1>2, <1>3, <1>4, <2>2, Zenon DEF Target, Sets
    <3>2. /\ LastSet(imsg[<<c, n>>], k, v) => LastSet(imsg'[<<c, n>>], k, v)
          /\ NoSet(imsg[<<c, n>>], k) => NoSet(imsg'[<<c, n>>], k)
      BY <1>2, <1>9, <1>12, <2>2, AppendSet, Zenon
    <3>3. \/ LastSet(imsg'[<<c, n>>], k, v)
          \/ /\ NoSet(imsg'[<<c, n>>], k)
             /\ \/ LastSet(wire'[<<c, n>>], k, v)
                \/ NoSet(wire'[<<c, n>>], k) /\ store'[n][k] = v
      BY <1>1, <1>5, <3>2, Zenon DEF Owed
    <3> QED
      BY <3>1, <3>3, Zenon DEF Owed, LastSet, NoSet
  <2> QED
    BY <2>1, <2>2
<1> QED
  <2>1. CASE f
    <3>1. CASE stage' = [stage EXCEPT ![c] = "dropped"] /\ UNCHANGED imsg
      <4>1. stage'[c] = "dropped"
        BY <1>10, <3>1
      <4> QED
        BY <1>11, <3>1, <4>1
    <3>2. CASE /\ stage' = [stage EXCEPT ![c] = "queued"]
               /\ imsg' = IF f THEN Propagate(c, Last(c)) ELSE imsg
      <4>1. imsg'[<<c, n>>] = Append(imsg[<<c, n>>], Last(c)) /\ stage'[c] = "queued"
        BY <1>8, <1>10, <2>1, <3>2 DEF Propagate
      <4> QED
        BY <1>12, <4>1, Zenon
    <3> QED
      BY <1>7, <3>1, <3>2
  <2>2. CASE ~f
    BY <1>6, <1>7, <1>11, <2>2, Zenon DEF Sets
  <2> QED
    BY <2>1, <2>2

\* replica_req_send moves a request from the queue to the wire of its link.
LEMMA SendOwed ==
  ASSUME Typed, NEW s \in Slaves, ReplicaReqSend(s),
         NEW c \in Clients, NEW n \in Nodes, n # Home[c], NEW k, NEW v, Owed(c, n, k, v)
  PROVE  Owed(c, n, k, v)'
<1>1. /\ imsg \in [Slaves -> Seq(Requests)] /\ wire \in [Slaves -> Seq(Requests)]
      /\ imsg[s] \in Seq(Requests) /\ wire[s] \in Seq(Requests)
  BY Zenon DEF Typed, TypeOK
<1>2. /\ imsg[s] # <<>> /\ UNCHANGED store
      /\ imsg' = [imsg EXCEPT ![s] = Tail(imsg[s])]
      /\ wire' = [wire EXCEPT ![s] = Append(wire[s], Head(imsg[s]))]
  BY <1>1 DEF ReplicaReqSend
<1>3. CASE <<c, n>> # s
  <2>1. <<c, n>> \in Slaves
    BY LinkFacts
  <2>2. imsg'[<<c, n>>] = imsg[<<c, n>>] /\ wire'[<<c, n>>] = wire[<<c, n>>]
    BY <1>1, <1>2, <1>3, <2>1, Zenon
  <2> QED
    BY <1>2, <2>2, OwedStays, Zenon
<1>4. CASE <<c, n>> = s
  <2>1. PICK q, w, h : q = imsg[s] /\ w = wire[s] /\ h = Head(q)
    OBVIOUS
  <2>2. imsg'[<<c, n>>] = Tail(q) /\ wire'[<<c, n>>] = Append(w, h)
    BY <1>1, <1>2, <1>4, <2>1, Zenon
  <2>3. \/ LastSet(q, k, v)
        \/ NoSet(q, k) /\ (LastSet(w, k, v) \/ (NoSet(w, k) /\ store[n][k] = v))
    BY <1>4, <2>1, Zenon DEF Owed
  <2>4. q \in Seq(Requests) /\ w \in Seq(Requests) /\ q # <<>> /\ h \in Requests
    BY <1>1, <1>2, <2>1, SeqFacts
  <2>5. /\ LastSet(q, k, v) => \/ LastSet(Tail(q), k, v)
                               \/ NoSet(Tail(q), k) /\ Sets(h, k) /\ h = v
        /\ NoSet(q, k) => NoSet(Tail(q), k) /\ ~Sets(h, k)
    BY <2>1, <2>4, TailSet, Zenon
  <2>6. /\ Sets(h, k) => LastSet(Append(w, h), k, h)
        /\ ~Sets(h, k) => /\ LastSet(w, k, v) => LastSet(Append(w, h), k, v)
                          /\ NoSet(w, k) => NoSet(Append(w, h), k)
    BY <2>4, AppendSet
  <2>7. \/ LastSet(imsg'[<<c, n>>], k, v)
        \/ /\ NoSet(imsg'[<<c, n>>], k)
           /\ \/ LastSet(wire'[<<c, n>>], k, v)
              \/ NoSet(wire'[<<c, n>>], k) /\ store'[n][k] = v
    BY <1>2, <2>2, <2>3, <2>5, <2>6, Zenon
  <2> QED
    BY <2>7, Zenon DEF Owed, LastSet, NoSet
<1> QED
  BY <1>3, <1>4

\* The datalet at the other end of a slave link gets what it is owed.
LEMMA HandleOwed ==
  ASSUME Typed, LinksCarry, NEW s \in Slaves, ReplicaHandle(s),
         NEW c \in Clients, NEW n \in Nodes, n # Home[c], NEW k \in Keys,
         Writers(k) \subseteq {c}, NEW v, Owed(c, n, k, v)
  PROVE  Owed(c, n, k, v)' /\ store'[Home[c]][k] = store[Home[c]][k]
<1>1. /\ wire \in [Slaves -> Seq(Requests)] /\ wire[s] \in Seq(Requests)
  BY Zenon DEF Typed, TypeOK
<1>2. /\ wire[s] # <<>> /\ UNCHANGED imsg /\ Perform(s[2], Head(wire[s]))
      /\ wire' = [wire EXCEPT ![s] = Tail(wire[s])]
  BY <1>1 DEF ReplicaHandle
<1>3. PICK w, h, d, m : w = wire[s] /\ h = Head(w) /\ d = s[1] /\ m = s[2]
  OBVIOUS
<1>4. /\ w \in Seq(Requests) /\ w # <<>> /\ h \in Requests
      /\ d \in Clients /\ m \in Nodes
  BY <1>1, <1>2, <1>3, SeqFacts, SlaveFacts, Zenon
<1>5. \A j \in Nodes : store'[j][k] = IF j = m /\ Sets(h, k) THEN h ELSE store[j][k]
  <2>1. Perform(m, h)
    BY <1>2, <1>3, Zenon
  <2>2. \A j \in Nodes, x \in Keys :
          store'[j][x] = IF j = m /\ Sets(h, x) THEN h ELSE store[j][x]
    BY <1>4, <2>1, PerformStore, Zenon
  <2> QED
    BY <2>2, Zenon
<1>6. Sent(d, h)
  <2>1. 1 \in DOMAIN w /\ h = w[1]
    BY <1>3, <1>4, SeqElements, Zenon
  <2> QED
    BY <1>3, <2>1, Zenon DEF LinksCarry
<1>7. Home[c] \in Nodes /\ <<c, n>> \in Slaves /\ m # Home[d] /\ s = <<d, m>>
  <2>1. s = <<s[1], s[2]>> /\ s[2] # Home[s[1]]
    BY DEF Slaves
  <2>2. Home[c] \in Nodes /\ <<c, n>> \in Slaves
    BY LockAssumption, LinkFacts, Zenon
  <2> QED
    BY <1>3, <2>1, <2>2, Zenon
<1>8. CASE d # c
  <2>1. ~Sets(h, k)
    BY <1>4, <1>6, <1>8, ForeignKey
  <2>2. wire'[<<c, n>>] = wire[<<c, n>>]
    BY <1>1, <1>2, <1>7, <1>8
  <2>3. store'[n][k] = store[n][k] /\ store'[Home[c]][k] = store[Home[c]][k]
    BY <1>5, <1>7, <2>1, Zenon
  <2> QED
    BY <1>2, <2>2, <2>3, OwedStays, Zenon
<1>9. CASE d = c /\ m # n
  <2>1. wire'[<<c, n>>] = wire[<<c, n>>]
    BY <1>1, <1>2, <1>7, <1>9, Zenon
  <2>2. store'[n][k] = store[n][k] /\ store'[Home[c]][k] = store[Home[c]][k]
    BY <1>5, <1>7, <1>9, Zenon
  <2> QED
    BY <1>2, <2>1, <2>2, OwedStays, Zenon
<1>10. CASE d = c /\ m = n
  <2>1. wire'[<<c, n>>] = Tail(w)
    BY <1>1, <1>2, <1>3, <1>7, <1>10, Zenon
  <2>2. store'[Home[c]][k] = store[Home[c]][k]
    BY <1>5, <1>7, <1>10, Zenon
  <2>3. store'[n][k] = IF Sets(h, k) THEN h ELSE store[n][k]
    BY <1>5, <1>10, Zenon
  <2>4. PICK q : q = imsg[<<c, n>>]
    BY Zenon
  <2>5. \/ LastSet(q, k, v)
        \/ NoSet(q, k) /\ (LastSet(w, k, v) \/ (NoSet(w, k) /\ store[n][k] = v))
    BY <1>3, <1>7, <1>10, <2>4, Zenon DEF Owed
  <2>6. /\ LastSet(w, k, v) => \/ LastSet(Tail(w), k, v)
                               \/ NoSet(Tail(w), k) /\ Sets(h, k) /\ h = v
        /\ NoSet(w, k) => NoSet(Tail(w), k) /\ ~Sets(h, k)
    BY <1>3, <1>4, TailSet, Zenon
  <2>7. imsg'[<<c, n>>] = q
    BY <1>2, <2>4, Zenon
  <2>8. \/ LastSet(imsg'[<<c, n>>], k, v)
        \/ /\ NoSet(imsg'[<<c, n>>], k)
           /\ \/ LastSet(wire'[<<c, n>>], k, v)
              \/ NoSet(wire'[<<c, n>>], k) /\ store'[n][k] = v
    BY <2>1, <2>3, <2>5, <2>6, <2>7, Zenon
  <2> QED
    BY <2>2, <2>8, Zenon DEF Owed, LastSet, NoSet
<1> QED
  BY <1>8, <1>9, <1>10, Zenon

LEMMA InStepStep ==
  ASSUME Typed, LinksCarry, InStep, [Next]_vars
  PROVE  InStep'
<1> USE LockAssumption
<1>0. stage \in [Clients -> Stages]
  BY Zenon DEF Typed, TypeOK
<1>1. ASSUME NEW c \in Clients, NEW k \in Keys, NEW n \in Nodes,
             Writers(k)' \subseteq {c}, n # Home[c]
      PROVE  Owed(c, n, k, Target(c, k))'
  <2>1. Writers(k) \subseteq {c}
    BY <1>1, WritersStay
  <2>2. PICK v : v = Target(c, k)
    OBVIOUS
  <2>3. Owed(c, n, k, v) /\ Owed(c, n, k, Target(c, k))
    BY <1>1, <2>1, <2>2, Zenon DEF InStep
  <2>4. Home[c] \in Nodes
    OBVIOUS
  <2> DEFINE Goal == Owed(c, n, k, Target(c, k))'
  <2>5. ASSUME Target(c, k)' = v, Owed(c, n, k, v)' PROVE Goal
    BY <2>5, Zenon DEF Owed
  <2>6. ASSUME UNCHANGED <<store, imsg, wire>>,
               stage'[c] \in {"queued", "sent"} <=> stage[c] \in {"queued", "sent"},
               stage[c] \in {"queued", "sent"} => Last(c)' = Last(c)
        PROVE  Goal
    <3>1. Target(c, k)' = v
      BY <2>2, <2>6, TargetStays, Zenon
    <3>2. Owed(c, n, k, v)'
      BY <2>3, <2>6, OwedStays, Zenon
    <3> QED
      BY <2>5, <3>1, <3>2
  <2>7. ASSUME NEW d \in Clients, Issue(d) PROVE Goal
    <3>1. /\ stage[d] = "idle" /\ stage' = [stage EXCEPT ![d] = "arrived"]
          /\ UNCHANGED <<store, imsg, wire>>
          /\ \A e \in Clients : e # d => issued'[e] = issued[e]
      BY <2>7, IssueTyped, Zenon DEF Issue
    <3>2. /\ stage'[c] \in {"queued", "sent"} <=> stage[c] \in {"queued", "sent"}
          /\ stage[c] \in {"queued", "sent"} => c # d
      BY <1>0, <3>1
    <3> QED
      BY <2>6, <3>1, <3>2, SameLast, Zenon
  <2>8. ASSUME NEW d \in Clients, ReqRecv(d) PROVE Goal
    <3>1. CASE d = c
      BY <1>1, <2>3, <2>8, <3>1, ReqRecvOwed, Zenon
    <3>2. CASE d # c
      <4>1. /\ UNCHANGED <<store, issued, wire>>
            /\ imsg' = imsg \/ imsg' = Propagate(d, Last(d))
            /\ stage'[c] = stage[c]
        BY <1>0, <2>8, <3>2, Zenon DEF ReqRecv
      <4>2. imsg'[<<c, n>>] = imsg[<<c, n>>]
        BY <1>1, <3>2, <4>1, LinkFacts DEF Propagate
      <4>3. Target(c, k)' = v
        BY <2>2, <4>1, TargetStays, SameLast, Zenon
      <4>4. Owed(c, n, k, v)'
        BY <2>3, <4>1, <4>2, OwedStays, Zenon
      <4> QED
        BY <2>5, <4>3, <4>4
    <3> QED
      BY <3>1, <3>2
  <2>9. ASSUME NEW d \in Clients, ReqSend(d) \/ RspRecv(d) \/ RspSend(d) PROVE Goal
    <3>1. /\ UNCHANGED <<store, issued, imsg, wire>>
          /\ stage'[c] \in {"queued", "sent"} <=> stage[c] \in {"queued", "sent"}
      BY <1>0, <2>9 DEF ReqSend, RspRecv, RspSend
    <3> QED
      BY <2>6, <3>1, SameLast, Zenon
  <2>10. ASSUME NEW d \in Clients, HandleRequest(d) PROVE Goal
    <3>1. /\ stage[d] = "sent" /\ Perform(Home[d], Last(d))
          /\ stage' = [stage EXCEPT ![d] = "answered"]
          /\ UNCHANGED <<issued, imsg, wire>>
      BY <2>10 DEF HandleRequest
    <3>2. PICK r, h : r = Last(d) /\ h = Home[d]
      OBVIOUS
    <3>3. r \in Requests /\ Sent(d, r) /\ h \in Nodes
      BY <3>1, <3>2, LastType, LastSent
    <3>4. \A m \in Nodes : store'[m][k] = IF m = h /\ Sets(r, k) THEN r ELSE store[m][k]
      <4>1. Perform(h, r)
        BY <3>1, <3>2, Zenon
      <4>2. \A m \in Nodes, x \in Keys :
              store'[m][x] = IF m = h /\ Sets(r, x) THEN r ELSE store[m][x]
        BY <3>3, <4>1, PerformStore, Zenon
      <4> QED
        BY <4>2, Zenon
    <3>5. CASE d # c
      <4>1. ~Sets(r, k)
        BY <2>1, <3>3, <3>5, ForeignKey
      <4>2. store'[n][k] = store[n][k] /\ store'[Home[c]][k] = store[Home[c]][k]
        BY <2>4, <3>4, <4>1, Zenon
      <4>3. stage'[c] = stage[c]
        BY <1>0, <3>1, <3>5
      <4>4. Target(c, k)' = v
        BY <2>2, <3>1, <4>2, <4>3, TargetStays, SameLast, Zenon
      <4>5. Owed(c, n, k, v)'
        BY <2>3, <3>1, <4>2, OwedStays, Zenon
      <4> QED
        BY <2>5, <4>4, <4>5
    <3>6. CASE d = c
      <4>1. v = IF Sets(r, k) THEN r ELSE store[h][k]
        BY <2>2, <3>1, <3>2, <3>6 DEF Target
      <4>2. stage'[c] = "answered"
        BY <1>0, <3>1, <3>6
      <4>3. Target(c, k)' = store'[h][k]
        BY <3>2, <3>6, <4>2 DEF Target
      <4>4. Target(c, k)' = v
        BY <3>3, <3>4, <4>1, <4>3, Zenon
      <4>5. store'[n][k] = store[n][k]
        BY <1>1, <3>2, <3>4, <3>6, Zenon
      <4>6. Owed(c, n, k, v)'
        BY <2>3, <3>1, <4>5, OwedStays, Zenon
      <4> QED
        BY <2>5, <4>4, <4>6
    <3> QED
      BY <3>5, <3>6
  <2>11. ASSUME NEW s \in Slaves, ReplicaReqSend(s) PROVE Goal
    <3>1. UNCHANGED <<store, issued, stage>>
      BY <2>11 DEF ReplicaReqSend
    <3>2. Target(c, k)' = v
      BY <2>2, <3>1, TargetStays, SameLast, Zenon
    <3>3. Owed(c, n, k, v)'
      BY <1>1, <2>3, <2>11, SendOwed
    <3> QED
      BY <2>5, <3>2, <3>3
  <2>12. ASSUME NEW s \in Slaves, ReplicaHandle(s) PROVE Goal
    <3>1. UNCHANGED <<issued, stage>>
      BY <2>12 DEF ReplicaHandle
    <3>2. Owed(c, n, k, v)' /\ store'[Home[c]][k] = store[Home[c]][k]
      BY <1>1, <2>1, <2>3, <2>12, HandleOwed, Zenon
    <3>3. Target(c, k)' = v
      BY <2>2, <3>1, <3>2, TargetStays, SameLast, Zenon
    <3> QED
      BY <2>5, <3>2, <3>3, Zenon
  <2>13. ASSUME UNCHANGED <<store, issued, stage, imsg, wire>> PROVE Goal
    BY <2>6, <2>13, SameLast, Zenon
  <2>14. \/ \E d \in Clients : \/ Issue(d) \/ ReqRecv(d) \/ ReqSend(d) \/ RspRecv(d)
                               \/ RspSend(d) \/ HandleRequest(d)
         \/ \E s \in Slaves : ReplicaReqSend(s) \/ ReplicaHandle(s)
         \/ UNCHANGED <<store, issued, stage, imsg, wire>>
    BY Zenon DEF Next, Advance, Expire, vars
  <2> HIDE DEF Goal
  <2>15. Goal
    BY <2>7, <2>8, <2>9, <2>10, <2>11, <2>12, <2>13, <2>14, Zenon
  <2> QED
    BY <2>15 DEF Goal
<1>2. ASSUME NEW k \in Keys, NEW n \in Nodes, Writers(k)' = {}
      PROVE  store'[n][k] = NoVal
  <2>1. Writers(k) = {} /\ store[n][k] = NoVal
    <3>1. Writers(k) = {}
      BY <1>2, WritersStay
    <3> QED
      BY <3>1, Zenon DEF InStep
  <2>2. ASSUME NEW d \in Clients, NEW m \in Nodes, NEW r \in Requests, Sent(d, r),
               Perform(m, r)
        PROVE  store'[n][k] = NoVal
    <3>1. ~Sets(r, k)
      BY <2>1, <2>2, SentWriter
    <3>2. store'[n][k] = IF n = m /\ Sets(r, k) THEN r ELSE store[n][k]
      <4>1. \A j \in Nodes, x \in Keys :
              store'[j][x] = IF j = m /\ Sets(r, x) THEN r ELSE store[j][x]
        BY <2>2, PerformStore, Zenon
      <4> QED
        BY <4>1, Zenon
    <3> QED
      BY <2>1, <3>1, <3>2, Zenon
  <2>3. ASSUME NEW d \in Clients, HandleRequest(d) PROVE store'[n][k] = NoVal
    <3>1. stage[d] # "idle" /\ Perform(Home[d], Last(d))
      BY <2>3 DEF HandleRequest
    <3>2. Home[d] \in Nodes /\ Last(d) \in Requests /\ Sent(d, Last(d))
      BY <3>1, LastType, LastSent
    <3> QED
      BY <2>2, <3>1, <3>2
  <2>4. ASSUME NEW s \in Slaves, ReplicaHandle(s) PROVE store'[n][k] = NoVal
    <3>1. wire[s] # <<>> /\ Perform(s[2], Head(wire[s]))
      BY <2>4 DEF ReplicaHandle
    <3>2. wire[s] \in Seq(Requests)
      BY Zenon DEF Typed, TypeOK
    <3>3. /\ Head(wire[s]) \in Requests /\ s[1] \in Clients /\ s[2] \in Nodes
          /\ 1 \in DOMAIN wire[s] /\ Head(wire[s]) = wire[s][1]
      BY <3>1, <3>2, SeqFacts, SeqElements, SlaveFacts, Zenon
    <3>4. Sent(s[1], Head(wire[s]))
      BY <3>3, Zenon DEF LinksCarry
    <3> QED
      BY <2>2, <3>1, <3>3, <3>4, Zenon
  <2>5. ASSUME UNCHANGED store PROVE store'[n][k] = NoVal
    BY <2>1, <2>5
  <2>6. \/ UNCHANGED store \/ \E d \in Clients : HandleRequest(d)
        \/ \E s \in Slaves : ReplicaHandle(s)
    BY Zenon DEF Next, Advance, Issue, ReqRecv, ReqSend, RspRecv, RspSend,
       ReplicaReqSend, Expire, vars
  <2> QED
    BY <2>3, <2>4, <2>5, <2>6
<1> QED
  BY <1>1, <1>2, Zenon DEF InStep

\* Whatever is refused, expires or is given back, when nothing is on its way
\* the tables of all nodes agree on every key that at most one client has
\* written.
THEOREM SingleWriterAgreementHolds == Spec => []SingleWriterAgreement
<1>1. Init => LinksCarry /\ InStep
  <2> SUFFICES ASSUME Init PROVE LinksCarry /\ InStep
    OBVIOUS
  <2>1. /\ store = [n \in Nodes |-> [k \in Keys |-> NoVal]]
        /\ imsg = [s \in Slaves |-> <<>>] /\ wire = [s \in Slaves |-> <<>>]
        /\ stage = [c \in Clients |-> "idle"]
    BY Zenon DEF Init
  <2>2. LinksCarry
    BY <2>1 DEF LinksCarry
  <2>3. ASSUME NEW c \in Clients, NEW k \in Keys, NEW n \in Nodes, n # Home[c]
        PROVE  Owed(c, n, k, Target(c, k))
    <3>1. <<c, n>> \in Slaves /\ Home[c] \in Nodes
      BY <2>3, LinkFacts, LockAssumption
    <3>2. Target(c, k) = NoVal /\ store[n][k] = NoVal
      BY <2>1, <3>1 DEF Target
    <3>3. NoSet(imsg[<<c, n>>], k) /\ NoSet(wire[<<c, n>>], k)
      BY <2>1, <3>1 DEF NoSet
    <3> QED
      BY <3>2, <3>3, Zenon DEF Owed
  <2>4. \A k \in Keys, n \in Nodes : store[n][k] = NoVal
    BY <2>1
  <2> QED
    BY <2>2, <2>3, <2>4, Zenon DEF InStep
<1>2. InStep => SingleWriterAgreement
  <2> SUFFICES ASSUME InStep, Quiescent, NEW k \in Keys,
                      \A c, d \in Writers(k) : c = d, NEW n \in Nodes, NEW m \in Nodes
               PROVE  store[n][k] = store[m][k]
    BY Zenon DEF SingleWriterAgreement, Agree
  <2>1. CASE Writers(k) = {}
    BY <2>1, Zenon DEF InStep
  <2>2. ASSUME NEW c \in Writers(k) PROVE store[n][k] = store[m][k]
    <3>1. c \in Clients /\ Writers(k) \subseteq {c}
      BY <2>2 DEF Writers
    <3>2. ASSUME NEW p \in Nodes, p # Home[c] PROVE store[p][k] = store[Home[c]][k]
      <4>1. Owed(c, p, k, Target(c, k))
        BY <3>1, <3>2, Zenon DEF InStep
      <4>2. imsg[<<c, p>>] = <<>> /\ wire[<<c, p>>] = <<>>
        BY <3>1, <3>2, LinkFacts, Zenon DEF Quiescent
      <4>3. Target(c, k) = store[Home[c]][k]
        BY <3>1 DEF Quiescent, Target
      <4>4. ~LastSet(<<>>, k, Target(c, k))
        BY DEF LastSet
      <4> QED
        BY <4>1, <4>2, <4>3, <4>4, Zenon DEF Owed
    <3> QED
      BY <3>2
  <2> QED
    BY <2>1, <2>2
<1>3. Typed /\ LinksCarry /\ InStep /\ [Next]_vars => LinksCarry' /\ InStep'
  BY CarryStep, InStepStep
<1> QED
  BY <1>1, <1>2, <1>3, InitTyped, NextTyped, PTL DEF Spec
=============================================================================
