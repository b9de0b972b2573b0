-------------------------- MODULE SharedLogProofs --------------------------
(***************************************************************************)
(* Proofs about SharedLog, for any number of nodes, clients, keys and      *)
(* requests, in both topologies, with nodes crashing and starting again:   *)
(* type correctness; the slaves implement ReplicatedLog, and their tables  *)
(* are the replay of a prefix of the log; the tables agree, in the end, on *)
(* every key with at most one writer.                                      *)
(***************************************************************************)
EXTENDS SharedLog, TLAPS, WellFoundedInduction

-----------------------------------------------------------------------------
(* Facts about sequences.                                                  *)

LEMMA AppendFacts ==
  ASSUME NEW S, NEW s \in Seq(S), NEW x \in S
  PROVE  /\ Append(s, x) \in Seq(S) /\ Append(s, x) # <<>>
         /\ Len(Append(s, x)) = Len(s) + 1
         /\ \A i \in 1..Len(s) : Append(s, x)[i] = s[i]
         /\ Append(s, x)[Len(s) + 1] = x
  OBVIOUS

LEMMA NonEmpty ==
  ASSUME NEW S, NEW s \in Seq(S), s # <<>>
  PROVE  /\ Head(s) \in S /\ Tail(s) \in Seq(S) /\ s[Len(s)] \in S
         /\ Len(s) \in DOMAIN s /\ 1 \in DOMAIN s /\ Head(s) = s[1]
  OBVIOUS

\* Sets stay sets after Append and after Tail; so do requests that are none.
LEMMA AllSets ==
  ASSUME NEW s \in Seq(Requests), \A i \in DOMAIN s : s[i].op = "set"
  PROVE  /\ s # <<>> => Head(s).op = "set"
         /\ s # <<>> => \A i \in DOMAIN Tail(s) : Tail(s)[i].op = "set"
         /\ \A r \in Requests : r.op = "set" =>
              \A i \in DOMAIN Append(s, r) : Append(s, r)[i].op = "set"
  OBVIOUS

LEMMA NoSets ==
  ASSUME NEW s \in Seq(Requests), \A i \in DOMAIN s : s[i].op # "set",
         NEW r \in Requests, r.op # "set"
  PROVE  \A i \in DOMAIN Append(s, r) : Append(s, r)[i].op # "set"
  OBVIOUS

-----------------------------------------------------------------------------
(* Types.                                                                  *)

Held == TypeOK /\ LogDiscipline

LEMMA InitHeld == Init => Held
<1> SUFFICES ASSUME Init PROVE Held
  OBVIOUS
<1>1. /\ at \in [Threads -> {"off", "start", "queued", "sent", "answered"}]
      /\ store \in [Nodes -> [Keys -> Requests \cup {NoVal}]]
  BY DEF Init, Empty
<1>2. TypeOK
  BY <1>1, LogAssumption DEF Init, TypeOK, Stages
<1>3. LogOfSets /\ ClientsOK
  BY DEF Init, LogOfSets, ClientsOK
<1>4. ThreadsOK
  BY DEF Init, ThreadsOK, Threads
<1> QED
  BY <1>2, <1>3, <1>4 DEF Held, LogDiscipline

LEMMA LastType ==
  ASSUME TypeOK, ClientsOK, NEW c \in Clients, stage[c] # "idle"
  PROVE  Last(c) \in Requests /\ (Home[c] \in Followers => Last(c).op # "set")
<1>1. issued[c] \in Seq(Requests) /\ issued[c] # <<>>
  BY DEF TypeOK, ClientsOK
<1>2. Len(issued[c]) \in DOMAIN issued[c] /\ Last(c) \in Requests
  BY <1>1, NonEmpty DEF Last
<1>3. Home[c] \in Followers => Last(c).op # "set"
  BY <1>2, Zenon DEF ClientsOK, Last
<1> QED
  BY <1>2, <1>3

\* The entry a thread has in flight.
LEMMA EntryType ==
  ASSUME TypeOK, LogDiscipline, NEW t \in Threads, at[t] \in {"queued", "sent"}
  PROVE  klog[pos[t]] \in Requests /\ klog[pos[t]].op = "set" /\ pos[t] \in 1..Len(klog)
<1>1. pos[t] \in Nat /\ klog \in Seq(Requests)
  BY DEF TypeOK
<1>2. pos[t] <= Len(klog) /\ pos[t] # 0
  BY DEF LogDiscipline, ThreadsOK
<1>3. pos[t] \in 1..Len(klog) /\ pos[t] \in DOMAIN klog
  BY <1>1, <1>2
<1> QED
  BY <1>1, <1>3 DEF LogDiscipline, LogOfSets

LEMMA PerformType ==
  ASSUME TypeOK, NEW p \in Nodes, NEW r \in Requests, Perform(p, r)
  PROVE  /\ store' \in [Nodes -> [Keys -> Requests \cup {NoVal}]]
         /\ applied' \in [Nodes -> SUBSET Requests]
<1>1. /\ store \in [Nodes -> [Keys -> Requests \cup {NoVal}]]
      /\ applied \in [Nodes -> SUBSET Requests]
      /\ r.key \in Keys
  BY SMTT(30) DEF Requests, TypeOK
<1>2. CASE r.op = "set"
  <2>1. store' = [store EXCEPT ![p][r.key] = r]
        /\ applied' = [applied EXCEPT ![p] = @ \cup {r}]
    BY <1>2 DEF Perform
  <2>2. store' \in [Nodes -> [Keys -> Requests \cup {NoVal}]]
    BY <1>1, <2>1
  <2>3. applied' \in [Nodes -> SUBSET Requests]
    BY <1>1, <2>1
  <2> QED
    BY <2>2, <2>3
<1>3. CASE r.op # "set"
  BY <1>1, <1>3 DEF Perform
<1> QED
  BY <1>2, <1>3

-----------------------------------------------------------------------------
(* The steps of the clients' requests.                                     *)

LEMMA IssueHeld ==
  ASSUME Held, NEW c \in Clients, Issue(c)
  PROVE  Held'
<1>1. PICK o \in Ops, k \in Keys :
        /\ o = "set" => Home[c] \notin Followers
        /\ issued' = [issued EXCEPT ![c] =
             Append(@, [cl |-> c, seq |-> Len(@) + 1, op |-> o, key |-> k])]
  BY Zenon DEF Issue
<1> DEFINE r == [cl |-> c, seq |-> Len(issued[c]) + 1, op |-> o, key |-> k]
<1>2. issued \in [Clients -> Seq(Requests)] /\ issued[c] \in Seq(Requests)
  BY DEF Held, TypeOK
<1>3. r \in Requests /\ r.op = o
  BY <1>2, LogAssumption DEF Issue, Requests
<1> HIDE DEF r
<1>4. issued' = [issued EXCEPT ![c] = Append(issued[c], r)]
  BY <1>1, <1>2 DEF r
<1>5. /\ issued' \in [Clients -> Seq(Requests)] /\ issued'[c] = Append(issued[c], r)
      /\ issued'[c] # <<>> /\ \A d \in Clients \ {c} : issued'[d] = issued[d]
  BY <1>2, <1>3, <1>4, AppendFacts
<1>6. /\ stage' \in [Clients -> Stages]
      /\ \A d \in Clients \ {c} : stage'[d] = stage[d]
  BY DEF Issue, Held, TypeOK, Stages
<1>7. /\ Home[c] \in up
      /\ UNCHANGED <<up, crashed, model, store, outq, klog, at, pos, applied, acked>>
  BY DEF Issue, nodeVars, threadVars
<1>8. TypeOK'
  BY <1>5, <1>6, <1>7 DEF Held, TypeOK
<1>9. ClientsOK'
  <2>1. ASSUME NEW d \in Clients, d # c
        PROVE /\ stage'[d] # "idle" => issued'[d] # <<>> /\ Home[d] \in up'
              /\ Home[d] \in Followers =>
                   \A i \in DOMAIN issued'[d] : issued'[d][i].op # "set"
    BY <1>5, <1>6, <1>7, <2>1, Zenon DEF Held, LogDiscipline, ClientsOK
  <2>2. Home[c] \in Followers => \A i \in DOMAIN issued'[c] : issued'[c][i].op # "set"
    <3>1. SUFFICES ASSUME Home[c] \in Followers
                   PROVE  \A i \in DOMAIN issued'[c] : issued'[c][i].op # "set"
      OBVIOUS
    <3>2. r.op # "set" /\ \A i \in DOMAIN issued[c] : issued[c][i].op # "set"
      BY <1>1, <1>3, <3>1, Zenon DEF Held, LogDiscipline, ClientsOK
    <3> QED
      BY <1>2, <1>3, <1>5, <3>2, NoSets
  <2> QED
    BY <1>5, <1>7, <2>1, <2>2, Zenon DEF ClientsOK
<1>10. LogOfSets' /\ ThreadsOK'
  BY <1>7, Zenon DEF Held, LogDiscipline, LogOfSets, ThreadsOK
<1> QED
  BY <1>8, <1>9, <1>10 DEF Held, LogDiscipline

\* A step of a request in flight that leaves the nodes, the threads, the log
\* and what was issued alone.
LEMMA RequestHeld ==
  ASSUME Held, NEW c \in Clients, NEW s \in Stages, stage[c] # "idle",
         stage' = [stage EXCEPT ![c] = s],
         UNCHANGED <<up, crashed, model, issued, klog, at, pos>>,
         store' \in [Nodes -> [Keys -> Requests \cup {NoVal}]],
         applied' \in [Nodes -> SUBSET Requests],
         acked' \in SUBSET Requests,
         outq' \in [Clients -> Seq(Requests)],
         \A d \in Clients : \A i \in DOMAIN outq'[d] : outq'[d][i].op = "set"
  PROVE  Held'
<1>1. stage' \in [Clients -> Stages] /\ \A d \in Clients \ {c} : stage'[d] = stage[d]
  BY DEF Held, TypeOK
<1>2. TypeOK'
  BY <1>1 DEF Held, TypeOK
<1>3. LogOfSets' /\ ThreadsOK'
  BY Zenon DEF Held, LogDiscipline, LogOfSets, ThreadsOK
<1>4. ClientsOK'
  <2>1. ASSUME NEW d \in Clients
        PROVE  stage'[d] # "idle" => issued'[d] # <<>> /\ Home[d] \in up'
    BY <1>1, <2>1, Zenon DEF Held, LogDiscipline, ClientsOK
  <2> QED
    BY <2>1, Zenon DEF Held, LogDiscipline, ClientsOK
<1> QED
  BY <1>2, <1>3, <1>4 DEF Held, LogDiscipline

LEMMA ReqRecvHeld ==
  ASSUME Held, NEW c \in Clients, ReqRecv(c)
  PROVE  Held'
<1>1. /\ stage[c] # "idle" /\ "queued" \in Stages
      /\ stage' = [stage EXCEPT ![c] = "queued"]
      /\ UNCHANGED <<up, crashed, model, store, issued, klog, at, pos, applied, acked>>
  BY DEF ReqRecv, Stages, nodeVars, threadVars
<1>2. Last(c) \in Requests
  BY <1>1, LastType, Zenon DEF Held, LogDiscipline
<1>3. /\ outq \in [Clients -> Seq(Requests)]
      /\ \A d \in Clients : \A i \in DOMAIN outq[d] : outq[d][i].op = "set"
  BY Zenon DEF Held, TypeOK, LogDiscipline, LogOfSets
<1>4. CASE Last(c).op = "set"
  <2>1. outq' = [outq EXCEPT ![c] = Append(outq[c], Last(c))]
    BY <1>3, <1>4 DEF ReqRecv, Produce
  <2>2. Append(outq[c], Last(c)) \in Seq(Requests)
    BY <1>2, <1>3, AppendFacts
  <2>3. outq' \in [Clients -> Seq(Requests)]
    BY <1>3, <2>1, <2>2
  <2>4. ASSUME NEW d \in Clients, NEW i \in DOMAIN outq'[d]
        PROVE  outq'[d][i].op = "set"
    <3>1. CASE d = c
      <4>1. outq'[d] = Append(outq[c], Last(c)) /\ outq[c] \in Seq(Requests)
        BY <1>3, <2>1, <3>1
      <4>2. \A j \in DOMAIN Append(outq[c], Last(c)) :
              Append(outq[c], Last(c))[j].op = "set"
        BY <1>2, <1>3, <1>4, <4>1, AllSets
      <4> QED
        BY <2>4, <4>1, <4>2, Zenon
    <3>2. CASE d # c
      <4>1. outq'[d] = outq[d]
        BY <1>3, <2>1, <3>2
      <4> QED
        BY <1>3, <2>4, <4>1, Zenon
    <3> QED
      BY <3>1, <3>2
  <2> QED
    BY <1>1, <2>3, <2>4, RequestHeld, Zenon DEF Held, TypeOK
<1>5. CASE Last(c).op # "set"
  <2>1. outq' = outq
    BY <1>5 DEF ReqRecv, Produce
  <2> QED
    BY <1>1, <1>3, <2>1, RequestHeld, Zenon DEF Held, TypeOK
<1> QED
  BY <1>4, <1>5

LEMMA MoveHeld ==
  ASSUME Held, NEW c \in Clients, ReqSend(c) \/ RspRecv(c)
  PROVE  Held'
<1>1. PICK s \in {"sent", "reply"} :
        /\ stage[c] # "idle" /\ stage' = [stage EXCEPT ![c] = s]
        /\ UNCHANGED <<up, crashed, model, store, issued, outq, klog, at, pos,
                       applied, acked>>
  BY DEF ReqSend, RspRecv, Move, nodeVars, threadVars
<1>2. s \in Stages
  BY DEF Stages
<1>3. \A d \in Clients : \A i \in DOMAIN outq'[d] : outq'[d][i].op = "set"
  BY <1>1, Zenon DEF Held, LogDiscipline, LogOfSets
<1> QED
  BY <1>1, <1>2, <1>3, RequestHeld, Zenon DEF Held, TypeOK

LEMMA HandleRequestHeld ==
  ASSUME Held, NEW c \in Clients, HandleRequest(c)
  PROVE  Held'
<1>1. /\ stage[c] # "idle" /\ "answered" \in Stages
      /\ stage' = [stage EXCEPT ![c] = "answered"]
      /\ UNCHANGED <<up, crashed, model, issued, outq, klog, at, pos, acked>>
      /\ Home[c] \in Nodes /\ Perform(Home[c], Last(c))
  BY LogAssumption DEF HandleRequest, Stages, nodeVars, threadVars
<1>2. Last(c) \in Requests
  BY <1>1, LastType, Zenon DEF Held, LogDiscipline
<1>3. /\ store' \in [Nodes -> [Keys -> Requests \cup {NoVal}]]
      /\ applied' \in [Nodes -> SUBSET Requests]
  BY <1>1, <1>2, PerformType, Zenon DEF Held
<1>4. \A d \in Clients : \A i \in DOMAIN outq'[d] : outq'[d][i].op = "set"
  BY <1>1, Zenon DEF Held, LogDiscipline, LogOfSets
<1> QED
  BY <1>1, <1>3, <1>4, RequestHeld, Zenon DEF Held, TypeOK

LEMMA RspSendHeld ==
  ASSUME Held, NEW c \in Clients, RspSend(c)
  PROVE  Held'
<1>1. /\ stage[c] # "idle" /\ "idle" \in Stages
      /\ stage' = [stage EXCEPT ![c] = "idle"]
      /\ UNCHANGED <<up, crashed, model, store, issued, outq, klog, at, pos, applied>>
  BY DEF RspSend, Stages, nodeVars, threadVars
<1>2. Last(c) \in Requests
  BY <1>1, LastType, Zenon DEF Held, LogDiscipline
<1>3. acked' \in SUBSET Requests
  BY <1>2 DEF RspSend, Held, TypeOK
<1>4. \A d \in Clients : \A i \in DOMAIN outq'[d] : outq'[d][i].op = "set"
  BY <1>1, Zenon DEF Held, LogDiscipline, LogOfSets
<1> QED
  BY <1>1, <1>3, <1>4, RequestHeld, Zenon DEF Held, TypeOK

-----------------------------------------------------------------------------
(* Kafka, the threads, crash and restart.                                  *)

LEMMA DeliverFacts ==
  ASSUME Held, NEW c \in Clients, Deliver(c)
  PROVE  /\ Head(outq[c]) \in Requests /\ Head(outq[c]).op = "set"
         /\ klog' = Append(klog, Head(outq[c])) /\ Len(klog') = Len(klog) + 1
         /\ \A i \in 1..Len(klog) : klog'[i] = klog[i]
<1>1. /\ klog \in Seq(Requests) /\ outq[c] \in Seq(Requests) /\ outq[c] # <<>>
      /\ \A i \in DOMAIN outq[c] : outq[c][i].op = "set"
  BY Zenon DEF Held, TypeOK, LogDiscipline, LogOfSets, Deliver
<1>2. Head(outq[c]) \in Requests
  BY <1>1, NonEmpty
<1>3. Head(outq[c]).op = "set"
  BY <1>1, AllSets
<1>4. klog' = Append(klog, Head(outq[c]))
  BY Zenon DEF Deliver
<1> QED
  BY <1>1, <1>2, <1>3, <1>4, AppendFacts

LEMMA DeliverHeld ==
  ASSUME Held, NEW c \in Clients, Deliver(c)
  PROVE  Held'
<1>1. /\ UNCHANGED <<up, crashed, model, store, issued, stage, at, pos, applied, acked>>
      /\ outq' = [outq EXCEPT ![c] = Tail(outq[c])] /\ outq[c] # <<>>
  BY DEF Deliver, nodeVars, threadVars, Held, TypeOK
<1>2. /\ klog \in Seq(Requests) /\ outq \in [Clients -> Seq(Requests)]
      /\ outq[c] \in Seq(Requests)
  BY DEF Held, TypeOK
<1>3. klog' \in Seq(Requests)
  BY <1>2, DeliverFacts, AppendFacts
<1>4. outq' \in [Clients -> Seq(Requests)]
  BY <1>1, <1>2, NonEmpty
<1>5. TypeOK'
  BY <1>1, <1>3, <1>4 DEF Held, TypeOK
<1>6. \A i \in DOMAIN klog' : klog'[i].op = "set"
  <2>1. \A i \in DOMAIN klog : klog[i].op = "set"
    BY Zenon DEF Held, LogDiscipline, LogOfSets
  <2> QED
    BY <1>2, <2>1, DeliverFacts, AllSets, ZenonT(60)
<1>7. ASSUME NEW d \in Clients PROVE \A i \in DOMAIN outq'[d] : outq'[d][i].op = "set"
  <2>1. \A i \in DOMAIN outq[d] : outq[d][i].op = "set"
    BY Zenon DEF Held, LogDiscipline, LogOfSets
  <2>2. outq[d] \in Seq(Requests)
    BY <1>2
  <2>3. CASE d = c
    <3>1. outq'[d] = Tail(outq[d]) /\ outq[d] # <<>>
      BY <1>1, <1>2, <2>3
    <3> QED
      BY <2>1, <2>2, <3>1, AllSets
  <2>4. CASE d # c
    BY <1>1, <1>2, <2>1, <2>4
  <2> QED
    BY <2>3, <2>4
<1>8. ThreadsOK'
  <2>1. ASSUME NEW t \in Threads PROVE pos'[t] <= Len(klog')
    <3>1. pos[t] \in Nat /\ pos[t] <= Len(klog) /\ Len(klog) \in Nat
      BY <1>2 DEF Held, TypeOK, LogDiscipline, ThreadsOK
    <3>2. Len(klog') = Len(klog) + 1 /\ pos'[t] = pos[t]
      BY <1>1, DeliverFacts
    <3> QED
      BY <3>1, <3>2
  <2> QED
    BY <1>1, <2>1, Zenon DEF Held, LogDiscipline, ThreadsOK
<1>9. ClientsOK'
  BY <1>1, Zenon DEF Held, LogDiscipline, ClientsOK
<1> QED
  BY <1>5, <1>6, <1>7, <1>8, <1>9 DEF Held, LogDiscipline, LogOfSets

\* A step of one thread that leaves the clients, the nodes and the log alone.
LEMMA ThreadHeld ==
  ASSUME Held, NEW t \in Threads, at[t] # "off",
         NEW a \in {"off", "queued", "sent", "answered"},
         NEW n \in Nat, n <= Len(klog), a \in {"queued", "sent"} => n # 0,
         at' = [at EXCEPT ![t] = a], pos' = [pos EXCEPT ![t] = n],
         UNCHANGED <<up, crashed, model, issued, stage, outq, klog, acked>>,
         store' \in [Nodes -> [Keys -> Requests \cup {NoVal}]],
         applied' \in [Nodes -> SUBSET Requests]
  PROVE  Held'
<1>1. /\ at \in [Threads -> {"off", "start", "queued", "sent", "answered"}]
      /\ pos \in [Threads -> Nat]
  BY DEF Held, TypeOK
<1>2. /\ at' \in [Threads -> {"off", "start", "queued", "sent", "answered"}]
      /\ pos' \in [Threads -> Nat] /\ at'[t] = a /\ pos'[t] = n
      /\ \A u \in Threads \ {t} : at'[u] = at[u] /\ pos'[u] = pos[u]
  BY <1>1
<1>3. TypeOK'
  BY <1>2 DEF Held, TypeOK
<1>4. LogOfSets' /\ ClientsOK'
  BY Zenon DEF Held, LogDiscipline, LogOfSets, ClientsOK
<1>5. ThreadsOK'
  <2>1. t[1] \in up /\ (t[2] = "recover" => t[1] \notin Followers)
    BY Zenon DEF Held, LogDiscipline, ThreadsOK
  <2>2. ASSUME NEW u \in Threads, u # t
        PROVE  /\ pos'[u] <= Len(klog')
               /\ at'[u] \in {"queued", "sent"} => pos'[u] # 0
               /\ u[1] \notin up' => at'[u] = "off"
               /\ u[2] = "recover" /\ u[1] \in Followers => at'[u] = "off"
    BY <1>2, <2>2, Zenon DEF Held, LogDiscipline, ThreadsOK
  <2> QED
    BY <1>2, <2>1, <2>2, Zenon DEF ThreadsOK
<1> QED
  BY <1>3, <1>4, <1>5 DEF Held, LogDiscipline

LEMMA ConsumeHeld ==
  ASSUME Held, NEW t \in Threads, Consume(t) \/ ConsumeNothing(t) \/ ReplaySend(t)
  PROVE  Held'
<1>1. /\ pos \in [Threads -> Nat] /\ pos[t] \in Nat /\ Len(klog) \in Nat
      /\ store \in [Nodes -> [Keys -> Requests \cup {NoVal}]]
      /\ applied \in [Nodes -> SUBSET Requests]
      /\ pos[t] <= Len(klog)
  BY DEF Held, TypeOK, LogDiscipline, ThreadsOK
<1>2. UNCHANGED <<up, crashed, model, store, issued, stage, outq, klog, applied, acked>>
  BY DEF Consume, ConsumeNothing, ReplaySend, nodeVars, clientVars
<1>3. CASE Consume(t)
  <2>1. /\ at[t] # "off" /\ at' = [at EXCEPT ![t] = "queued"]
        /\ pos' = [pos EXCEPT ![t] = pos[t] + 1]
        /\ pos[t] + 1 \in Nat /\ pos[t] + 1 <= Len(klog) /\ pos[t] + 1 # 0
    BY <1>1, <1>3 DEF Consume
  <2> QED
    BY <1>1, <1>2, <2>1, ThreadHeld, Zenon
<1>4. CASE ConsumeNothing(t)
  <2>1. /\ at[t] # "off" /\ at' = [at EXCEPT ![t] = "off"]
        /\ pos' = [pos EXCEPT ![t] = pos[t]]
    BY <1>1, <1>4 DEF ConsumeNothing
  <2> QED
    BY <1>1, <1>2, <2>1, ThreadHeld, Zenon
<1>5. CASE ReplaySend(t)
  <2>1. /\ at[t] # "off" /\ at' = [at EXCEPT ![t] = "sent"]
        /\ pos' = [pos EXCEPT ![t] = pos[t]] /\ pos[t] # 0
    BY <1>1, <1>5 DEF ReplaySend, Held, LogDiscipline, ThreadsOK
  <2> QED
    BY <1>1, <1>2, <2>1, ThreadHeld, Zenon
<1> QED
  BY <1>3, <1>4, <1>5

LEMMA ReplayHandleHeld ==
  ASSUME Held, NEW t \in Threads, ReplayHandle(t)
  PROVE  Held'
<1>1. /\ pos \in [Threads -> Nat] /\ pos[t] \in Nat /\ pos[t] <= Len(klog)
      /\ t[1] \in Nodes
  BY DEF Held, TypeOK, LogDiscipline, ThreadsOK, Threads
<1>2. /\ UNCHANGED <<up, crashed, model, issued, stage, outq, klog, acked>>
      /\ at[t] # "off" /\ at' = [at EXCEPT ![t] = "answered"]
      /\ pos' = [pos EXCEPT ![t] = pos[t]] /\ Perform(t[1], klog[pos[t]])
  BY <1>1 DEF ReplayHandle, nodeVars, clientVars
<1>3. klog[pos[t]] \in Requests
  BY EntryType DEF Held, ReplayHandle
<1>4. /\ store' \in [Nodes -> [Keys -> Requests \cup {NoVal}]]
      /\ applied' \in [Nodes -> SUBSET Requests]
  BY <1>1, <1>2, <1>3, PerformType, Zenon DEF Held
<1> QED
  BY <1>1, <1>2, <1>4, ThreadHeld, Zenon

LEMMA CrashHeld ==
  ASSUME Held, NEW p \in Nodes, Crash(p)
  PROVE  Held'
<1>1. /\ UNCHANGED <<model, store, issued, klog, pos, applied, acked>>
      /\ up' = up \ {p} /\ crashed' = crashed \cup {p}
  BY DEF Crash
<1>2. /\ stage' = [c \in Clients |-> IF Home[c] = p THEN "idle" ELSE stage[c]]
      /\ outq' = [c \in Clients |-> IF Home[c] = p THEN <<>> ELSE outq[c]]
      /\ at' = [t \in Threads |-> IF t[1] = p THEN "off" ELSE at[t]]
  BY DEF Crash
<1>3. /\ stage' \in [Clients -> Stages]
      /\ at' \in [Threads -> {"off", "start", "queued", "sent", "answered"}]
      /\ outq' \in [Clients -> Seq(Requests)]
  BY <1>2 DEF Held, TypeOK, Stages
<1>4. TypeOK'
  BY <1>1, <1>3 DEF Held, TypeOK
<1>5. LogOfSets'
  BY <1>1, <1>2 DEF Held, LogDiscipline, LogOfSets
<1>6. ClientsOK'
  <2>1. ASSUME NEW c \in Clients, stage'[c] # "idle"
        PROVE  issued'[c] # <<>> /\ Home[c] \in up'
    <3>1. Home[c] # p /\ stage[c] # "idle"
      BY <1>2, <2>1
    <3> QED
      BY <1>1, <3>1 DEF Held, LogDiscipline, ClientsOK
  <2> QED
    BY <1>1, <2>1, Zenon DEF Held, LogDiscipline, ClientsOK
<1>7. ThreadsOK'
  <2>1. ASSUME NEW t \in Threads
        PROVE  /\ at'[t] \in {"queued", "sent"} => pos'[t] # 0
               /\ t[1] \notin up' => at'[t] = "off"
               /\ t[2] = "recover" /\ t[1] \in Followers => at'[t] = "off"
    BY <1>1, <1>2, <2>1 DEF Held, LogDiscipline, ThreadsOK
  <2> QED
    BY <1>1, <2>1, Zenon DEF Held, LogDiscipline, ThreadsOK
<1> QED
  BY <1>4, <1>5, <1>6, <1>7 DEF Held, LogDiscipline

LEMMA RestartHeld ==
  ASSUME Held, NEW p \in Nodes, Restart(p)
  PROVE  Held'
<1>1. /\ UNCHANGED <<crashed, model, issued, stage, outq, klog, acked>>
      /\ up' = up \cup {p} /\ p \notin up
      /\ store' = [store EXCEPT ![p] = Empty] /\ applied' = [applied EXCEPT ![p] = {}]
  BY DEF Restart, clientVars
<1>2. /\ pos' = [t \in Threads |-> IF t[1] = p THEN 0 ELSE pos[t]]
      /\ at' = [t \in Threads |->
                  IF \/ t = <<p, "consume">> /\ Consumes(p, model[p])
                     \/ t = <<p, "recover">> /\ Recovers(p)
                  THEN "start" ELSE at[t]]
  BY DEF Restart, StartOffset
<1>3. Empty \in [Keys -> Requests \cup {NoVal}]
  BY DEF Empty
<1>4. /\ store' \in [Nodes -> [Keys -> Requests \cup {NoVal}]]
      /\ applied' \in [Nodes -> SUBSET Requests]
  BY <1>1, <1>3 DEF Held, TypeOK
<1>5. /\ at' \in [Threads -> {"off", "start", "queued", "sent", "answered"}]
      /\ pos' \in [Threads -> Nat]
  BY <1>2 DEF Held, TypeOK
<1>6. TypeOK'
  BY <1>1, <1>4, <1>5 DEF Held, TypeOK
<1>7. LogOfSets' /\ ClientsOK'
  BY <1>1 DEF Held, LogDiscipline, LogOfSets, ClientsOK
<1>8. ThreadsOK'
  <2>1. ASSUME NEW t \in Threads
        PROVE  /\ pos'[t] <= Len(klog')
               /\ at'[t] \in {"queued", "sent"} => pos'[t] # 0
               /\ t[1] \notin up' => at'[t] = "off"
               /\ t[2] = "recover" /\ t[1] \in Followers => at'[t] = "off"
    <3>1. /\ pos[t] <= Len(klog) /\ Len(klog) \in Nat /\ pos[t] \in Nat
          /\ at[t] \in {"queued", "sent"} => pos[t] # 0
          /\ t[1] \notin up => at[t] = "off"
          /\ t[2] = "recover" /\ t[1] \in Followers => at[t] = "off"
      BY DEF Held, TypeOK, LogDiscipline, ThreadsOK
    <3>2. CASE t[1] = p
      <4>1. pos'[t] = 0 /\ at'[t] \in {"start", "off"} /\ t[1] \in up'
        BY <1>1, <1>2, <3>1, <3>2
      <4>2. t[2] = "recover" /\ t[1] \in Followers => at'[t] = "off"
        <5>1. SUFFICES ASSUME t[2] = "recover", p \in Followers
                       PROVE  at'[t] = "off"
          BY <3>2
        <5>2. ~Recovers(p) /\ at[t] = "off" /\ t # <<p, "consume">>
          BY <3>1, <3>2, <5>1 DEF Followers, Recovers
        <5> QED
          BY <1>2, <5>2
      <4> QED
        BY <1>1, <3>1, <4>1, <4>2
    <3>3. CASE t[1] # p
      <4>1. pos'[t] = pos[t] /\ at'[t] = at[t] /\ (t[1] \in up' <=> t[1] \in up)
        BY <1>1, <1>2, <3>3
      <4> QED
        BY <1>1, <3>1, <4>1
    <3> QED
      BY <3>2, <3>3
  <2> QED
    BY <2>1, Zenon DEF ThreadsOK
<1> QED
  BY <1>6, <1>7, <1>8 DEF Held, LogDiscipline

LEMMA NextHeld == Held /\ [Next]_vars => Held'
<1> SUFFICES ASSUME Held, [Next]_vars PROVE Held'
  OBVIOUS
<1>1. CASE \E c \in Clients :
             \/ Issue(c) \/ ReqRecv(c) \/ ReqSend(c) \/ HandleRequest(c)
             \/ RspRecv(c) \/ RspSend(c) \/ Deliver(c)
  BY <1>1, IssueHeld, ReqRecvHeld, MoveHeld, HandleRequestHeld, RspSendHeld,
     DeliverHeld, Zenon
<1>2. CASE \E t \in Threads :
             Consume(t) \/ ConsumeNothing(t) \/ ReplaySend(t) \/ ReplayHandle(t)
  BY <1>2, ConsumeHeld, ReplayHandleHeld, Zenon
<1>3. CASE \E p \in Nodes : Crash(p) \/ Restart(p)
  BY <1>3, CrashHeld, RestartHeld, ZenonT(60)
<1>4. CASE UNCHANGED vars
  BY <1>4, Zenon
  DEF vars, Held, TypeOK, LogDiscipline, LogOfSets, ClientsOK, ThreadsOK
<1> QED
  BY <1>1, <1>2, <1>3, <1>4, Zenon DEF Next

\* The state of the nodes, queues, log and threads keeps its types, and the log
\* its discipline.
THEOREM HeldAlways == Spec => []Held
  BY InitHeld, NextHeld, PTL DEF Spec

\* Type correctness of the shared-log topologies.
THEOREM LogTypeCorrect == Spec => []TypeOK
<1>1. Held => TypeOK
  BY DEF Held
<1> QED
  BY <1>1, HeldAlways, PTL

-----------------------------------------------------------------------------
(* SharedLog implements ReplicatedLog, and the table of a slave is the     *)
(* replay of a prefix of the log.                                          *)

\* The state of the slaves as ReplicatedLog sees it.
Position == [p \in Followers |-> IF p \in up THEN Replayed(p) ELSE 0]
Table == [p \in Followers |-> IF p \in up THEN store[p] ELSE Empty]

Stutters == klog' = klog /\ Position' = Position /\ Table' = Table
Appends ==
  /\ \E w \in Requests : klog' = Append(klog, w)
  /\ Position' = Position /\ Table' = Table
Applies(p) ==
  /\ Position[p] < Len(klog)
  /\ klog' = klog
  /\ Position' = [Position EXCEPT ![p] = Position[p] + 1]
  /\ Table' = [Table EXCEPT ![p] =
       [Table[p] EXCEPT ![klog[Position[p] + 1].key] = klog[Position[p] + 1]]]
StartsAgain(p) ==
  /\ klog' = klog
  /\ Position' = [Position EXCEPT ![p] = 0]
  /\ Table' = [Table EXCEPT ![p] = Empty]

-----------------------------------------------------------------------------
(* Every step of SharedLog, as the slaves see it.                          *)

LEMMA FollowerFacts ==
  ASSUME NEW p \in Followers
  PROVE  p \in Nodes /\ <<p, "consume">> \in Threads
  BY DEF Followers, Threads

LEMMA RequestView ==
  ASSUME Held, NEW c \in Clients,
         Issue(c) \/ ReqRecv(c) \/ ReqSend(c) \/ RspRecv(c) \/ RspSend(c)
  PROVE  Stutters
<1>1. UNCHANGED <<up, store, klog, at, pos>>
  BY DEF Issue, ReqRecv, ReqSend, RspRecv, Move, RspSend, nodeVars, threadVars
<1> QED
  BY <1>1 DEF Stutters, Position, Table, Replayed

LEMMA HandleRequestView ==
  ASSUME Held, NEW c \in Clients, HandleRequest(c)
  PROVE  Stutters
<1>1. /\ UNCHANGED <<up, klog, at, pos>>
      /\ Perform(Home[c], Last(c)) /\ stage[c] = "sent"
  BY DEF HandleRequest, nodeVars, threadVars
<1>2. Home[c] \in Followers => Last(c).op # "set"
  BY <1>1, LastType DEF Held, LogDiscipline
<1>3. ASSUME NEW p \in Followers PROVE store'[p] = store[p]
  <2>1. p \in Nodes /\ store \in [Nodes -> [Keys -> Requests \cup {NoVal}]]
    BY FollowerFacts, Zenon DEF Held, TypeOK
  <2>2. CASE Last(c).op = "set"
    <3>1. Home[c] # p /\ store' = [store EXCEPT ![Home[c]][Last(c).key] = Last(c)]
      BY <1>1, <1>2, <2>2 DEF Perform
    <3> QED
      BY <2>1, <3>1
  <2>3. CASE Last(c).op # "set"
    BY <1>1, <2>3 DEF Perform
  <2> QED
    BY <2>2, <2>3
<1>4. Table' = Table
  BY <1>1, <1>3 DEF Table
<1>5. Position' = Position
  BY <1>1 DEF Position, Replayed
<1> QED
  BY <1>1, <1>4, <1>5, Zenon DEF Stutters

LEMMA DeliverView ==
  ASSUME Held, NEW c \in Clients, Deliver(c)
  PROVE  Appends
<1>1. UNCHANGED <<up, store, at, pos>>
  BY DEF Deliver, nodeVars, threadVars
<1>2. Position' = Position /\ Table' = Table
  BY <1>1 DEF Position, Table, Replayed
<1> QED
  BY <1>2, DeliverFacts DEF Appends

LEMMA ConsumeView ==
  ASSUME Held, NEW t \in Threads, Consume(t) \/ ConsumeNothing(t) \/ ReplaySend(t)
  PROVE  Stutters
<1>1. UNCHANGED <<up, store, klog>>
  BY DEF Consume, ConsumeNothing, ReplaySend, nodeVars
<1>2. /\ at \in [Threads -> {"off", "start", "queued", "sent", "answered"}]
      /\ pos \in [Threads -> Nat]
  BY DEF Held, TypeOK
<1>3. ASSUME NEW p \in Followers PROVE Replayed(p)' = Replayed(p)
  <2>1. <<p, "consume">> \in Threads
    BY FollowerFacts
  <2>2. CASE Consume(t)
    <3>1. /\ at[t] \in {"start", "answered"} /\ at' = [at EXCEPT ![t] = "queued"]
          /\ pos' = [pos EXCEPT ![t] = pos[t] + 1] /\ pos[t] \in Nat
      BY <1>2, <2>2 DEF Consume
    <3>2. CASE t = <<p, "consume">>
      <4>1. /\ at[<<p, "consume">>] \notin {"queued", "sent"}
            /\ at'[<<p, "consume">>] = "queued"
            /\ pos'[<<p, "consume">>] = pos[<<p, "consume">>] + 1
            /\ pos[<<p, "consume">>] \in Nat
        BY <1>2, <2>1, <3>1, <3>2
      <4>2. (pos[<<p, "consume">>] + 1) - 1 = pos[<<p, "consume">>]
        BY <4>1
      <4> QED
        BY <4>1, <4>2 DEF Replayed
    <3>3. CASE t # <<p, "consume">>
      <4>1. /\ at'[<<p, "consume">>] = at[<<p, "consume">>]
            /\ pos'[<<p, "consume">>] = pos[<<p, "consume">>]
        BY <1>2, <2>1, <3>1, <3>3
      <4> QED
        BY <4>1 DEF Replayed
    <3> QED
      BY <3>2, <3>3
  <2>3. CASE ConsumeNothing(t)
    <3>1. /\ at' = [at EXCEPT ![t] = "off"] /\ pos' = pos /\ t # <<p, "consume">>
      BY <2>3 DEF ConsumeNothing
    <3>2. at'[<<p, "consume">>] = at[<<p, "consume">>]
      BY <1>2, <2>1, <3>1
    <3> QED
      BY <3>1, <3>2 DEF Replayed
  <2>4. CASE ReplaySend(t)
    <3>1. at[t] = "queued" /\ at' = [at EXCEPT ![t] = "sent"] /\ pos' = pos
      BY <2>4 DEF ReplaySend
    <3>2. at'[<<p, "consume">>] \in {"queued", "sent"} <=>
          at[<<p, "consume">>] \in {"queued", "sent"}
      BY <1>2, <2>1, <3>1
    <3> QED
      BY <3>1, <3>2 DEF Replayed
  <2> QED
    BY <2>2, <2>3, <2>4
<1>4. Position' = Position
  BY <1>1, <1>3 DEF Position
<1>5. Table' = Table
  BY <1>1 DEF Table
<1> QED
  BY <1>1, <1>4, <1>5 DEF Stutters

\* Only consume_kafka replays into a slave, one entry after the other.
LEMMA ReplayHandleView ==
  ASSUME Held, NEW t \in Threads, ReplayHandle(t)
  PROVE  Stutters \/ \E p \in Followers : Applies(p)
<1> DEFINE r == klog[pos[t]]
<1>1. /\ UNCHANGED <<up, klog, pos>>
      /\ at[t] = "sent" /\ at' = [at EXCEPT ![t] = "answered"]
      /\ Perform(t[1], r)
  BY DEF ReplayHandle, nodeVars
<1>2. /\ at \in [Threads -> {"off", "start", "queued", "sent", "answered"}]
      /\ pos \in [Threads -> Nat]
      /\ store \in [Nodes -> [Keys -> Requests \cup {NoVal}]]
  BY DEF Held, TypeOK
<1>3. r \in Requests /\ r.op = "set" /\ pos[t] \in 1..Len(klog)
  BY <1>1, EntryType DEF Held
<1>4. r.key \in Keys
  BY <1>3 DEF Requests
<1>5. t \in Nodes \X {"consume", "recover"}
  BY DEF Threads
<1>6. t[1] \in Nodes /\ t = <<t[1], t[2]>> /\ t[2] \in {"consume", "recover"}
  BY <1>5
<1>7. store' = [store EXCEPT ![t[1]][r.key] = r]
  BY <1>1, <1>3 DEF Perform
<1> HIDE DEF r
<1>8. ASSUME NEW p \in Followers, p # t[1]
      PROVE  Replayed(p)' = Replayed(p) /\ store'[p] = store[p]
  <2>1. p \in Nodes /\ <<p, "consume">> \in Threads /\ <<p, "consume">> # t
    BY <1>6, <1>8, FollowerFacts
  <2>2. store'[p] = store[p]
    BY <1>2, <1>7, <1>8, <2>1
  <2>3. at'[<<p, "consume">>] = at[<<p, "consume">>]
    BY <1>1, <1>2, <2>1
  <2> QED
    BY <1>1, <2>2, <2>3 DEF Replayed
<1>9. CASE t[1] \notin Followers
  <2>1. \A p \in Followers : Replayed(p)' = Replayed(p) /\ store'[p] = store[p]
    BY <1>8, <1>9
  <2> QED
    BY <1>1, <2>1 DEF Stutters, Position, Table
<1>10. CASE t[1] \in Followers
  <2>1. t[1] \in up /\ t = <<t[1], "consume">>
    BY <1>1, <1>6, <1>10 DEF Held, LogDiscipline, ThreadsOK
  <2>2. PICK p \in Followers : p = t[1]
    BY <1>10
  <2>3. /\ p \in up /\ p \in Nodes /\ t = <<p, "consume">>
        /\ at[<<p, "consume">>] = "sent" /\ at'[<<p, "consume">>] = "answered"
    BY <1>1, <1>2, <2>1, <2>2, FollowerFacts
  <2>4. PICK n \in 1..Len(klog) : n = pos[t]
    BY <1>3
  <2>5. Replayed(p) = n - 1 /\ Replayed(p)' = n
    BY <1>1, <2>3, <2>4, Zenon DEF Replayed
  <2>6. Position[p] = n - 1 /\ Table[p] = store[p] /\ (n - 1) + 1 = n /\ n - 1 < Len(klog)
    <3>1. klog \in Seq(Requests)
      BY DEF Held, TypeOK
    <3>2. Len(klog) \in Nat
      BY <3>1
    <3>3. (n - 1) + 1 = n /\ n - 1 < Len(klog)
      BY <3>2
    <3> QED
      BY <2>3, <2>5, <3>3 DEF Position, Table
  <2>7. Position' = [Position EXCEPT ![p] = n]
    <3>1. \A q \in Followers : q # p => Replayed(q)' = Replayed(q)
      BY <1>8, <2>2, Zenon
    <3> QED
      BY <1>1, <2>3, <2>5, <3>1, Zenon DEF Position
  <2>8. Table' = [Table EXCEPT ![p] = [Table[p] EXCEPT ![r.key] = r]]
    <3>1. \A q \in Followers : q # p => store'[q] = store[q]
      BY <1>8, <2>2, Zenon
    <3>2. store'[p] = [store[p] EXCEPT ![r.key] = r]
      BY <1>2, <1>4, <1>7, <2>2, <2>3
    <3> QED
      BY <1>1, <2>3, <2>6, <3>1, <3>2, Zenon DEF Table
  <2>9. r = klog[Position[p] + 1]
    BY <2>4, <2>6 DEF r
  <2>10. Applies(p)
    BY <1>1, <2>6, <2>7, <2>8, <2>9, Zenon DEF Applies
  <2> QED
    BY <2>10
<1> QED
  BY <1>9, <1>10

LEMMA CrashView ==
  ASSUME Held, NEW p \in Nodes, Crash(p)
  PROVE  Stutters \/ (p \in Followers /\ StartsAgain(p))
<1>1. /\ UNCHANGED <<store, klog, pos>> /\ up' = up \ {p} /\ p \in up
      /\ at' = [t \in Threads |-> IF t[1] = p THEN "off" ELSE at[t]]
  BY DEF Crash
<1>2. \A q \in Followers : q # p => Replayed(q)' = Replayed(q)
  <2>1. ASSUME NEW q \in Followers, q # p PROVE at'[<<q, "consume">>] = at[<<q, "consume">>]
    BY <1>1, <2>1, FollowerFacts
  <2> QED
    BY <1>1, <2>1 DEF Replayed
<1>3. CASE p \notin Followers
  <2>1. \A q \in Followers : (q \in up' <=> q \in up) /\ Replayed(q)' = Replayed(q)
    BY <1>1, <1>2, <1>3
  <2> QED
    BY <1>1, <2>1 DEF Stutters, Position, Table
<1>4. CASE p \in Followers
  <2>1. /\ \A q \in Followers : q # p =>
             (q \in up' <=> q \in up) /\ Replayed(q)' = Replayed(q)
        /\ p \notin up' /\ store' = store /\ klog' = klog
    BY <1>1, <1>2
  <2>2. Position' = [Position EXCEPT ![p] = 0]
    BY <2>1, Zenon DEF Position
  <2>3. Table' = [Table EXCEPT ![p] = Empty]
    BY <2>1, Zenon DEF Table, Empty
  <2> QED
    BY <1>4, <2>1, <2>2, <2>3 DEF StartsAgain
<1> QED
  BY <1>3, <1>4

LEMMA RestartView ==
  ASSUME Held, NEW p \in Nodes, Restart(p)
  PROVE  Stutters \/ (p \in Followers /\ StartsAgain(p))
<1>1. /\ klog' = klog /\ up' = up \cup {p} /\ p \notin up
      /\ store' = [store EXCEPT ![p] = Empty]
      /\ pos' = [t \in Threads |-> IF t[1] = p THEN 0 ELSE pos[t]]
  BY DEF Restart, StartOffset
<1>2. at' = [t \in Threads |->
               IF \/ t = <<p, "consume">> /\ Consumes(p, model[p])
                  \/ t = <<p, "recover">> /\ Recovers(p)
               THEN "start" ELSE at[t]]
  BY DEF Restart
<1>3. store \in [Nodes -> [Keys -> Requests \cup {NoVal}]]
  BY DEF Held, TypeOK
<1>4. ASSUME NEW q \in Followers, q # p
      PROVE  Replayed(q)' = Replayed(q) /\ store'[q] = store[q] /\ (q \in up' <=> q \in up)
  <2>1. <<q, "consume">> \in Threads /\ q \in Nodes
    BY FollowerFacts
  <2>2. /\ at'[<<q, "consume">>] = at[<<q, "consume">>]
        /\ pos'[<<q, "consume">>] = pos[<<q, "consume">>]
    BY <1>1, <1>2, <1>4, <2>1
  <2>3. store'[q] = store[q]
    BY <1>1, <1>3, <1>4, <2>1
  <2> QED
    BY <1>1, <1>4, <2>2, <2>3 DEF Replayed
<1>5. CASE p \notin Followers
  <2>1. \A q \in Followers :
          /\ q \in up' <=> q \in up
          /\ Replayed(q)' = Replayed(q) /\ store'[q] = store[q]
    BY <1>4, <1>5
  <2> QED
    BY <1>1, <2>1 DEF Stutters, Position, Table, Empty
<1>6. CASE p \in Followers
  <2>1. <<p, "consume">> \in Threads
    BY <1>6, FollowerFacts
  <2>2. at[<<p, "consume">>] = "off"
    BY <1>1, <2>1 DEF Held, LogDiscipline, ThreadsOK
  <2>3. at'[<<p, "consume">>] \notin {"queued", "sent"} /\ pos'[<<p, "consume">>] = 0
    BY <1>1, <1>2, <2>1, <2>2
  <2>4. Replayed(p)' = 0
    BY <2>3 DEF Replayed
  <2>5. store'[p] = Empty /\ p \in up'
    BY <1>1, <1>3
  <2>6. Position' = [Position EXCEPT ![p] = 0]
    BY <1>4, <2>4, <2>5, Zenon DEF Position
  <2>7. Table' = [Table EXCEPT ![p] = Empty]
    BY <1>4, <2>5, Zenon DEF Table, Empty
  <2> QED
    BY <1>1, <1>6, <2>6, <2>7 DEF StartsAgain
<1> QED
  BY <1>5, <1>6

LEMMA NextView ==
  ASSUME Held, [Next]_vars
  PROVE  \/ Stutters \/ Appends
         \/ \E p \in Followers : Applies(p) \/ StartsAgain(p)
<1>1. CASE \E c \in Clients :
             \/ Issue(c) \/ ReqRecv(c) \/ ReqSend(c) \/ HandleRequest(c)
             \/ RspRecv(c) \/ RspSend(c) \/ Deliver(c)
  BY <1>1, RequestView, HandleRequestView, DeliverView, Zenon
<1>2. CASE \E t \in Threads :
             Consume(t) \/ ConsumeNothing(t) \/ ReplaySend(t) \/ ReplayHandle(t)
  BY <1>2, ConsumeView, ReplayHandleView, Zenon
<1>3. CASE \E p \in Nodes : Crash(p) \/ Restart(p)
  BY <1>3, CrashView, RestartView, Zenon
<1>4. CASE UNCHANGED vars
  BY <1>4, Zenon DEF vars, Stutters, Position, Table, Replayed
<1> QED
  BY <1>1, <1>2, <1>3, <1>4, Zenon DEF Next

-----------------------------------------------------------------------------
(* SharedLog implements ReplicatedLog.                                     *)

LEMMA InitView == Init => Replication!Init
<1> SUFFICES ASSUME Init PROVE Replication!Init
  OBVIOUS
<1>1. /\ klog = <<>> /\ up = Nodes
      /\ \A p \in Followers : store[p] = Empty /\ Replayed(p) = 0
  <2>1. ASSUME NEW p \in Followers PROVE store[p] = Empty /\ Replayed(p) = 0
    <3>1. <<p, "consume">> \in Threads /\ p \in Nodes
      BY FollowerFacts
    <3>2. at[<<p, "consume">>] \in {"start", "off"} /\ pos[<<p, "consume">>] = 0
      BY <3>1 DEF Init
    <3> QED
      BY <3>1, <3>2 DEF Init, Replayed
  <2> QED
    BY <2>1 DEF Init
<1>2. \A p \in Followers : p \in up
  BY <1>1, FollowerFacts, Zenon
<1> QED
  BY <1>1, <1>2 DEF Replication!Init, Replication!Empty, Empty

\* consume_kafka, Kafka and the datalets of the slaves implement replication
\* through a log: every step of the proxies, the datalets, the threads and the
\* broker, every crash and every restart appends a write to the log, carries
\* out the next entry at one slave, makes one slave start again from the empty
\* table, or changes nothing a slave's clients can see.
THEOREM ImplementsReplicatedLogHolds == Spec => ImplementsReplicatedLog
<1>1. ASSUME Held, [Next]_vars
      PROVE  [Replication!Next]_(Replication!vars)
  <2>1. CASE Stutters
    BY <2>1 DEF Stutters, Position, Table, Replication!vars
  <2>2. CASE Appends
    BY <2>2 DEF Appends, Position, Table, Replication!Next, Replication!AppendWrite
  <2>3. ASSUME NEW p \in Followers, Applies(p) PROVE Replication!ApplyNext(p)
    BY <2>3, Zenon DEF Applies, Position, Table, Replication!ApplyNext
  <2>4. ASSUME NEW p \in Followers, StartsAgain(p) PROVE Replication!StartAgain(p)
    BY <2>4, Zenon
    DEF StartsAgain, Position, Table, Empty, Replication!StartAgain, Replication!Empty
  <2> QED
    BY <1>1, <2>1, <2>2, <2>3, <2>4, NextView, Zenon DEF Replication!Next
<1> QED
  BY <1>1, InitView, HeldAlways, PTL DEF Spec, ImplementsReplicatedLog, Replication!Spec

-----------------------------------------------------------------------------
(* The last write of a key in a prefix of the log.                         *)

\* A non-empty set of positions has a last one.
LEMMA HasLast ==
  ASSUME NEW n \in Nat, NEW w \in SUBSET (1..n), w # {}
  PROVE  \E i \in w : \A j \in w : j <= i
<1> DEFINE T == {m \in Nat : \E i \in w : m = n - i}
<1>1. T \subseteq Nat /\ T # {}
  <2>1. PICK i \in w : TRUE
    BY Zenon
  <2>2. n - i \in T
    OBVIOUS
  <2> QED
    BY <2>2, Zenon
<1> HIDE DEF T
<1>2. PICK x \in T : \A y \in T : ~(<<y, x>> \in OpToRel(<, Nat))
  BY <1>1, WFMin, NatLessThanWellFounded, Zenon
<1>3. \A y \in T : ~(y < x)
  BY <1>1, <1>2, Zenon DEF OpToRel
<1>4. PICK i \in w : x = n - i
  BY DEF T
<1>5. ASSUME NEW j \in w PROVE j <= i
  <2>1. n - j \in T
    BY DEF T
  <2> QED
    BY <1>3, <1>4, <2>1
<1> QED
  BY <1>5

LEMMA LastWriteZero ==
  ASSUME NEW k \in Keys
  PROVE  LastWrite(k, 0) = NoVal
  BY DEF LastWrite

LEMMA LastWriteNext ==
  ASSUME NEW k \in Keys, NEW n \in Nat
  PROVE  LastWrite(k, n + 1) =
           IF klog[n + 1].key = k THEN klog[n + 1] ELSE LastWrite(k, n)
<1> DEFINE w(m) == {i \in 1..m : klog[i].key = k}
<1>1. CASE klog[n + 1].key = k
  <2>1. n + 1 \in w(n + 1) /\ \A j \in w(n + 1) : j <= n + 1
    BY <1>1
  <2>2. \A i \in w(n + 1) : (\A j \in w(n + 1) : j <= i) => i = n + 1
    BY <2>1
  <2>3. (CHOOSE i \in w(n + 1) : \A j \in w(n + 1) : j <= i) = n + 1
    BY <2>1, <2>2
  <2> QED
    BY <1>1, <2>1, <2>3 DEF LastWrite
<1>2. CASE klog[n + 1].key # k
  <2>1. PICK u : u = w(n)
    BY Zenon
  <2>2. u = w(n + 1)
    BY <1>2, <2>1
  <2>3. LastWrite(k, n) =
          IF u = {} THEN NoVal ELSE klog[CHOOSE i \in u : \A j \in u : j <= i]
    BY <2>1 DEF LastWrite
  <2>4. LastWrite(k, n + 1) =
          IF u = {} THEN NoVal ELSE klog[CHOOSE i \in u : \A j \in u : j <= i]
    BY <2>2 DEF LastWrite
  <2> QED
    BY <1>2, <2>3, <2>4
<1> QED
  BY <1>1, <1>2

\* What is appended to the log does not change the outcome of its prefixes.
LEMMA LastWriteAppend ==
  ASSUME NEW k \in Keys, NEW n \in Nat, \A i \in 1..n : klog'[i] = klog[i]
  PROVE  LastWrite(k, n)' = LastWrite(k, n)
<1>1. PICK w \in SUBSET (1..n) : w = {i \in 1..n : klog[i].key = k}
  BY Zenon
<1>2. w = {i \in 1..n : klog'[i].key = k}
  BY <1>1
<1>3. CASE w = {}
  BY <1>1, <1>2, <1>3 DEF LastWrite
<1>4. CASE w # {}
  <2>1. PICK m : m = CHOOSE i \in w : \A j \in w : j <= i
    OBVIOUS
  <2>2. m \in w
    BY <1>4, <2>1, HasLast, Zenon
  <2>3. klog'[m] = klog[m]
    BY <2>2, Zenon
  <2>4. LastWrite(k, n) = klog[m]
    BY <1>1, <1>4, <2>1 DEF LastWrite
  <2>5. LastWrite(k, n)' = klog'[m]
    BY <1>2, <1>4, <2>1 DEF LastWrite
  <2> QED
    BY <2>3, <2>4, <2>5
<1> QED
  BY <1>3, <1>4

-----------------------------------------------------------------------------
(* The tables of the slaves.                                               *)

Follows == \A p \in Followers, k \in Keys : Table[p][k] = LastWrite(k, Position[p])

LEMMA PositionType ==
  ASSUME Held, NEW p \in Followers
  PROVE  /\ Position[p] \in Nat /\ Position[p] <= Len(klog) /\ Len(klog) \in Nat
         /\ Table[p] \in [Keys -> Requests \cup {NoVal}]
<1>1. <<p, "consume">> \in Threads /\ p \in Nodes
  BY FollowerFacts
<1>2. /\ pos[<<p, "consume">>] \in Nat /\ klog \in Seq(Requests)
      /\ store[p] \in [Keys -> Requests \cup {NoVal}]
  BY <1>1 DEF Held, TypeOK
<1>3. Len(klog) \in Nat
  <2>1. PICK q \in Seq(Requests) : q = klog
    BY <1>2, Zenon
  <2>2. Len(q) \in Nat
    OBVIOUS
  <2> QED
    BY <2>1, <2>2, Zenon
<1>4. /\ pos[<<p, "consume">>] <= Len(klog)
      /\ at[<<p, "consume">>] \in {"queued", "sent"} => pos[<<p, "consume">>] # 0
  BY <1>1 DEF Held, LogDiscipline, ThreadsOK
<1>5. Replayed(p) \in Nat /\ Replayed(p) <= Len(klog)
  BY <1>2, <1>3, <1>4 DEF Replayed
<1> QED
  BY <1>2, <1>3, <1>5 DEF Position, Table, Empty

LEMMA NextFollows ==
  ASSUME Held, Follows, [Next]_vars
  PROVE  Follows'
<1> SUFFICES ASSUME NEW p \in Followers, NEW k \in Keys
             PROVE  Table'[p][k] = LastWrite(k, Position[p])'
  BY DEF Follows
<1>1. PICK n \in Nat : n = Position[p]
  BY PositionType
<1>2. n <= Len(klog) /\ Len(klog) \in Nat /\ Table[p][k] = LastWrite(k, n)
  BY <1>1, PositionType DEF Follows
<1>3. ASSUME NEW m \in Nat, Position'[p] = m
      PROVE  LastWrite(k, Position[p])' = LastWrite(k, m)'
  BY <1>3 DEF LastWrite
<1>4. ASSUME NEW m \in Nat, klog' = klog PROVE LastWrite(k, m)' = LastWrite(k, m)
  BY <1>4, LastWriteAppend
<1>5. CASE Position'[p] = n /\ Table'[p] = Table[p] /\ klog' = klog
  BY <1>2, <1>3, <1>4, <1>5
<1>6. CASE Stutters
  BY <1>1, <1>5, <1>6 DEF Stutters
<1>7. CASE Appends
  <2>1. PICK r \in Requests : klog' = Append(klog, r)
    BY <1>7 DEF Appends
  <2>2. klog \in Seq(Requests)
    BY DEF Held, TypeOK
  <2>3. \A i \in 1..Len(klog) : klog'[i] = klog[i]
    BY <2>1, <2>2, AppendFacts
  <2>4. \A i \in 1..n : klog'[i] = klog[i]
    BY <1>2, <2>3
  <2>5. LastWrite(k, n)' = LastWrite(k, n)
    BY <2>4, LastWriteAppend
  <2>6. Position'[p] = n /\ Table'[p] = Table[p]
    BY <1>1, <1>7 DEF Appends
  <2> QED
    BY <1>2, <1>3, <2>5, <2>6
<1>8. ASSUME NEW q \in Followers, Applies(q)
      PROVE  Table'[p][k] = LastWrite(k, Position[p])'
  <2>1. CASE q # p
    <3>1. Position'[p] = n /\ Table'[p] = Table[p] /\ klog' = klog
      BY <1>1, <1>8, <2>1, Zenon DEF Applies, Position, Table
    <3> QED
      BY <1>5, <3>1
  <2>2. CASE q = p
    <3>1. /\ klog' = klog /\ Position'[p] = n + 1 /\ n < Len(klog)
          /\ Table'[p] = [Table[p] EXCEPT ![klog[n + 1].key] = klog[n + 1]]
      BY <1>1, <1>8, <2>2, Zenon DEF Applies, Position, Table
    <3>2. Table[p] \in [Keys -> Requests \cup {NoVal}]
      BY PositionType
    <3>3. Table'[p][k] = IF klog[n + 1].key = k THEN klog[n + 1] ELSE Table[p][k]
      BY <3>1, <3>2, Zenon
    <3>4. LastWrite(k, n + 1) =
            IF klog[n + 1].key = k THEN klog[n + 1] ELSE LastWrite(k, n)
      BY LastWriteNext
    <3>5. n + 1 \in Nat
      OBVIOUS
    <3>6. LastWrite(k, Position[p])' = LastWrite(k, n + 1)
      BY <1>3, <1>4, <3>1, <3>5, Zenon
    <3> QED
      BY <1>2, <3>3, <3>4, <3>6
  <2> QED
    BY <2>1, <2>2
<1>9. ASSUME NEW q \in Followers, StartsAgain(q)
      PROVE  Table'[p][k] = LastWrite(k, Position[p])'
  <2>1. CASE q # p
    <3>1. Position'[p] = n /\ Table'[p] = Table[p] /\ klog' = klog
      BY <1>1, <1>9, <2>1, Zenon DEF StartsAgain, Position, Table
    <3> QED
      BY <1>5, <3>1
  <2>2. CASE q = p
    <3>1. klog' = klog /\ Position'[p] = 0 /\ Table'[p] = Empty
      BY <1>9, <2>2, Zenon DEF StartsAgain, Position, Table
    <3>2. LastWrite(k, Position[p])' = LastWrite(k, 0)
      <4>1. 0 \in Nat
        OBVIOUS
      <4> QED
        BY <1>3, <1>4, <3>1, <4>1, Zenon
    <3> QED
      BY <3>1, <3>2, LastWriteZero DEF Empty
  <2> QED
    BY <2>1, <2>2
<1> QED
  BY <1>6, <1>7, <1>8, <1>9, NextView, Zenon

\* The table of a slave is at any moment the result of the first entries of
\* the log, each carried out once and in order, whatever the proxies, the
\* clients and the broker do in between and whichever nodes crash.
THEOREM SlavesFollowLogHolds == Spec => []SlavesFollowLog
<1>1. Init => Follows
  <2> SUFFICES ASSUME Init, NEW p \in Followers, NEW k \in Keys
               PROVE  Table[p][k] = LastWrite(k, Position[p])
    BY DEF Follows
  <2>1. Position[p] = 0 /\ Table[p] = Empty
    BY InitView DEF Replication!Init, Replication!Empty, Position, Table, Empty
  <2> QED
    BY <2>1, LastWriteZero DEF Empty
<1>2. Follows => SlavesFollowLog
  BY DEF Follows, SlavesFollowLog, Position, Table
<1> QED
  BY <1>1, <1>2, NextFollows, HeldAlways, PTL DEF Spec

-----------------------------------------------------------------------------
(* Keys with one writer: the tables converge.                              *)

\* r writes k; the last write of k in queue q is v; q has no write of k.
Sets(r, k) == r.op = "set" /\ r.key = k
LastSet(q, k, v) ==
  \E i \in DOMAIN q : /\ Sets(q[i], k) /\ q[i] = v
                      /\ \A j \in DOMAIN q : Sets(q[j], k) => j <= i
NoSet(q, k) == \A i \in DOMAIN q : ~Sets(q[i], k)

LEMMA AppendSet ==
  ASSUME NEW S, NEW q \in Seq(S), NEW r \in S, NEW k
  PROVE  /\ Sets(r, k) => LastSet(Append(q, r), k, r)
         /\ ~Sets(r, k) =>
              /\ \A v : LastSet(q, k, v) => LastSet(Append(q, r), k, v)
              /\ NoSet(q, k) => NoSet(Append(q, r), k)
<1> DEFINE a == Append(q, r)
<1>1. /\ Len(q) + 1 \in DOMAIN a /\ a[Len(q) + 1] = r
      /\ \A i \in DOMAIN a : i \in Int /\ i <= Len(q) + 1
      /\ \A i \in DOMAIN q : i \in DOMAIN a /\ a[i] = q[i]
      /\ \A i \in DOMAIN a : i \in DOMAIN q \/ a[i] = r
  <2>1. /\ a \in Seq(S) /\ Len(a) = Len(q) + 1 /\ a[Len(q) + 1] = r
        /\ Len(q) \in Nat /\ DOMAIN q = 1..Len(q) /\ DOMAIN a = 1..Len(a)
    OBVIOUS
  <2>2. \A i \in DOMAIN q : i \in DOMAIN a
    BY <2>1
  <2>3. ASSUME NEW i \in DOMAIN q PROVE a[i] = q[i]
    BY <2>3
  <2>4. ASSUME NEW i \in DOMAIN a PROVE i \in DOMAIN q \/ i = Len(q) + 1
    BY <2>1, <2>4
  <2>5. \A i \in DOMAIN a : i \in Int /\ i <= Len(q) + 1
    BY <2>1
  <2>6. Len(q) + 1 \in DOMAIN a
    BY <2>1
  <2> QED
    BY <2>1, <2>2, <2>3, <2>4, <2>5, <2>6, Zenon
<1> HIDE DEF a
<1>2. Sets(r, k) => LastSet(a, k, r)
  BY <1>1, Zenon DEF LastSet
<1>3. ASSUME ~Sets(r, k), NEW v, LastSet(q, k, v) PROVE LastSet(a, k, v)
  <2>1. PICK i \in DOMAIN q : /\ Sets(q[i], k) /\ q[i] = v
                              /\ \A j \in DOMAIN q : Sets(q[j], k) => j <= i
    BY <1>3, Zenon DEF LastSet
  <2>2. \A j \in DOMAIN a : Sets(a[j], k) => j \in DOMAIN q /\ Sets(q[j], k)
    BY <1>1, <1>3, Zenon
  <2>3. i \in DOMAIN a /\ a[i] = q[i] /\ \A j \in DOMAIN a : Sets(a[j], k) => j <= i
    BY <1>1, <2>1, <2>2, Zenon
  <2> QED
    BY <2>1, <2>3, Zenon DEF LastSet
<1>4. ~Sets(r, k) /\ NoSet(q, k) => NoSet(a, k)
  BY <1>1, Zenon DEF NoSet
<1> QED
  BY <1>2, <1>3, <1>4, Zenon DEF a

LEMMA TailSet ==
  ASSUME NEW S, NEW q \in Seq(S), q # <<>>, NEW k
  PROVE  /\ \A v : LastSet(q, k, v) =>
              \/ LastSet(Tail(q), k, v)
              \/ NoSet(Tail(q), k) /\ Sets(Head(q), k) /\ Head(q) = v
         /\ NoSet(q, k) => NoSet(Tail(q), k) /\ ~Sets(Head(q), k)
<1> DEFINE b == Tail(q)
<1>1. /\ 1 \in DOMAIN q /\ Head(q) = q[1]
      /\ \A i \in DOMAIN b : i + 1 \in DOMAIN q /\ b[i] = q[i + 1] /\ i \in Int /\ i >= 1
      /\ \A i \in DOMAIN q : i \in Int /\ (i = 1 \/ (i - 1 \in DOMAIN b /\ b[i - 1] = q[i]))
  OBVIOUS
<1> HIDE DEF b
<1>2. ASSUME NEW v, LastSet(q, k, v)
      PROVE  \/ LastSet(b, k, v)
             \/ NoSet(b, k) /\ Sets(Head(q), k) /\ Head(q) = v
  <2>1. PICK i \in DOMAIN q : /\ Sets(q[i], k) /\ q[i] = v
                              /\ \A j \in DOMAIN q : Sets(q[j], k) => j <= i
    BY <1>2, Zenon DEF LastSet
  <2>2. CASE i = 1
    <3>1. ASSUME NEW j \in DOMAIN b, Sets(b[j], k) PROVE FALSE
      <4>1. j + 1 <= 1
        BY <1>1, <2>1, <2>2, <3>1
      <4> QED
        BY <1>1, <3>1, <4>1
    <3> QED
      BY <1>1, <2>1, <2>2, <3>1, Zenon DEF NoSet
  <2>3. CASE i # 1
    <3>1. i - 1 \in DOMAIN b /\ b[i - 1] = q[i]
      BY <1>1, <2>3
    <3>2. ASSUME NEW j \in DOMAIN b, Sets(b[j], k) PROVE j <= i - 1
      <4>1. j + 1 <= i
        BY <1>1, <2>1, <3>2
      <4> QED
        BY <1>1, <3>2, <4>1
    <3> QED
      BY <2>1, <3>1, <3>2, Zenon DEF LastSet
  <2> QED
    BY <2>2, <2>3
<1>3. NoSet(q, k) => NoSet(b, k) /\ ~Sets(Head(q), k)
  BY <1>1, Zenon DEF NoSet
<1> QED
  BY <1>2, <1>3, Zenon DEF b

LEMMA OneLast ==
  ASSUME NEW S, NEW q \in Seq(S), NEW k, NEW v, NEW u, LastSet(q, k, v), LastSet(q, k, u)
  PROVE  v = u
<1>1. PICK i \in DOMAIN q : /\ Sets(q[i], k) /\ q[i] = v
                            /\ \A j \in DOMAIN q : Sets(q[j], k) => j <= i
  BY Zenon DEF LastSet
<1>2. PICK m \in DOMAIN q : /\ Sets(q[m], k) /\ q[m] = u
                            /\ \A j \in DOMAIN q : Sets(q[j], k) => j <= m
  BY Zenon DEF LastSet
<1>3. i <= m /\ m <= i
  BY <1>1, <1>2, Zenon
<1>4. i = m
  BY <1>3
<1> QED
  BY <1>1, <1>2, <1>4

\* The configuration the convergence is about: every proxy knows that it is to
\* be eventually consistent, and in topology ms the master does not crash.
Configured ==
  /\ \A p \in Nodes : Model[p] = "eventual"
  /\ Topology = "aa" \/ Master \notin CanCrash

\* The proxies that replay the log; their threads run as long as they do, and
\* the master of topology ms has none.
Replays(p) == Topology = "aa" \/ p # Master
ThreadsRun ==
  /\ \A p \in Nodes : model[p] = "eventual"
  /\ \A p \in up : Replays(p) => at[<<p, "consume">>] # "off"
  /\ Topology = "ms" =>
       Master \in up /\ \A t \in Threads : t[1] = Master => at[t] = "off"

LEMMA InitRun == Configured /\ Init => ThreadsRun
<1> SUFFICES ASSUME Configured, Init PROVE ThreadsRun
  OBVIOUS
<1>1. \A p \in Nodes : model[p] = "eventual"
  BY DEF Init, Configured, ParsedAs
<1>2. /\ up = Nodes /\ Master \in Nodes
      /\ at = [t \in Threads |->
                 IF t[2] = "consume" /\ Consumes(t[1], model[t[1]])
                 THEN "start" ELSE "off"]
  BY LogAssumption, Zenon DEF Init
<1>3. ASSUME NEW p \in up, Replays(p) PROVE at[<<p, "consume">>] # "off"
  <2>1. <<p, "consume">> \in Threads /\ p \in Nodes /\ Consumes(p, model[p])
    BY <1>1, <1>2, <1>3 DEF Threads, Replays, Consumes
  <2> QED
    BY <1>2, <2>1
<1>4. ASSUME Topology = "ms", NEW t \in Threads, t[1] = Master PROVE at[t] = "off"
  <2>1. ~Consumes(t[1], model[t[1]])
    BY <1>4 DEF Consumes
  <2> QED
    BY <1>2, <2>1
<1> QED
  BY <1>1, <1>2, <1>3, <1>4, Zenon DEF ThreadsRun

\* A step of a running thread.
LEMMA ThreadRuns ==
  ASSUME Held, ThreadsRun, NEW t \in Threads, at[t] # "off", NEW x,
         x # "off" \/ t[2] = "recover", at' = [at EXCEPT ![t] = x], UNCHANGED <<up, model>>
  PROVE  ThreadsRun'
<1>1. at \in [Threads -> {"off", "start", "queued", "sent", "answered"}] /\ up \subseteq Nodes
  BY Zenon DEF Held, TypeOK
<1>2. ASSUME NEW p \in up, Replays(p) PROVE at'[<<p, "consume">>] # "off"
  <2>1. <<p, "consume">> \in Threads /\ at[<<p, "consume">>] # "off"
    BY <1>1, <1>2 DEF Threads, ThreadsRun
  <2> QED
    BY <1>1, <2>1
<1>3. ASSUME Topology = "ms", NEW u \in Threads, u[1] = Master PROVE at'[u] = "off"
  <2>1. at[u] = "off" /\ u # t
    BY <1>3 DEF ThreadsRun
  <2> QED
    BY <1>1, <2>1
<1> QED
  BY <1>2, <1>3, Zenon DEF ThreadsRun

LEMMA NextRun ==
  ASSUME Configured, Held, ThreadsRun, [Next]_vars
  PROVE  ThreadsRun'
<1>1. /\ at \in [Threads -> {"off", "start", "queued", "sent", "answered"}]
      /\ up \subseteq Nodes
  BY Zenon DEF Held, TypeOK
<1>2. ASSUME UNCHANGED <<up, model, at>> PROVE ThreadsRun'
  BY <1>2, Zenon DEF ThreadsRun
<1>3. ASSUME NEW t \in Threads,
             Consume(t) \/ ConsumeNothing(t) \/ ReplaySend(t) \/ ReplayHandle(t)
      PROVE  ThreadsRun'
  <2>1. PICK x \in {"queued", "off", "sent", "answered"} :
          /\ at[t] # "off" /\ at' = [at EXCEPT ![t] = x]
          /\ x = "off" => t[2] = "recover"
    BY <1>3, Zenon DEF Consume, ConsumeNothing, ReplaySend, ReplayHandle
  <2>2. UNCHANGED <<up, model>>
    BY <1>3, Zenon DEF Consume, ConsumeNothing, ReplaySend, ReplayHandle, nodeVars
  <2> QED
    BY <2>1, <2>2, ThreadRuns, Zenon
<1>4. ASSUME NEW p \in Nodes, Crash(p) PROVE ThreadsRun'
  <2>1. /\ p \in CanCrash /\ up' = up \ {p} /\ UNCHANGED model
        /\ at' = [t \in Threads |-> IF t[1] = p THEN "off" ELSE at[t]]
    BY <1>4, Zenon DEF Crash
  <2>2. ASSUME NEW q \in up', Replays(q) PROVE at'[<<q, "consume">>] # "off"
    <3>1. q \in up /\ q # p /\ <<q, "consume">> \in Threads
      BY <1>1, <2>1, <2>2 DEF Threads
    <3>2. at'[<<q, "consume">>] = at[<<q, "consume">>]
      BY <2>1, <3>1
    <3> QED
      BY <2>2, <3>1, <3>2, Zenon DEF ThreadsRun
  <2>3. ASSUME Topology = "ms" PROVE Master \in up'
    BY <2>1, <2>3 DEF ThreadsRun, Configured
  <2>4. ASSUME Topology = "ms", NEW t \in Threads, t[1] = Master PROVE at'[t] = "off"
    <3>1. at[t] = "off"
      BY <2>4, Zenon DEF ThreadsRun
    <3> QED
      BY <2>1, <3>1
  <2> QED
    BY <2>1, <2>2, <2>3, <2>4, Zenon DEF ThreadsRun
<1>5. ASSUME NEW p \in Nodes, Restart(p) PROVE ThreadsRun'
  <2>1. /\ p \notin up /\ up' = up \cup {p} /\ UNCHANGED model
        /\ at' = [t \in Threads |->
              IF \/ t = <<p, "consume">> /\ Consumes(p, model[p])
                 \/ t = <<p, "recover">> /\ Recovers(p)
              THEN "start" ELSE at[t]]
    BY <1>5, Zenon DEF Restart
  <2>2. ASSUME NEW q \in up', Replays(q) PROVE at'[<<q, "consume">>] # "off"
    <3>1. <<q, "consume">> \in Threads /\ q \in Nodes
      BY <1>1, <2>1, <2>2 DEF Threads
    <3>2. CASE q = p
      <4>1. Consumes(p, model[p])
        BY <2>2, <3>2 DEF ThreadsRun, Replays, Consumes
      <4> QED
        BY <2>1, <3>1, <3>2, <4>1
    <3>3. CASE q # p
      <4>1. q \in up /\ at[<<q, "consume">>] # "off"
        BY <2>1, <2>2, <3>3, Zenon DEF ThreadsRun
      <4> QED
        BY <2>1, <3>1, <3>3, <4>1, Zenon
    <3> QED
      BY <3>2, <3>3
  <2>3. ASSUME Topology = "ms", NEW t \in Threads, t[1] = Master PROVE at'[t] = "off"
    <3>1. at[t] = "off" /\ p # Master
      BY <2>1, <2>3, Zenon DEF ThreadsRun
    <3>2. t # <<p, "consume">> /\ t # <<p, "recover">>
      BY <2>3, <3>1
    <3> QED
      BY <2>1, <3>1, <3>2
  <2>4. Topology = "ms" => Master \in up'
    BY <2>1 DEF ThreadsRun
  <2> QED
    BY <2>1, <2>2, <2>3, <2>4, Zenon DEF ThreadsRun
<1>6. \/ UNCHANGED <<up, model, at>>
      \/ \E t \in Threads :
           Consume(t) \/ ConsumeNothing(t) \/ ReplaySend(t) \/ ReplayHandle(t)
      \/ \E p \in Nodes : Crash(p) \/ Restart(p)
  BY Zenon DEF Next, vars, Issue, ReqRecv, ReqSend, HandleRequest, RspRecv, Move, RspSend,
     Deliver, nodeVars, threadVars
<1> QED
  BY <1>2, <1>3, <1>4, <1>5, <1>6, Zenon

\* Every request in a producer's queue was issued by its client, every entry of
\* the log by some client.
Sent(c, r) == \E i \in DOMAIN issued[c] : issued[c][i] = r
LogCarries ==
  /\ \A c \in Clients : \A i \in DOMAIN outq[c] : Sent(c, outq[c][i])
  /\ \A i \in DOMAIN klog : \E c \in Clients : Sent(c, klog[i])

LEMMA IssuedStays ==
  ASSUME Held, [Next]_vars, NEW d \in Clients, NEW i \in DOMAIN issued[d]
  PROVE  i \in DOMAIN issued'[d] /\ issued'[d][i] = issued[d][i]
<1>1. ASSUME NEW c \in Clients, Issue(c)
      PROVE  i \in DOMAIN issued'[d] /\ issued'[d][i] = issued[d][i]
  <2>1. issued \in [Clients -> Seq(Requests)] /\ issued' \in [Clients -> Seq(Requests)]
    BY <1>1, IssueHeld, Zenon DEF Held, TypeOK
  <2>2. PICK x : issued' = [issued EXCEPT ![c] = Append(issued[c], x)]
    BY <1>1, <2>1, Zenon DEF Issue
  <2>3. CASE d = c
    BY <2>1, <2>2, <2>3
  <2>4. CASE d # c
    BY <2>1, <2>2, <2>4
  <2> QED
    BY <2>3, <2>4
<1>2. ASSUME UNCHANGED issued
      PROVE  i \in DOMAIN issued'[d] /\ issued'[d][i] = issued[d][i]
  BY <1>2
<1>3. UNCHANGED issued \/ \E c \in Clients : Issue(c)
  BY Zenon DEF Next, vars, ReqRecv, ReqSend, HandleRequest, RspRecv, Move, RspSend,
     Deliver, Consume, ConsumeNothing, ReplaySend, ReplayHandle, Crash, Restart, clientVars
<1> QED
  BY <1>1, <1>2, <1>3

LEMMA SentStays ==
  ASSUME Held, [Next]_vars, NEW c \in Clients, NEW r, Sent(c, r)
  PROVE  Sent(c, r)'
<1>1. PICK i \in DOMAIN issued[c] : issued[c][i] = r
  BY DEF Sent
<1>2. i \in DOMAIN issued'[c] /\ issued'[c][i] = issued[c][i]
  BY IssuedStays
<1> QED
  BY <1>1, <1>2 DEF Sent

\* Writers only become more.
LEMMA WritersStay ==
  ASSUME Held, [Next]_vars, NEW k
  PROVE  Writers(k) \subseteq Writers(k)'
<1>1. ASSUME NEW c \in Writers(k) PROVE c \in Writers(k)'
  <2>1. PICK i \in DOMAIN issued[c] : issued[c][i].op = "set" /\ issued[c][i].key = k
    BY <1>1 DEF Writers
  <2>2. c \in Clients
    BY <1>1 DEF Writers
  <2>3. i \in DOMAIN issued'[c] /\ issued'[c][i] = issued[c][i]
    BY <2>1, <2>2, IssuedStays
  <2> QED
    BY <2>1, <2>2, <2>3 DEF Writers
<1> QED
  BY <1>1

LEMMA SentWriter ==
  ASSUME NEW d \in Clients, NEW r, Sent(d, r), NEW k, Sets(r, k)
  PROVE  d \in Writers(k)
  BY DEF Sent, Sets, Writers

LEMMA LastSent ==
  ASSUME Held, NEW c \in Clients, stage[c] # "idle"
  PROVE  Sent(c, Last(c)) /\ Last(c) \in Requests
<1>1. issued[c] \in Seq(Requests) /\ issued[c] # <<>>
  BY Zenon DEF Held, LogDiscipline, TypeOK, ClientsOK
<1>2. Len(issued[c]) \in DOMAIN issued[c] /\ Last(c) \in Requests
  BY <1>1, NonEmpty DEF Last
<1> QED
  BY <1>2, Zenon DEF Sent, Last

\* Only sets are produced.
LEMMA ProduceFacts ==
  ASSUME Held, NEW c \in Clients, ReqRecv(c)
  PROVE  /\ Last(c) \in Requests /\ Sent(c, Last(c)) /\ Last(c)' = Last(c)
         /\ \A d \in Clients \ {c} : outq'[d] = outq[d]
         /\ outq'[c] = IF Last(c).op = "set" THEN Append(outq[c], Last(c)) ELSE outq[c]
<1>1. stage[c] # "idle" /\ UNCHANGED issued /\ outq' = Produce(c, Last(c))
  BY Zenon DEF ReqRecv
<1>2. outq \in [Clients -> Seq(Requests)]
  BY Zenon DEF Held, TypeOK
<1>3. Last(c)' = Last(c)
  BY <1>1, Zenon DEF Last
<1>4. /\ \A d \in Clients \ {c} : outq'[d] = outq[d]
      /\ outq'[c] = IF Last(c).op = "set" THEN Append(outq[c], Last(c)) ELSE outq[c]
  BY <1>1, <1>2 DEF Produce
<1> QED
  BY <1>1, <1>3, <1>4, LastSent, Zenon

\* Every request of a queue after a step was in it, or is one the client issued.
LEMMA CarryStep ==
  ASSUME Held, LogCarries, [Next]_vars
  PROVE  LogCarries'
<1> DEFINE After(c, r) == \E i \in DOMAIN issued'[c] : issued'[c][i] = r
<1>0. /\ outq \in [Clients -> Seq(Requests)] /\ klog \in Seq(Requests)
      /\ \A c \in Clients : outq[c] \in Seq(Requests)
  BY Zenon DEF Held, TypeOK
<1>1. \A c \in Clients : \A r : Sent(c, r) => After(c, r)
  BY SentStays, Zenon DEF Sent
<1> HIDE DEF After
<1>2. ASSUME \A c \in Clients : \A i \in DOMAIN outq'[c] :
               Sent(c, outq'[c][i]),
             \A i \in DOMAIN klog' : \E c \in Clients : Sent(c, klog'[i])
      PROVE  LogCarries'
  <2>1. /\ \A c \in Clients : \A i \in DOMAIN outq'[c] : After(c, outq'[c][i])
        /\ \A i \in DOMAIN klog' : \E c \in Clients : After(c, klog'[i])
    BY <1>1, <1>2, Zenon
  <2> QED
    BY <2>1, Zenon DEF LogCarries, After, Sent
<1>3. /\ \A c \in Clients : \A i \in DOMAIN outq[c] : Sent(c, outq[c][i])
      /\ \A i \in DOMAIN klog : \E c \in Clients : Sent(c, klog[i])
  BY Zenon DEF LogCarries
<1>4. ASSUME UNCHANGED <<outq, klog>> PROVE LogCarries'
  BY <1>2, <1>3, <1>4, Zenon
<1>5. ASSUME NEW c \in Clients, ReqRecv(c) PROVE LogCarries'
  <2>1. UNCHANGED klog
    BY <1>5, Zenon DEF ReqRecv
  <2>2. ASSUME NEW d \in Clients, NEW i \in DOMAIN outq'[d] PROVE Sent(d, outq'[d][i])
    <3>1. CASE outq'[d] = outq[d]
      BY <1>3, <2>2, <3>1, Zenon
    <3>2. CASE d = c /\ outq'[d] = Append(outq[c], Last(c))
      <4>1. PICK q \in Seq(Requests), r \in Requests : q = outq[c] /\ r = Last(c)
        BY <1>0, <1>5, ProduceFacts
      <4>2. ASSUME NEW j \in DOMAIN Append(q, r)
            PROVE  Append(q, r)[j] = r \/ (j \in DOMAIN q /\ Append(q, r)[j] = q[j])
        <5>1. j \in 1..(Len(q) + 1) /\ Len(q) \in Nat
          BY <4>2
        <5>2. CASE j = Len(q) + 1
          BY <5>2, AppendFacts, Zenon
        <5>3. CASE j # Len(q) + 1
          <6>1. j \in 1..Len(q) /\ j \in DOMAIN q
            BY <5>1, <5>3
          <6> QED
            BY <6>1
        <5> QED
          BY <5>2, <5>3
      <4>3. outq'[d][i] = r \/ (i \in DOMAIN q /\ outq'[d][i] = q[i])
        BY <2>2, <3>2, <4>1, <4>2
      <4>4. Sent(c, r)
        BY <1>5, <4>1, ProduceFacts, Zenon
      <4> QED
        BY <1>3, <3>2, <4>1, <4>3, <4>4, Zenon
    <3> QED
      BY <1>5, <3>1, <3>2, ProduceFacts, Zenon
  <2> QED
    BY <1>2, <1>3, <2>1, <2>2, Zenon
<1>6. ASSUME NEW c \in Clients, Deliver(c) PROVE LogCarries'
  <2>1. /\ outq[c] # <<>> /\ klog' = Append(klog, Head(outq[c]))
        /\ outq' = [outq EXCEPT ![c] = Tail(@)]
    BY <1>6, Zenon DEF Deliver
  <2>2. PICK q \in Seq(Requests), r \in Requests : q = outq[c] /\ r = Head(q) /\ r = q[1]
                                                  /\ 1 \in DOMAIN q /\ q # <<>>
    BY <1>0, <2>1, NonEmpty
  <2>3. Sent(c, r)
    BY <1>3, <2>2, Zenon
  <2>4. ASSUME NEW d \in Clients, NEW i \in DOMAIN outq'[d] PROVE Sent(d, outq'[d][i])
    <3>1. CASE d # c
      <4>1. outq'[d] = outq[d]
        BY <1>0, <2>1, <3>1
      <4> QED
        BY <1>3, <2>4, <4>1, Zenon
    <3>2. CASE d = c
      <4>1. outq'[d] = Tail(q)
        BY <1>0, <2>1, <2>2, <3>2
      <4>2. \A j \in DOMAIN Tail(q) : j + 1 \in DOMAIN q /\ Tail(q)[j] = q[j + 1]
        BY <2>2
      <4> QED
        BY <1>3, <2>2, <2>4, <3>2, <4>1, <4>2, Zenon
    <3> QED
      BY <3>1, <3>2
  <2>5. ASSUME NEW i \in DOMAIN klog' PROVE \E d \in Clients : Sent(d, klog'[i])
    <3>1. klog'[i] = r \/ (i \in DOMAIN klog /\ klog'[i] = klog[i])
      BY <1>0, <2>1, <2>2, <2>5
    <3> QED
      BY <1>3, <2>3, <3>1, Zenon
  <2> QED
    BY <1>2, <2>4, <2>5, Zenon
<1>7. ASSUME NEW p \in Nodes, Crash(p) PROVE LogCarries'
  <2>1. /\ UNCHANGED klog
        /\ outq' = [c \in Clients |-> IF Home[c] = p THEN <<>> ELSE outq[c]]
    BY <1>7, Zenon DEF Crash
  <2>2. ASSUME NEW d \in Clients, NEW i \in DOMAIN outq'[d] PROVE Sent(d, outq'[d][i])
    <3>1. outq'[d] = <<>> \/ outq'[d] = outq[d]
      BY <2>1
    <3>2. outq'[d] = outq[d]
      BY <2>2, <3>1
    <3> QED
      BY <1>3, <2>2, <3>2, Zenon
  <2> QED
    BY <1>2, <1>3, <2>1, <2>2, Zenon
<1>8. \/ UNCHANGED <<outq, klog>> \/ \E c \in Clients : ReqRecv(c) \/ Deliver(c)
      \/ \E p \in Nodes : Crash(p)
  BY Zenon DEF Next, vars, Issue, ReqSend, HandleRequest, RspRecv, Move, RspSend,
     Consume, ConsumeNothing, ReplaySend, ReplayHandle, Restart, clientVars
<1> QED
  BY <1>4, <1>5, <1>6, <1>7, <1>8, Zenon

\* How many entries of the log the thread has had carried out; whether one that
\* writes k is still to come.
Done(t) == IF at[t] \in {"queued", "sent"} THEN pos[t] - 1 ELSE pos[t]
Behind(t, k) == \E i \in DOMAIN klog : Done(t) < i /\ Sets(klog[i], k)

\* v is what k has after the whole log; what it has after the log and the queue
\* of c's producer.
EndsAs(k, v) == LastSet(klog, k, v) \/ (NoSet(klog, k) /\ v = NoVal)
OwedLog(c, k, v) == LastSet(outq[c], k, v) \/ (NoSet(outq[c], k) /\ EndsAs(k, v))

\* The table of p has the outcome of the log for k, or a thread of p has yet to
\* give it the last write of k.
CatchesUp(p, k) ==
  \/ EndsAs(k, store[p][k])
  \/ Behind(<<p, "consume">>, k)
  \/ at[<<p, "recover">>] # "off" /\ Behind(<<p, "recover">>, k)

\* A write of k by c is between req_recv and the datalet; what the datalet of
\* the master has or is about to get for k.
OnTheWay(c, k) == stage[c] \in {"queued", "sent"} /\ Sets(Last(c), k)
Value(c, k) == IF OnTheWay(c, k) THEN Last(c) ELSE store[Master][k]

\* The producers of p still hold a write of k.
Unsent(p, k) == \E c \in Writers(k) : Home[c] = p /\ ~NoSet(outq[c], k)

OneWriter(k) == \A c, d \in Writers(k) : c = d

\* A table that replays the log catches up with it, unless its own proxy still
\* has a write of k to hand to Kafka.
Replaying ==
  \A k \in Keys, p \in up : OneWriter(k) /\ Replays(p) =>
    \/ CatchesUp(p, k)
    \/ Unsent(p, k)

\* A write on its way to the datalet is the last the log will have; in topology
\* ms so is what the master has.
Producing ==
  /\ \A k \in Keys, c \in Clients :
       /\ Writers(k) \subseteq {c}
       /\ OnTheWay(c, k) \/ (Topology = "ms" /\ Home[c] = Master)
       => OwedLog(c, k, Value(c, k))
  /\ \A k \in Keys : Topology = "ms" /\ Writers(k) = {} => store[Master][k] = NoVal

-----------------------------------------------------------------------------
LEMMA DoneType ==
  ASSUME Held, NEW t \in Threads
  PROVE  Done(t) \in Int /\ Done(t) <= Len(klog) /\ Len(klog) \in Nat
<1>1. pos[t] \in Nat /\ klog \in Seq(Requests)
  BY Zenon DEF Held, TypeOK
<1>2. pos[t] <= Len(klog)
  BY Zenon DEF Held, LogDiscipline, ThreadsOK
<1> QED
  BY <1>1, <1>2 DEF Done

LEMMA ThreadNames ==
  ASSUME NEW p \in Nodes
  PROVE  /\ <<p, "consume">> \in Threads /\ <<p, "recover">> \in Threads
         /\ \A t \in Threads : t[1] \in Nodes /\ t = <<t[1], t[2]>>
                               /\ (t[2] = "consume" \/ t[2] = "recover")
  BY DEF Threads

\* A step that leaves the log, a table and the progress of its threads alone.
LEMMA CatchStays ==
  ASSUME NEW p, NEW k, CatchesUp(p, k), UNCHANGED klog, store'[p][k] = store[p][k],
         Done(<<p, "consume">>)' = Done(<<p, "consume">>),
         \/ at[<<p, "recover">>] = "off"
         \/ ~Behind(<<p, "recover">>, k)
         \/ /\ at'[<<p, "recover">>] # "off"
            /\ Done(<<p, "recover">>)' = Done(<<p, "recover">>)
  PROVE  CatchesUp(p, k)'
<1>1. CASE EndsAs(k, store[p][k])
  BY <1>1, Zenon DEF CatchesUp, EndsAs, LastSet, NoSet
<1>2. CASE Behind(<<p, "consume">>, k)
  BY <1>2, Zenon DEF CatchesUp, Behind
<1>3. CASE at[<<p, "recover">>] # "off" /\ Behind(<<p, "recover">>, k)
  BY <1>3, Zenon DEF CatchesUp, Behind
<1> QED
  BY <1>1, <1>2, <1>3, Zenon DEF CatchesUp

\* Carrying out a request changes the key it sets, at one node.
LEMMA PerformStore ==
  ASSUME Held, NEW n \in Nodes, NEW r \in Requests, Perform(n, r)
  PROVE  \A m \in Nodes, k \in Keys :
           store'[m][k] = IF m = n /\ Sets(r, k) THEN r ELSE store[m][k]
<1>1. store \in [Nodes -> [Keys -> Requests \cup {NoVal}]]
  BY Zenon DEF Held, TypeOK
<1>2. CASE r.op = "set"
  <2>1. store' = [store EXCEPT ![n][r.key] = r]
    BY <1>2 DEF Perform
  <2> QED
    BY <1>1, <1>2, <2>1 DEF Sets
<1>3. CASE r.op # "set"
  BY <1>3 DEF Perform, Sets
<1> QED
  BY <1>2, <1>3, Zenon

LEMMA OneWriterStays ==
  ASSUME Held, [Next]_vars, NEW k, OneWriter(k)'
  PROVE  OneWriter(k)
  BY WritersStay, Zenon DEF OneWriter

-----------------------------------------------------------------------------
(* Replaying.                                                              *)

\* What is still in a producer's queue.
LEMMA QueuedStays ==
  ASSUME Held, [Next]_vars, NEW k, NEW p,
         Unsent(p, k),
         \A c \in Clients : Home[c] = p /\ ~NoSet(outq[c], k) => ~NoSet(outq'[c], k)
  PROVE  Unsent(p, k)'
<1>1. PICK c \in Writers(k) : Home[c] = p /\ ~NoSet(outq[c], k)
  BY Zenon DEF Unsent
<1>2. c \in Writers(k)' /\ c \in Clients
  BY WritersStay, Zenon DEF Writers
<1>3. ~NoSet(outq[c], k)'
  BY <1>1, <1>2, Zenon DEF NoSet
<1> QED
  BY <1>1, <1>2, <1>3, Zenon DEF Unsent

LEMMA ClientReplaying ==
  ASSUME Held, Replaying, [Next]_vars, NEW c \in Clients,
         Issue(c) \/ ReqRecv(c) \/ ReqSend(c) \/ RspRecv(c) \/ RspSend(c)
  PROVE  Replaying'
<1>1. UNCHANGED <<up, store, klog, at, pos>>
  BY Zenon DEF Issue, ReqRecv, ReqSend, RspRecv, Move, RspSend, nodeVars, threadVars
<1>2. ASSUME NEW d \in Clients, NEW k, ~NoSet(outq[d], k) PROVE ~NoSet(outq'[d], k)
  <2>1. CASE outq'[d] = outq[d]
    BY <1>2, <2>1, Zenon
  <2>2. CASE ReqRecv(c) /\ outq'[d] = Append(outq[d], Last(c))
    <3>1. outq[d] \in Seq(Requests) /\ Last(c) \in Requests
      BY <2>2, ProduceFacts, Zenon DEF Held, TypeOK
    <3>2. \A i \in DOMAIN outq[d] :
            /\ i \in DOMAIN Append(outq[d], Last(c))
            /\ Append(outq[d], Last(c))[i] = outq[d][i]
      <4>1. PICK q \in Seq(Requests), r \in Requests : q = outq[d] /\ r = Last(c)
        BY <3>1, Zenon
      <4>2. ASSUME NEW i \in DOMAIN q
            PROVE  i \in DOMAIN Append(q, r) /\ Append(q, r)[i] = q[i]
        BY <4>2
      <4> QED
        BY <4>1, <4>2, Zenon
    <3> QED
      BY <1>2, <2>2, <3>2, Zenon DEF NoSet
  <2>3. CASE ReqRecv(c)
    BY <2>1, <2>2, <2>3, ProduceFacts, Zenon
  <2>4. CASE ~ReqRecv(c)
    <3>1. UNCHANGED outq
      BY <2>4, Zenon DEF Issue, ReqSend, RspRecv, Move, RspSend
    <3> QED
      BY <2>1, <3>1
  <2> QED
    BY <2>3, <2>4
<1>3. ASSUME NEW k \in Keys, NEW p \in up', OneWriter(k)', Replays(p)
      PROVE  \/ CatchesUp(p, k)'
             \/ Unsent(p, k)'
  <2>1. \/ CatchesUp(p, k)
        \/ Unsent(p, k)
    BY <1>1, <1>3, OneWriterStays, Zenon DEF Replaying
  <2>2. CASE CatchesUp(p, k)
    BY <1>1, <2>2, CatchStays, Zenon DEF Done
  <2>3. CASE Unsent(p, k)
    BY <1>2, <2>3, QueuedStays, Zenon
  <2> QED
    BY <2>1, <2>2, <2>3, Zenon
<1> QED
  BY <1>3, Zenon DEF Replaying

LEMMA HandleReplaying ==
  ASSUME Held, Replaying, Producing, [Next]_vars, NEW c \in Clients, HandleRequest(c)
  PROVE  Replaying'
<1>1. /\ stage[c] = "sent" /\ Perform(Home[c], Last(c))
      /\ UNCHANGED <<up, issued, outq, klog, at, pos>>
  BY Zenon DEF HandleRequest, nodeVars, threadVars
<1>2. PICK r, h : r = Last(c) /\ h = Home[c]
  OBVIOUS
<1>3. r \in Requests /\ Sent(c, r) /\ h \in Nodes
  BY <1>1, <1>2, LastSent, LogAssumption
<1>4. \A m \in Nodes, k \in Keys :
        store'[m][k] = IF m = h /\ Sets(r, k) THEN r ELSE store[m][k]
  BY <1>1, <1>2, <1>3, PerformStore, Zenon
<1>5. ASSUME NEW k \in Keys, NEW p \in up', OneWriter(k)', Replays(p)
      PROVE  \/ CatchesUp(p, k)'
             \/ Unsent(p, k)'
  <2>1. OneWriter(k) /\ p \in up /\ p \in Nodes
    BY <1>1, <1>5, OneWriterStays DEF Held, TypeOK
  <2>2. CASE p = h /\ Sets(r, k)
    <3>1. c \in Writers(k) /\ c \in Writers(k)'
      BY <1>3, <2>2, SentWriter, WritersStay
    <3>2. Writers(k) \subseteq {c}
      BY <2>1, <3>1 DEF OneWriter
    <3>3. OnTheWay(c, k) /\ Value(c, k) = r
      BY <1>1, <1>2, <2>2, Zenon DEF OnTheWay, Value
    <3>4. OwedLog(c, k, r)
      BY <3>2, <3>3, Zenon DEF Producing
    <3>5. CASE LastSet(outq[c], k, r)
      <4>1. ~NoSet(outq[c], k)'
        BY <1>1, <3>5, Zenon DEF LastSet, NoSet
      <4> QED
        BY <1>2, <2>2, <3>1, <4>1, Zenon DEF Unsent
    <3>6. CASE EndsAs(k, r)
      <4>1. store'[p][k] = r /\ klog' = klog
        BY <1>1, <1>4, <2>1, <2>2, Zenon
      <4>2. LastSet(klog', k, store'[p][k]) \/ (NoSet(klog', k) /\ store'[p][k] = NoVal)
        BY <3>6, <4>1, Zenon DEF EndsAs
      <4> QED
        BY <4>2, Zenon DEF CatchesUp, EndsAs, LastSet, NoSet
    <3> QED
      BY <3>4, <3>5, <3>6, Zenon DEF OwedLog
  <2>3. CASE ~(p = h /\ Sets(r, k))
    <3>1. store'[p][k] = store[p][k]
      BY <1>4, <2>1, <2>3, Zenon
    <3>2. \/ CatchesUp(p, k)
          \/ Unsent(p, k)
      BY <1>5, <2>1, Zenon DEF Replaying
    <3>3. CASE CatchesUp(p, k)
      BY <1>1, <3>1, <3>3, CatchStays, Zenon DEF Done
    <3>4. CASE Unsent(p, k)
      BY <1>1, <3>4, QueuedStays, Zenon
    <3> QED
      BY <3>2, <3>3, <3>4, Zenon
  <2> QED
    BY <2>2, <2>3, Zenon
<1> QED
  BY <1>5, Zenon DEF Replaying

\* What Deliver does to the log and to the queues.
LEMMA DeliverSets ==
  ASSUME Held, NEW c \in Clients, Deliver(c), NEW k
  PROVE  /\ Head(outq[c]) \in Requests /\ klog' = Append(klog, Head(outq[c]))
         /\ outq'[c] = Tail(outq[c]) /\ \A d \in Clients \ {c} : outq'[d] = outq[d]
         /\ outq[c] \in Seq(Requests) /\ outq[c] # <<>> /\ klog \in Seq(Requests)
         /\ UNCHANGED <<up, model, store, issued, stage, at, pos>>
<1>1. outq \in [Clients -> Seq(Requests)] /\ klog \in Seq(Requests)
  BY Zenon DEF Held, TypeOK
<1>2. /\ outq[c] # <<>> /\ klog' = Append(klog, Head(outq[c]))
      /\ outq' = [outq EXCEPT ![c] = Tail(@)]
      /\ UNCHANGED <<up, model, store, issued, stage, at, pos>>
  BY Zenon DEF Deliver, nodeVars, threadVars
<1>3. Head(outq[c]) \in Requests
  BY <1>1, <1>2, NonEmpty
<1> QED
  BY <1>1, <1>2, <1>3

LEMMA DeliverReplaying ==
  ASSUME Held, Replaying, [Next]_vars, NEW c \in Clients, Deliver(c)
  PROVE  Replaying'
<1>1. PICK q \in Seq(Requests), e \in Requests :
        /\ q = outq[c] /\ e = Head(q) /\ q # <<>> /\ klog' = Append(klog, e)
        /\ outq'[c] = Tail(q)
  BY DeliverSets, Zenon
<1>2. /\ \A d \in Clients \ {c} : outq'[d] = outq[d]
      /\ klog \in Seq(Requests) /\ UNCHANGED <<up, store, at, pos>>
  BY DeliverSets, Zenon
<1>3. /\ Len(klog) + 1 \in DOMAIN klog' /\ klog'[Len(klog) + 1] = e
      /\ \A i \in DOMAIN klog : i \in DOMAIN klog' /\ klog'[i] = klog[i]
  BY <1>1, <1>2
<1>4. ASSUME NEW k \in Keys, NEW p \in up', OneWriter(k)', Replays(p)
      PROVE  \/ CatchesUp(p, k)'
             \/ Unsent(p, k)'
  <2>1. OneWriter(k) /\ p \in up /\ p \in Nodes
    BY <1>2, <1>4, OneWriterStays, Zenon DEF Held, TypeOK
  <2>2. /\ Done(<<p, "consume">>)' = Done(<<p, "consume">>)
        /\ Done(<<p, "recover">>)' = Done(<<p, "recover">>)
    BY <1>2, Zenon DEF Done
  <2>3. CASE Sets(e, k)
    <3>1. PICK t \in Threads : t = <<p, "consume">>
      BY <2>1, ThreadNames, Zenon
    <3>2. Done(t) < Len(klog) + 1
      BY DoneType
    <3>3. Behind(<<p, "consume">>, k)'
      BY <1>3, <2>2, <2>3, <3>1, <3>2, Zenon DEF Behind
    <3> QED
      BY <3>3, Zenon DEF CatchesUp
  <2>4. CASE ~Sets(e, k)
    <3>1. \/ CatchesUp(p, k)
          \/ Unsent(p, k)
      BY <1>4, <2>1, Zenon DEF Replaying
    <3>2. CASE EndsAs(k, store[p][k])
      <4>1. PICK v : v = store[p][k]
        OBVIOUS
      <4>2. /\ LastSet(klog, k, v) => LastSet(klog', k, v)
            /\ NoSet(klog, k) => NoSet(klog', k)
        BY <1>1, <1>2, <2>4, AppendSet, Zenon
      <4>3. store'[p][k] = v /\ (LastSet(klog', k, v) \/ (NoSet(klog', k) /\ v = NoVal))
        BY <1>2, <3>2, <4>1, <4>2, Zenon DEF EndsAs
      <4> QED
        BY <4>3, Zenon DEF CatchesUp, EndsAs, LastSet, NoSet
    <3>3. ASSUME NEW t, Done(t)' = Done(t), Behind(t, k) PROVE Behind(t, k)'
      BY <1>3, <3>3, Zenon DEF Behind
    <3>4. CASE Behind(<<p, "consume">>, k)
      BY <2>2, <3>3, <3>4, Zenon DEF CatchesUp
    <3>5. CASE at[<<p, "recover">>] # "off" /\ Behind(<<p, "recover">>, k)
      BY <1>2, <2>2, <3>3, <3>5, Zenon DEF CatchesUp
    <3>6. CASE Unsent(p, k)
      <4>1. ASSUME NEW d \in Clients, ~NoSet(outq[d], k) PROVE ~NoSet(outq'[d], k)
        <5>1. CASE d # c
          BY <1>2, <4>1, <5>1, Zenon
        <5>2. CASE d = c
          <6>1. PICK i \in DOMAIN q : Sets(q[i], k)
            BY <1>1, <4>1, <5>2, Zenon DEF NoSet
          <6>2. i # 1
            <7>1. e = q[1]
              BY <1>1, NonEmpty
            <7> QED
              BY <2>4, <6>1, <7>1, Zenon
          <6>3. i - 1 \in DOMAIN Tail(q) /\ Tail(q)[i - 1] = q[i]
            <7>1. q # <<>> /\ i \in 1..Len(q)
              BY <1>1, <6>1
            <7>2. i - 1 \in 1..Len(Tail(q)) /\ Tail(q) \in Seq(Requests)
              BY <6>2, <7>1
            <7> QED
              BY <6>2, <7>1, <7>2
          <6> QED
            BY <1>1, <5>2, <6>1, <6>3, Zenon DEF NoSet
        <5> QED
          BY <5>1, <5>2
      <4> QED
        BY <3>6, <4>1, QueuedStays, Zenon
    <3> QED
      BY <3>1, <3>2, <3>4, <3>5, <3>6, Zenon DEF CatchesUp
  <2> QED
    BY <2>3, <2>4, Zenon
<1> QED
  BY <1>4, Zenon DEF Replaying

\* A thread carries out an entry of the log, or moves on.
LEMMA ThreadReplaying ==
  ASSUME Held, Replaying, [Next]_vars, NEW t \in Threads,
         Consume(t) \/ ConsumeNothing(t) \/ ReplaySend(t) \/ ReplayHandle(t)
  PROVE  Replaying'
<1>0. /\ at \in [Threads -> {"off", "start", "queued", "sent", "answered"}]
      /\ pos \in [Threads -> Nat] /\ klog \in Seq(Requests) /\ up \subseteq Nodes
  BY Zenon DEF Held, TypeOK
<1>1. UNCHANGED <<up, issued, outq, klog>>
  BY Zenon DEF Consume, ConsumeNothing, ReplaySend, ReplayHandle, nodeVars, clientVars
<1>2. \A u \in Threads : u # t => at'[u] = at[u] /\ pos'[u] = pos[u] /\ Done(u)' = Done(u)
  <2>1. ASSUME NEW u \in Threads, u # t PROVE at'[u] = at[u] /\ pos'[u] = pos[u]
    BY <1>0, <2>1, Zenon DEF Consume, ConsumeNothing, ReplaySend, ReplayHandle
  <2> QED
    BY <2>1, Zenon DEF Done
<1> DEFINE Goal(k, p) == \/ CatchesUp(p, k)'
                         \/ Unsent(p, k)'
<1>3. ASSUME NEW k \in Keys, NEW p \in up', OneWriter(k)', Replays(p)
      PROVE  Goal(k, p)
  <2>1. OneWriter(k) /\ p \in up /\ p \in Nodes
    BY <1>0, <1>1, <1>3, OneWriterStays
  <2>2. \/ CatchesUp(p, k)
        \/ Unsent(p, k)
    BY <1>3, <2>1, Zenon DEF Replaying
  <2>3. CASE Unsent(p, k)
    BY <1>1, <2>3, QueuedStays, Zenon
  <2>4. <<p, "consume">> \in Threads /\ <<p, "recover">> \in Threads
    BY <2>1, ThreadNames
  <2>5. ASSUME CatchesUp(p, k), ~ReplayHandle(t) PROVE Goal(k, p)
    <3>1. UNCHANGED store
      BY <2>5, Zenon DEF Consume, ConsumeNothing, ReplaySend
    <3>2. ASSUME Consume(t) \/ ReplaySend(t)
          PROVE  Done(t)' = Done(t) /\ at'[t] # "off"
      <4>1. CASE Consume(t)
        <5>1. at'[t] = "queued" /\ pos'[t] = pos[t] + 1 /\ pos[t] \in Nat
          BY <1>0, <4>1, Zenon DEF Consume
        <5>2. at[t] = "start" \/ at[t] = "answered"
          BY <4>1 DEF Consume
        <5> QED
          BY <5>1, <5>2 DEF Done
      <4>2. CASE ReplaySend(t)
        <5>1. at[t] = "queued" /\ at'[t] = "sent" /\ pos'[t] = pos[t]
          BY <1>0, <4>2, Zenon DEF ReplaySend
        <5> QED
          BY <5>1, Zenon DEF Done
      <4> QED
        BY <3>2, <4>1, <4>2
    <3>3. ASSUME ConsumeNothing(t)
          PROVE  t[2] = "recover" /\ ~Behind(t, k)
      <4>1. t[2] = "recover" /\ Done(t) = Len(klog)
        BY <3>3, Zenon DEF ConsumeNothing, Done
      <4>2. \A i \in DOMAIN klog : ~(Len(klog) < i)
        BY <1>0
      <4> QED
        BY <4>1, <4>2, Zenon DEF Behind
    <3>4. Done(<<p, "consume">>)' = Done(<<p, "consume">>)
      <4>1. ConsumeNothing(t) => t # <<p, "consume">>
        BY <3>3
      <4> QED
        BY <1>2, <2>4, <2>5, <3>2, <4>1, Zenon
    <3>5. \/ ~Behind(<<p, "recover">>, k)
          \/ at[<<p, "recover">>] = "off"
          \/ /\ at'[<<p, "recover">>] # "off"
             /\ Done(<<p, "recover">>)' = Done(<<p, "recover">>)
      <4>1. CASE t = <<p, "recover">>
        BY <2>5, <3>2, <3>3, <4>1, Zenon
      <4>2. CASE t # <<p, "recover">>
        BY <1>2, <2>4, <4>2, Zenon
      <4> QED
        BY <4>1, <4>2, Zenon
    <3>6. CatchesUp(p, k)'
      BY <1>1, <2>5, <3>1, <3>4, <3>5, CatchStays, Zenon
    <3> QED
      BY <3>6
  <2>6. ASSUME CatchesUp(p, k), ReplayHandle(t) PROVE Goal(k, p)
    <3>1. /\ at[t] = "sent" /\ at' = [at EXCEPT ![t] = "answered"] /\ UNCHANGED pos
          /\ Perform(t[1], klog[pos[t]])
      BY <2>6, Zenon DEF ReplayHandle
    <3>2. PICK j \in 1..Len(klog), e \in Requests : j = pos[t] /\ e = klog[j]
      BY <3>1, EntryType DEF Held
    <3>3. j \in DOMAIN klog /\ e \in Requests /\ t[1] \in Nodes /\ t = <<t[1], t[2]>>
      BY <1>0, <3>2 DEF Threads
    <3>4. Done(t) = j - 1 /\ Done(t)' = j /\ at'[t] # "off" /\ at[t] # "off"
      BY <1>0, <3>1, <3>2 DEF Done
    <3>5. store'[p][k] = IF p = t[1] /\ Sets(e, k) THEN e ELSE store[p][k]
      BY <2>1, <3>1, <3>2, <3>3, PerformStore
    <3>6. CASE p # t[1]
      <4>1. t # <<p, "consume">> /\ t # <<p, "recover">> /\ store'[p][k] = store[p][k]
        BY <3>3, <3>5, <3>6
      <4>2. CatchesUp(p, k)'
        BY <1>1, <1>2, <2>4, <2>6, <4>1, CatchStays, Zenon
      <4> QED
        BY <4>2
    <3>7. CASE p = t[1]
      <4>1. t = <<p, "consume">> \/ t = <<p, "recover">>
        BY <3>3, <3>7, ThreadNames, Zenon
      <4>2. ASSUME Behind(t, k)' PROVE Goal(k, p)
        <5>1. CatchesUp(p, k)'
          BY <3>4, <4>1, <4>2, Zenon DEF CatchesUp
        <5> QED
          BY <5>1
      <4>3. CASE Sets(e, k)
        <5>1. CASE \E i \in DOMAIN klog : j < i /\ Sets(klog[i], k)
          BY <1>1, <3>4, <4>2, <5>1, Zenon DEF Behind
        <5>2. CASE ~\E i \in DOMAIN klog : j < i /\ Sets(klog[i], k)
          <6>1. \A i \in DOMAIN klog : Sets(klog[i], k) => i <= j
            <7>1. \A i \in DOMAIN klog : ~(j < i) => i <= j
              BY <1>0
            <7> QED
              BY <5>2, <7>1, Zenon
          <6>2. LastSet(klog, k, e)
            BY <3>2, <3>3, <4>3, <6>1, Zenon DEF LastSet
          <6>3. store'[p][k] = e
            BY <3>5, <3>7, <4>3, Zenon
          <6>4. LastSet(klog', k, store'[p][k])
            BY <1>1, <6>2, <6>3, Zenon
          <6>5. CatchesUp(p, k)'
            BY <6>4, Zenon DEF CatchesUp, EndsAs, LastSet
          <6> QED
            BY <6>5
        <5> QED
          BY <5>1, <5>2, Zenon
      <4>4. CASE ~Sets(e, k)
        <5>1. ASSUME Behind(t, k) PROVE Behind(t, k)'
          <6>1. PICK i \in DOMAIN klog : Done(t) < i /\ Sets(klog[i], k)
            BY <5>1, Zenon DEF Behind
          <6>2. i # j
            BY <3>2, <4>4, <6>1
          <6>3. j < i
            BY <1>0, <3>4, <6>1, <6>2
          <6> QED
            BY <1>1, <3>4, <6>1, <6>3, Zenon DEF Behind
        <5>2. CASE ~Behind(t, k)
          <6>1. store'[p][k] = store[p][k]
            BY <3>5, <4>4, Zenon
          <6>2. CASE t = <<p, "recover">>
            <7>1. Done(<<p, "consume">>)' = Done(<<p, "consume">>)
              BY <1>2, <2>4, <6>2, Zenon
            <7>2. CatchesUp(p, k)'
              BY <1>1, <2>6, <5>2, <6>1, <6>2, <7>1, CatchStays, Zenon
            <7> QED
              BY <7>2
          <6>3. CASE t = <<p, "consume">>
            <7>1. /\ Done(<<p, "recover">>)' = Done(<<p, "recover">>)
                  /\ at'[<<p, "recover">>] = at[<<p, "recover">>]
              BY <1>2, <2>4, <6>3, Zenon
            <7>2. CatchesUp(p, k)'
              <8>1. CASE EndsAs(k, store[p][k])
                BY <1>1, <6>1, <8>1, Zenon DEF CatchesUp, EndsAs, LastSet, NoSet
              <8>2. CASE at[<<p, "recover">>] # "off" /\ Behind(<<p, "recover">>, k)
                BY <1>1, <7>1, <8>2, Zenon DEF CatchesUp, Behind
              <8> QED
                BY <2>6, <5>2, <6>3, <8>1, <8>2, Zenon DEF CatchesUp
            <7> QED
              BY <7>2
          <6> QED
            BY <4>1, <6>2, <6>3, Zenon
        <5> QED
          BY <4>2, <5>1, <5>2, Zenon
      <4> QED
        BY <4>3, <4>4, Zenon
    <3> QED
      BY <3>6, <3>7, Zenon
  <2> QED
    BY <2>2, <2>3, <2>5, <2>6, Zenon
<1> QED
  BY <1>3, Zenon DEF Replaying

LEMMA CrashReplaying ==
  ASSUME Held, Replaying, [Next]_vars, NEW p \in Nodes, Crash(p)
  PROVE  Replaying'
<1>1. /\ up' = up \ {p} /\ UNCHANGED <<store, klog, pos>>
      /\ outq' = [c \in Clients |-> IF Home[c] = p THEN <<>> ELSE outq[c]]
      /\ at' = [t \in Threads |-> IF t[1] = p THEN "off" ELSE at[t]]
      /\ up \subseteq Nodes
  BY Zenon DEF Crash, Held, TypeOK
<1>2. ASSUME NEW k \in Keys, NEW q \in up', OneWriter(k)', Replays(q)
      PROVE  \/ CatchesUp(q, k)'
             \/ Unsent(q, k)'
  <2>1. q \in up /\ q \in Nodes /\ q # p
    BY <1>1, <1>2, Zenon
  <2>2. \/ CatchesUp(q, k)
        \/ Unsent(q, k)
    BY <1>2, <2>1, OneWriterStays, Zenon DEF Replaying
  <2>3. CASE CatchesUp(q, k)
    <3>1. /\ at'[<<q, "consume">>] = at[<<q, "consume">>]
          /\ at'[<<q, "recover">>] = at[<<q, "recover">>]
      <4>1. <<q, "consume">> \in Threads /\ <<q, "recover">> \in Threads
        BY <2>1, ThreadNames
      <4> QED
        BY <1>1, <2>1, <4>1, Zenon
    <3> QED
      BY <1>1, <2>3, <3>1, CatchStays, Zenon DEF Done
  <2>4. CASE Unsent(q, k)
    <3>1. \A d \in Clients : Home[d] = q => outq'[d] = outq[d]
      BY <1>1, <2>1, Zenon
    <3> QED
      BY <2>4, <3>1, QueuedStays, Zenon
  <2> QED
    BY <2>2, <2>3, <2>4, Zenon
<1> QED
  BY <1>2, Zenon DEF Replaying

LEMMA RestartReplaying ==
  ASSUME Held, Replaying, [Next]_vars, NEW p \in Nodes, Restart(p)
  PROVE  Replaying'
<1>1. /\ p \notin up /\ up' = up \cup {p} /\ UNCHANGED <<outq, klog>>
      /\ store' = [store EXCEPT ![p] = Empty]
      /\ pos' = [t \in Threads |-> IF t[1] = p THEN StartOffset(pos, t) ELSE pos[t]]
      /\ at' = [t \in Threads |->
                  IF \/ t = <<p, "consume">> /\ Consumes(p, model[p])
                     \/ t = <<p, "recover">> /\ Recovers(p)
                  THEN "start" ELSE at[t]]
  BY Zenon DEF Restart, clientVars
<1>2. /\ store \in [Nodes -> [Keys -> Requests \cup {NoVal}]] /\ up \subseteq Nodes
      /\ klog \in Seq(Requests)
  BY Zenon DEF Held, TypeOK
<1>3. ASSUME NEW k \in Keys, NEW q \in up', OneWriter(k)', Replays(q)
      PROVE  \/ CatchesUp(q, k)'
             \/ Unsent(q, k)'
  <2>1. CASE q # p
    <3>1. q \in up /\ q \in Nodes
      BY <1>1, <1>2, <1>3, <2>1, Zenon
    <3>2. \/ CatchesUp(q, k)
          \/ Unsent(q, k)
      BY <1>3, <3>1, OneWriterStays, Zenon DEF Replaying
    <3>3. <<q, "consume">> \in Threads /\ <<q, "recover">> \in Threads
      BY <3>1, ThreadNames
    <3>4. ASSUME NEW t \in Threads, t[1] = q PROVE at'[t] = at[t] /\ pos'[t] = pos[t]
      <4>1. t # <<p, "consume">> /\ t # <<p, "recover">>
        BY <2>1, <3>4
      <4>2. at'[t] = at[t]
        BY <1>1, <4>1, Zenon
      <4>3. pos'[t] = pos[t]
        BY <1>1, <2>1, <3>4, Zenon
      <4> QED
        BY <4>2, <4>3
    <3>5. /\ at'[<<q, "consume">>] = at[<<q, "consume">>]
          /\ at'[<<q, "recover">>] = at[<<q, "recover">>]
          /\ pos'[<<q, "consume">>] = pos[<<q, "consume">>]
          /\ pos'[<<q, "recover">>] = pos[<<q, "recover">>]
      BY <3>3, <3>4, Zenon
    <3>6. store'[q][k] = store[q][k]
      BY <1>1, <1>2, <2>1, <3>1, Zenon
    <3>7. CASE CatchesUp(q, k)
      <4>1. /\ Done(<<q, "consume">>)' = Done(<<q, "consume">>)
            /\ Done(<<q, "recover">>)' = Done(<<q, "recover">>)
        BY <3>5, Zenon DEF Done
      <4> QED
        BY <1>1, <3>5, <3>6, <3>7, <4>1, CatchStays, Zenon
    <3>8. CASE Unsent(q, k)
      BY <1>1, <3>8, QueuedStays, Zenon
    <3> QED
      BY <3>2, <3>7, <3>8, Zenon
  <2>2. CASE q = p
    <3>1. PICK t \in Threads : t = <<p, "consume">> /\ t[1] = p
      BY ThreadNames, Zenon
    <3>2. at[t] = "off"
      BY <1>1, <3>1, Zenon DEF Held, LogDiscipline, ThreadsOK
    <3>3. pos'[t] = 0 /\ (at'[t] = "start" \/ at'[t] = "off")
      BY <1>1, <3>1, <3>2, Zenon DEF StartOffset
    <3>4. Done(t)' = 0
      BY <3>3, Zenon DEF Done
    <3>5. store'[p][k] = NoVal
      BY <1>1, <1>2, Zenon DEF Empty
    <3>6. CASE NoSet(klog, k)
      BY <1>1, <2>2, <3>5, <3>6, Zenon DEF CatchesUp, EndsAs, NoSet
    <3>7. CASE ~NoSet(klog, k)
      <4>1. PICK i \in DOMAIN klog : Sets(klog[i], k)
        BY <3>7, Zenon DEF NoSet
      <4>2. 0 < i
        BY <1>2, <4>1
      <4>3. Behind(<<p, "consume">>, k)'
        BY <1>1, <3>1, <3>4, <4>1, <4>2, Zenon DEF Behind
      <4> QED
        BY <2>2, <4>3, Zenon DEF CatchesUp
    <3> QED
      BY <3>6, <3>7, Zenon
  <2> QED
    BY <2>1, <2>2, Zenon
<1> QED
  BY <1>3, Zenon DEF Replaying

LEMMA ReplayingStep ==
  ASSUME Held, Replaying, Producing, [Next]_vars
  PROVE  Replaying'
<1>1. CASE UNCHANGED vars
  <2>1. UNCHANGED <<up, store, outq, klog, at, pos>>
    BY <1>1, Zenon DEF vars
  <2>2. ASSUME NEW k \in Keys, NEW p \in up', OneWriter(k)', Replays(p)
        PROVE  \/ CatchesUp(p, k)'
               \/ Unsent(p, k)'
    <3>1. \/ CatchesUp(p, k)
          \/ Unsent(p, k)
      BY <2>1, <2>2, OneWriterStays, Zenon DEF Replaying
    <3>2. CASE CatchesUp(p, k)
      BY <2>1, <3>2, CatchStays, Zenon DEF Done
    <3>3. CASE Unsent(p, k)
      BY <2>1, <3>3, QueuedStays, Zenon
    <3> QED
      BY <3>1, <3>2, <3>3, Zenon
  <2> QED
    BY <2>2, Zenon DEF Replaying
<1>2. CASE \E c \in Clients :
             \/ Issue(c) \/ ReqRecv(c) \/ ReqSend(c) \/ HandleRequest(c)
             \/ RspRecv(c) \/ RspSend(c) \/ Deliver(c)
  BY <1>2, ClientReplaying, HandleReplaying, DeliverReplaying, Zenon
<1>3. CASE \E t \in Threads :
             Consume(t) \/ ConsumeNothing(t) \/ ReplaySend(t) \/ ReplayHandle(t)
  BY <1>3, ThreadReplaying, Zenon
<1>4. CASE \E p \in Nodes : Crash(p) \/ Restart(p)
  BY <1>4, CrashReplaying, RestartReplaying, Zenon
<1> QED
  BY <1>1, <1>2, <1>3, <1>4, Zenon DEF Next

-----------------------------------------------------------------------------
(* Producing.                                                              *)

\* Only a client's write of k changes what the master of topology ms has for k.
LEMMA MasterStays ==
  ASSUME Held, ThreadsRun, [Next]_vars, Topology = "ms", NEW k \in Keys,
         store'[Master][k] # store[Master][k]
  PROVE  \E c \in Writers(k) : /\ HandleRequest(c) /\ Sets(Last(c), k)
                               /\ Home[c] = Master /\ store'[Master][k] = Last(c)
<1>0. Master \in Nodes /\ store \in [Nodes -> [Keys -> Requests \cup {NoVal}]]
  BY LogAssumption, Zenon DEF Held, TypeOK
<1>1. store' # store
  OBVIOUS
<1>2. ASSUME NEW n \in Nodes, NEW r \in Requests, Perform(n, r)
      PROVE  n = Master /\ Sets(r, k) /\ store'[Master][k] = r
  BY <1>0, <1>2, PerformStore
<1>3. ASSUME NEW t \in Threads, ReplayHandle(t) PROVE FALSE
  <2>1. /\ at[t] = "sent" /\ Perform(t[1], klog[pos[t]]) /\ t[1] \in Nodes
        /\ klog[pos[t]] \in Requests
    BY <1>3, EntryType DEF ReplayHandle, Held, Threads
  <2>2. t[1] = Master
    BY <1>2, <2>1, Zenon
  <2> QED
    BY <2>1, <2>2, Zenon DEF ThreadsRun
<1>4. ASSUME NEW p \in Nodes, Restart(p) PROVE FALSE
  <2>1. p # Master /\ store' = [store EXCEPT ![p] = Empty]
    BY <1>4, Zenon DEF ThreadsRun, Restart
  <2> QED
    BY <1>0, <2>1
<1>5. PICK c \in Clients : HandleRequest(c)
  <2>1. ASSUME NEW c \in Clients,
               \/ Issue(c) \/ ReqRecv(c) \/ ReqSend(c)
               \/ RspRecv(c) \/ RspSend(c) \/ Deliver(c)
        PROVE  UNCHANGED store
    BY <2>1, Zenon DEF Issue, ReqRecv, ReqSend, RspRecv, Move, RspSend, Deliver
  <2>2. ASSUME NEW t \in Threads, Consume(t) \/ ConsumeNothing(t) \/ ReplaySend(t)
        PROVE  UNCHANGED store
    BY <2>2, Zenon DEF Consume, ConsumeNothing, ReplaySend
  <2>3. ASSUME NEW p \in Nodes, Crash(p) PROVE UNCHANGED store
    BY <2>3, Zenon DEF Crash
  <2>4. ~UNCHANGED vars
    BY <1>1 DEF vars
  <2> QED
    BY <1>1, <1>3, <1>4, <2>1, <2>2, <2>3, <2>4, Zenon DEF Next
<1>6. stage[c] = "sent" /\ Perform(Home[c], Last(c)) /\ Home[c] \in Nodes
  BY <1>5, LogAssumption, Zenon DEF HandleRequest
<1>7. Last(c) \in Requests /\ Sent(c, Last(c))
  BY <1>6, LastSent, Zenon
<1>8. Home[c] = Master /\ Sets(Last(c), k) /\ store'[Master][k] = Last(c)
  BY <1>2, <1>6, <1>7, Zenon
<1> QED
  BY <1>5, <1>7, <1>8, SentWriter, Zenon

\* The key k and its one possible writer c.
Wrote(c, k) == OnTheWay(c, k) \/ (Topology = "ms" /\ Home[c] = Master)

\* The queues and the value stay.
LEMMA OwedStays ==
  ASSUME Producing, NEW k \in Keys, NEW c \in Clients, Writers(k) \subseteq {c},
         Wrote(c, k), UNCHANGED klog, outq'[c] = outq[c],
         Value(c, k)' = Value(c, k)
  PROVE  OwedLog(c, k, Value(c, k))'
<1>1. OwedLog(c, k, Value(c, k))
  BY Zenon DEF Producing, Wrote
<1>2. PICK v : v = Value(c, k)
  BY Zenon
<1>3. OwedLog(c, k, v)' /\ Value(c, k)' = v
  BY <1>1, <1>2, Zenon DEF OwedLog, EndsAs, LastSet, NoSet
<1> QED
  BY <1>3, Zenon DEF OwedLog, EndsAs

\* A step that does not concern the client.
LEMMA OwedUntouched ==
  ASSUME Held, Producing, ThreadsRun, [Next]_vars, NEW k \in Keys, NEW c \in Clients,
         Writers(k) \subseteq {c}, Wrote(c, k)', UNCHANGED klog, outq'[c] = outq[c],
         \/ stage'[c] = stage[c] /\ Last(c)' = Last(c)
         \/ ~(OnTheWay(c, k) \/ OnTheWay(c, k)'),
         ~HandleRequest(c)
  PROVE  OwedLog(c, k, Value(c, k))'
<1>1. OnTheWay(c, k)' <=> OnTheWay(c, k)
  BY Zenon DEF OnTheWay
<1>2. Wrote(c, k)
  BY <1>1, Zenon DEF Wrote
<1>3. CASE OnTheWay(c, k)
  <2>1. Value(c, k)' = Value(c, k)
    BY <1>1, <1>3, Zenon DEF Value
  <2> QED
    BY <1>2, <2>1, OwedStays, Zenon
<1>4. CASE ~OnTheWay(c, k)
  <2>1. Topology = "ms"
    BY <1>2, <1>4, Zenon DEF Wrote
  <2>2. store'[Master][k] = store[Master][k]
    BY <2>1, MasterStays, Zenon
  <2>3. Value(c, k)' = Value(c, k)
    BY <1>1, <1>4, <2>2, Zenon DEF Value
  <2> QED
    BY <1>2, <2>3, OwedStays, Zenon
<1> QED
  BY <1>3, <1>4, Zenon

\* The client's own request on its way to the datalet.
LEMMA ClientOwed ==
  ASSUME Held, Producing, ThreadsRun, [Next]_vars, NEW k \in Keys, NEW c \in Clients,
         Writers(k) \subseteq {c}, Wrote(c, k)',
         Issue(c) \/ ReqRecv(c) \/ ReqSend(c) \/ RspRecv(c) \/ RspSend(c)
  PROVE  OwedLog(c, k, Value(c, k))'
<1>0. stage \in [Clients -> Stages] /\ outq[c] \in Seq(Requests)
  BY Zenon DEF Held, TypeOK
<1>1. ASSUME NEW x, NEW y, stage[c] = x, stage' = [stage EXCEPT ![c] = y],
             UNCHANGED <<outq, klog>>, UNCHANGED issued \/ x = "idle",
             <<x, y>> \in {<<"idle", "arrived">>, <<"queued", "sent">>,
                           <<"answered", "reply">>, <<"reply", "idle">>}
      PROVE  OwedLog(c, k, Value(c, k))'
  <2>1. stage'[c] = y
    BY <1>0, <1>1
  <2>2. ~HandleRequest(c)
    BY <1>1, <2>1, Zenon DEF HandleRequest
  <2>3. CASE x = "queued"
    <3>1. Last(c)' = Last(c)
      BY <1>1, <2>3 DEF Last
    <3>2. OnTheWay(c, k)' <=> OnTheWay(c, k)
      BY <1>1, <2>1, <2>3, <3>1, Zenon DEF OnTheWay
    <3>3. UNCHANGED store
      BY <1>1, <2>1, <2>3, Zenon DEF Issue, ReqRecv, ReqSend, RspRecv, Move, RspSend
    <3>4. Value(c, k)' = Value(c, k) /\ Wrote(c, k)
      BY <3>1, <3>2, <3>3, Zenon DEF Value, Wrote
    <3> QED
      BY <1>1, <3>4, OwedStays, Zenon
  <2>4. CASE x # "queued"
    <3>1. ~(OnTheWay(c, k) \/ OnTheWay(c, k)')
      BY <1>1, <2>1, <2>4, Zenon DEF OnTheWay
    <3> QED
      BY <1>1, <2>2, <3>1, OwedUntouched, Zenon
  <2> QED
    BY <2>3, <2>4
<1>2. CASE Issue(c)
  <2>1. /\ stage[c] = "idle" /\ stage' = [stage EXCEPT ![c] = "arrived"]
        /\ UNCHANGED <<outq, klog>>
    BY <1>2, Zenon DEF Issue
  <2> QED
    BY <1>1, <2>1, Zenon
<1>3. CASE ReqSend(c)
  <2>1. /\ stage[c] = "queued" /\ stage' = [stage EXCEPT ![c] = "sent"]
        /\ UNCHANGED <<outq, klog, issued>>
    BY <1>3, Zenon DEF ReqSend, Move
  <2> QED
    BY <1>1, <2>1, Zenon
<1>4. CASE RspRecv(c)
  <2>1. /\ stage[c] = "answered" /\ stage' = [stage EXCEPT ![c] = "reply"]
        /\ UNCHANGED <<outq, klog, issued>>
    BY <1>4, Zenon DEF RspRecv, Move
  <2> QED
    BY <1>1, <2>1, Zenon
<1>5. CASE RspSend(c)
  <2>1. /\ stage[c] = "reply" /\ stage' = [stage EXCEPT ![c] = "idle"]
        /\ UNCHANGED <<outq, klog, issued>>
    BY <1>5, Zenon DEF RspSend
  <2> QED
    BY <1>1, <2>1, Zenon
<1>6. CASE ReqRecv(c)
  <2>1. /\ stage[c] = "arrived" /\ stage'[c] = "queued" /\ UNCHANGED <<klog, store>>
    BY <1>0, <1>6 DEF ReqRecv
  <2>2. PICK r \in Requests, q \in Seq(Requests) :
          /\ r = Last(c) /\ Last(c)' = r /\ q = outq[c]
          /\ outq'[c] = IF r.op = "set" THEN Append(q, r) ELSE q
    BY <1>0, <1>6, ProduceFacts, Zenon
  <2>3. CASE Sets(r, k)
    <3>1. LastSet(outq'[c], k, r)
      BY <2>2, <2>3, AppendSet, Zenon DEF Sets
    <3>2. Value(c, k)' = r
      BY <2>1, <2>2, <2>3, Zenon DEF Value, OnTheWay
    <3> QED
      BY <3>1, <3>2, Zenon DEF OwedLog, LastSet
  <2>4. CASE ~Sets(r, k)
    <3>1. ~OnTheWay(c, k) /\ ~OnTheWay(c, k)' /\ Wrote(c, k)
      BY <2>1, <2>2, <2>4, Zenon DEF OnTheWay, Wrote
    <3>2. PICK v : v = Value(c, k) /\ Value(c, k)' = v
      BY <2>1, <3>1, Zenon DEF Value
    <3>3. LastSet(q, k, v) \/ (NoSet(q, k) /\ EndsAs(k, v))
      BY <2>2, <3>1, <3>2, Zenon DEF Producing, Wrote, OwedLog
    <3>4. /\ LastSet(q, k, v) => LastSet(outq'[c], k, v)
          /\ NoSet(q, k) => NoSet(outq'[c], k)
      BY <2>2, <2>4, AppendSet, Zenon
    <3>5. EndsAs(k, v) => EndsAs(k, v)'
      BY <2>1, Zenon DEF EndsAs, LastSet, NoSet
    <3>6. OwedLog(c, k, v)'
      BY <3>3, <3>4, <3>5, Zenon DEF OwedLog, LastSet, NoSet
    <3> QED
      BY <3>2, <3>6, Zenon DEF OwedLog, EndsAs
  <2> QED
    BY <2>3, <2>4
<1> QED
  BY <1>2, <1>3, <1>4, <1>5, <1>6

LEMMA HandleOwed ==
  ASSUME Held, Producing, ThreadsRun, [Next]_vars, NEW k \in Keys, NEW c \in Clients,
         Writers(k) \subseteq {c}, Wrote(c, k)', HandleRequest(c)
  PROVE  OwedLog(c, k, Value(c, k))'
<1>0. stage \in [Clients -> Stages] /\ Home[c] \in Nodes
  BY LogAssumption, Zenon DEF Held, TypeOK
<1>1. /\ stage[c] = "sent" /\ stage'[c] = "answered" /\ UNCHANGED <<outq, klog, issued>>
      /\ Perform(Home[c], Last(c))
  BY <1>0 DEF HandleRequest
<1>2. ~OnTheWay(c, k)' /\ Topology = "ms" /\ Home[c] = Master /\ Wrote(c, k)
  BY <1>1, Zenon DEF OnTheWay, Wrote
<1>3. PICK r \in Requests : r = Last(c)
  BY <1>1, LastSent, Zenon
<1>4. store'[Master][k] = IF Sets(r, k) THEN r ELSE store[Master][k]
  <2>1. Perform(Home[c], r)
    BY <1>1, <1>3, Zenon
  <2>2. \A m \in Nodes, j \in Keys :
          store'[m][j] = IF m = Home[c] /\ Sets(r, j) THEN r ELSE store[m][j]
    BY <1>0, <2>1, PerformStore, Zenon
  <2> QED
    BY <1>0, <1>2, <2>2, Zenon
<1>5. Value(c, k)' = Value(c, k)
  BY <1>1, <1>2, <1>3, <1>4, Zenon DEF Value, OnTheWay
<1> QED
  BY <1>1, <1>2, <1>5, OwedStays, Zenon

LEMMA DeliverOwed ==
  ASSUME Held, LogCarries, Producing, [Next]_vars, NEW k \in Keys, NEW c \in Clients,
         Writers(k) \subseteq {c}, Wrote(c, k)', NEW d \in Clients, Deliver(d)
  PROVE  OwedLog(c, k, Value(c, k))'
<1>1. PICK q \in Seq(Requests), e \in Requests :
        /\ q = outq[d] /\ e = Head(q) /\ q # <<>> /\ klog' = Append(klog, e)
        /\ outq'[d] = Tail(q)
  BY DeliverSets, Zenon
<1>2. /\ \A x \in Clients \ {d} : outq'[x] = outq[x]
      /\ klog \in Seq(Requests) /\ UNCHANGED <<store, stage, issued>>
  BY DeliverSets, Zenon
<1>3. Sent(d, e)
  BY <1>1, NonEmpty, Zenon DEF LogCarries
<1>4. Last(c)' = Last(c) /\ (OnTheWay(c, k)' <=> OnTheWay(c, k))
  BY <1>2, Zenon DEF Last, OnTheWay
<1>5. PICK v : v = Value(c, k) /\ Value(c, k)' = v
  BY <1>2, <1>4, Zenon DEF Value
<1>6. LastSet(outq[c], k, v) \/ (NoSet(outq[c], k) /\ EndsAs(k, v))
  BY <1>4, <1>5, Zenon DEF Producing, Wrote, OwedLog
<1>7. ASSUME ~Sets(e, k) PROVE EndsAs(k, v) => EndsAs(k, v)'
  <2>1. /\ LastSet(klog, k, v) => LastSet(klog', k, v)
        /\ NoSet(klog, k) => NoSet(klog', k)
    BY <1>1, <1>2, <1>7, AppendSet, Zenon
  <2> QED
    BY <2>1, Zenon DEF EndsAs, LastSet, NoSet
<1>8. CASE d # c
  <2>1. ~Sets(e, k)
    BY <1>3, <1>8, SentWriter
  <2>2. OwedLog(c, k, v)'
    BY <1>2, <1>6, <1>7, <1>8, <2>1, Zenon DEF OwedLog, LastSet, NoSet
  <2> QED
    BY <1>5, <2>2, Zenon DEF OwedLog, EndsAs
<1>9. CASE d = c
  <2>1. CASE LastSet(q, k, v)
    <3>1. \/ LastSet(Tail(q), k, v)
          \/ NoSet(Tail(q), k) /\ Sets(e, k) /\ e = v
      BY <1>1, <2>1, TailSet, Zenon
    <3>2. Sets(e, k) => LastSet(klog', k, e)
      BY <1>1, <1>2, AppendSet, Zenon
    <3>3. \/ LastSet(outq'[c], k, v)
          \/ NoSet(outq'[c], k) /\ LastSet(klog', k, v)
      BY <1>1, <1>9, <3>1, <3>2, Zenon
    <3>4. OwedLog(c, k, v)'
      BY <3>3, Zenon DEF OwedLog, EndsAs, LastSet, NoSet
    <3> QED
      BY <1>5, <3>4, Zenon DEF OwedLog, EndsAs
  <2>2. CASE NoSet(q, k) /\ EndsAs(k, v)
    <3>1. NoSet(Tail(q), k) /\ ~Sets(e, k)
      BY <1>1, <2>2, TailSet, Zenon
    <3>2. OwedLog(c, k, v)'
      BY <1>1, <1>7, <1>9, <2>2, <3>1, Zenon DEF OwedLog, NoSet
    <3> QED
      BY <1>5, <3>2, Zenon DEF OwedLog, EndsAs
  <2> QED
    BY <1>1, <1>6, <1>9, <2>1, <2>2, Zenon
<1> QED
  BY <1>8, <1>9

\* Steps of another client, of a thread, of a node.
LEMMA OtherOwed ==
  ASSUME Held, Producing, ThreadsRun, Configured, [Next]_vars,
         NEW k \in Keys, NEW c \in Clients, Writers(k) \subseteq {c}, Wrote(c, k)',
         \/ \E d \in Clients \ {c} :
              \/ Issue(d) \/ ReqRecv(d) \/ ReqSend(d)
              \/ HandleRequest(d) \/ RspRecv(d) \/ RspSend(d)
         \/ \E t \in Threads :
              Consume(t) \/ ConsumeNothing(t) \/ ReplaySend(t) \/ ReplayHandle(t)
         \/ \E p \in Nodes : Crash(p) \/ Restart(p)
         \/ UNCHANGED vars
  PROVE  OwedLog(c, k, Value(c, k))'
<1>0. /\ stage \in [Clients -> Stages] /\ issued \in [Clients -> Seq(Requests)]
      /\ outq \in [Clients -> Seq(Requests)]
  BY Zenon DEF Held, TypeOK
<1>1. ASSUME UNCHANGED klog, outq'[c] = outq[c], stage'[c] = stage[c],
             issued'[c] = issued[c]
      PROVE  OwedLog(c, k, Value(c, k))'
  <2>1. Last(c)' = Last(c)
    BY <1>1, Zenon DEF Last
  <2>2. ~HandleRequest(c)
    BY <1>0, <1>1, Zenon DEF HandleRequest
  <2> QED
    BY <1>1, <2>1, <2>2, OwedUntouched, Zenon
<1>2. ASSUME NEW d \in Clients \ {c},
             \/ Issue(d) \/ ReqRecv(d) \/ ReqSend(d)
             \/ HandleRequest(d) \/ RspRecv(d) \/ RspSend(d)
      PROVE  OwedLog(c, k, Value(c, k))'
  <2>1. UNCHANGED klog /\ stage'[c] = stage[c]
    BY <1>0, <1>2, Zenon DEF Issue, ReqRecv, ReqSend, HandleRequest, RspRecv, Move, RspSend
  <2>2. issued'[c] = issued[c]
    BY <1>0, <1>2, Zenon
       DEF Issue, ReqRecv, ReqSend, HandleRequest, RspRecv, Move, RspSend
  <2>3. outq'[c] = outq[c]
    BY <1>0, <1>2, ProduceFacts, Zenon
       DEF Issue, ReqSend, HandleRequest, RspRecv, Move, RspSend
  <2> QED
    BY <1>1, <2>1, <2>2, <2>3, Zenon
<1>3. ASSUME NEW t \in Threads,
             Consume(t) \/ ConsumeNothing(t) \/ ReplaySend(t) \/ ReplayHandle(t)
      PROVE  OwedLog(c, k, Value(c, k))'
  <2>1. UNCHANGED <<klog, outq, stage, issued>>
    BY <1>3, Zenon DEF Consume, ConsumeNothing, ReplaySend, ReplayHandle, clientVars
  <2> QED
    BY <1>1, <2>1, Zenon
<1>4. ASSUME NEW p \in Nodes, Restart(p) PROVE OwedLog(c, k, Value(c, k))'
  <2>1. UNCHANGED <<klog, outq, stage, issued>>
    BY <1>4, Zenon DEF Restart, clientVars
  <2> QED
    BY <1>1, <2>1, Zenon
<1>5. ASSUME NEW p \in Nodes, Crash(p) PROVE OwedLog(c, k, Value(c, k))'
  <2>1. /\ p \in CanCrash /\ UNCHANGED <<klog, issued>>
        /\ stage'[c] = IF Home[c] = p THEN "idle" ELSE stage[c]
        /\ outq'[c] = IF Home[c] = p THEN <<>> ELSE outq[c]
    BY <1>5, Zenon DEF Crash
  <2>2. CASE Home[c] = p
    <3>1. Topology = "ms" /\ Home[c] = Master
      BY <2>1, <2>2, Zenon DEF Wrote, OnTheWay
    <3> QED
      BY <2>1, <2>2, <3>1, Zenon DEF Configured
  <2>3. CASE Home[c] # p
    BY <1>1, <2>1, <2>3, Zenon
  <2> QED
    BY <2>2, <2>3
<1>6. CASE UNCHANGED vars
  BY <1>1, <1>6, Zenon DEF vars
<1> QED
  BY <1>2, <1>3, <1>4, <1>5, <1>6, Zenon

LEMMA ProducingStep ==
  ASSUME Held, LogCarries, Producing, ThreadsRun, Configured, [Next]_vars
  PROVE  Producing'
<1>1. ASSUME NEW k \in Keys, NEW c \in Clients, Writers(k)' \subseteq {c}, Wrote(c, k)'
      PROVE  OwedLog(c, k, Value(c, k))'
  <2>1. Writers(k) \subseteq {c}
    BY <1>1, WritersStay
  <2>2. CASE UNCHANGED vars
    BY <1>1, <2>1, <2>2, OtherOwed, Zenon
  <2>3. ASSUME NEW d \in Clients,
               \/ Issue(d) \/ ReqRecv(d) \/ ReqSend(d) \/ HandleRequest(d)
               \/ RspRecv(d) \/ RspSend(d) \/ Deliver(d)
        PROVE  OwedLog(c, k, Value(c, k))'
    <3>1. CASE Deliver(d)
      BY <1>1, <2>1, <3>1, DeliverOwed, Zenon
    <3>2. CASE d = c /\ ~Deliver(d)
      BY <1>1, <2>1, <2>3, <3>2, ClientOwed, HandleOwed, Zenon
    <3>3. CASE d # c /\ ~Deliver(d)
      <4>1. d \in Clients \ {c}
        BY <3>3
      <4> QED
        BY <1>1, <2>1, <2>3, <3>3, <4>1, OtherOwed, Zenon
    <3> QED
      BY <3>1, <3>2, <3>3
  <2>4. CASE \E t \in Threads :
               Consume(t) \/ ConsumeNothing(t) \/ ReplaySend(t) \/ ReplayHandle(t)
    BY <1>1, <2>1, <2>4, OtherOwed, Zenon
  <2>5. CASE \E p \in Nodes : Crash(p) \/ Restart(p)
    BY <1>1, <2>1, <2>5, OtherOwed, Zenon
  <2> QED
    BY <2>2, <2>3, <2>4, <2>5, Zenon DEF Next
<1>2. ASSUME NEW k \in Keys, Topology = "ms", Writers(k)' = {}
      PROVE  store'[Master][k] = NoVal
  <2>1. Writers(k) = {}
    BY <1>2, WritersStay
  <2>2. store[Master][k] = NoVal
    BY <1>2, <2>1, Zenon DEF Producing
  <2>3. store'[Master][k] = store[Master][k]
    BY <1>2, <2>1, MasterStays, Zenon
  <2> QED
    BY <2>2, <2>3
<1> QED
  BY <1>1, <1>2, Zenon DEF Producing, Wrote

\* Everything the convergence rests on.
ConvergeInv == Held /\ ThreadsRun /\ LogCarries /\ Replaying /\ Producing

LEMMA InitConverge ==
  ASSUME Configured, Init
  PROVE  ConvergeInv
<1>1. Held /\ ThreadsRun
  BY InitHeld, InitRun, Zenon
<1>2. /\ klog = <<>> /\ outq = [c \in Clients |-> <<>>]
      /\ store = [p \in Nodes |-> Empty] /\ stage = [c \in Clients |-> "idle"]
      /\ up = Nodes /\ Master \in Nodes
  BY LogAssumption, Zenon DEF Init
<1>3. LogCarries
  BY <1>2 DEF LogCarries
<1>4. \A p \in Nodes, k \in Keys : store[p][k] = NoVal
  BY <1>2 DEF Empty
<1>5. \A k : NoSet(klog, k) /\ \A c \in Clients : NoSet(outq[c], k)
  BY <1>2 DEF NoSet
<1>6. \A k \in Keys, p \in Nodes : EndsAs(k, store[p][k])
  BY <1>4, <1>5, Zenon DEF EndsAs
<1>7. Replaying
  BY <1>2, <1>6, Zenon DEF Replaying, CatchesUp
<1>8. \A c \in Clients, k \in Keys : Value(c, k) = store[Master][k] /\ ~OnTheWay(c, k)
  BY <1>2 DEF Value, OnTheWay
<1>9. Producing
  BY <1>2, <1>4, <1>5, <1>6, <1>8, Zenon DEF Producing, OwedLog
<1> QED
  BY <1>1, <1>3, <1>7, <1>9 DEF ConvergeInv

LEMMA ConvergeStep ==
  ASSUME Configured, ConvergeInv, [Next]_vars
  PROVE  ConvergeInv'
<1>1. Held /\ ThreadsRun /\ LogCarries /\ Replaying /\ Producing
  BY DEF ConvergeInv
<1>2. Held' /\ ThreadsRun' /\ LogCarries' /\ Replaying' /\ Producing'
  BY <1>1, NextHeld, NextRun, CarryStep, ReplayingStep, ProducingStep, Zenon
<1> QED
  BY <1>2 DEF ConvergeInv

\* The log has one outcome for a key.
LEMMA OneOutcome ==
  ASSUME Held, NEW k, NEW v, NEW u, EndsAs(k, v), EndsAs(k, u)
  PROVE  v = u
<1>1. klog \in Seq(Requests)
  BY Zenon DEF Held, TypeOK
<1>2. LastSet(klog, k, v) \/ LastSet(klog, k, u) => ~NoSet(klog, k)
  BY Zenon DEF LastSet, NoSet
<1>3. LastSet(klog, k, v) /\ LastSet(klog, k, u) => v = u
  BY <1>1, OneLast
<1> QED
  BY <1>2, <1>3 DEF EndsAs

\* When nothing is on its way every table has the outcome of the log.
LEMMA RestHasOutcome ==
  ASSUME ConvergeInv, Quiescent, NEW k \in Keys, OneWriter(k), NEW p \in Nodes
  PROVE  EndsAs(k, store[p][k])
<1>1. Held /\ ThreadsRun /\ LogCarries /\ Replaying /\ Producing
  BY DEF ConvergeInv
<1>2. up = Nodes /\ \A c \in Clients : stage[c] = "idle" /\ outq[c] = <<>>
  BY Zenon DEF Quiescent
<1>3. \A c \in Clients : NoSet(outq[c], k) /\ \A v : ~LastSet(outq[c], k, v)
  <2>1. ASSUME NEW c \in Clients PROVE DOMAIN outq[c] = {}
    BY <1>2
  <2> QED
    BY <2>1, Zenon DEF NoSet, LastSet
<1>4. CASE Replays(p)
  <2>1. PICK t \in Threads, u \in Threads :
          t = <<p, "consume">> /\ t[2] = "consume" /\ u = <<p, "recover">> /\ u[2] = "recover"
    BY ThreadNames, Zenon
  <2>2. at[t] # "off"
    BY <1>1, <1>2, <1>4, <2>1, Zenon DEF ThreadsRun
  <2>3. at[t] \in {"start", "answered"} /\ pos[t] = Len(klog)
    BY <2>2, Zenon DEF Quiescent
  <2>4. at[u] = "off"
    BY <2>1 DEF Quiescent
  <2>5. Done(t) = Len(klog)
    BY <2>3, Zenon DEF Done
  <2>6. \A i \in DOMAIN klog : ~(Len(klog) < i)
    <3>1. klog \in Seq(Requests)
      BY <1>1, Zenon DEF Held, TypeOK
    <3> QED
      BY <3>1
  <2>7. ~Behind(t, k)
    BY <2>5, <2>6, Zenon DEF Behind
  <2>8. ~Unsent(p, k)
    BY <1>3, Zenon DEF Unsent, Writers
  <2>9. CatchesUp(p, k)
    BY <1>1, <1>2, <1>4, <2>8, Zenon DEF Replaying
  <2> QED
    BY <2>1, <2>4, <2>7, <2>9, Zenon DEF CatchesUp
<1>5. CASE ~Replays(p)
  <2>1. Topology = "ms" /\ p = Master
    BY <1>5, LogAssumption DEF Replays
  <2>2. CASE Writers(k) = {}
    <3>1. store[p][k] = NoVal
      BY <1>1, <2>1, <2>2, Zenon DEF Producing
    <3>2. NoSet(klog, k)
      BY <1>1, <2>2, SentWriter, Zenon DEF LogCarries, NoSet
    <3> QED
      BY <3>1, <3>2, Zenon DEF EndsAs
  <2>3. CASE Writers(k) # {}
    <3>1. PICK w : w \in Writers(k)
      BY <2>3
    <3>2. w \in Clients /\ Writers(k) \subseteq {w}
      BY <3>1, Zenon DEF Writers, OneWriter
    <3>3. PICK i \in DOMAIN issued[w] : issued[w][i].op = "set"
      BY <3>1, Zenon DEF Writers
    <3>4. Home[w] \notin Followers
      BY <1>1, <3>2, <3>3, Zenon DEF Held, LogDiscipline, ClientsOK
    <3>5. Home[w] = Master
      BY <2>1, <3>2, <3>4, LogAssumption DEF Followers
    <3>6. OwedLog(w, k, Value(w, k))
      BY <1>1, <2>1, <3>2, <3>5, Zenon DEF Producing
    <3>7. Value(w, k) = store[p][k]
      BY <1>2, <2>1, <3>2, Zenon DEF Value, OnTheWay
    <3> QED
      BY <1>3, <3>2, <3>6, <3>7, Zenon DEF OwedLog
  <2> QED
    BY <2>2, <2>3
<1> QED
  BY <1>4, <1>5

\* The tables agree on every key that only one client has written once nothing
\* is on its way any more, in a deployment whose proxies all know that they are
\* eventually consistent and, in topology ms, whose master does not crash: the
\* order in which a datalet gets its client's own requests (req_recv) and the
\* entries of the log (consume_kafka, recover_kafka) makes no difference.
THEOREM SingleWriterConvergesHolds ==
  ASSUME Configured
  PROVE  Spec => []SingleWriterConverges
<1>1. Init => ConvergeInv
  BY InitConverge
<1>2. ConvergeInv /\ [Next]_vars => ConvergeInv'
  BY ConvergeStep
<1>3. ConvergeInv => SingleWriterConverges
  <2> SUFFICES ASSUME ConvergeInv, Quiescent, NEW k \in Keys,
                      \A c, d \in Writers(k) : c = d,
                      NEW p \in Nodes, NEW q \in Nodes
               PROVE  store[p][k] = store[q][k]
    BY DEF SingleWriterConverges, Agree
  <2>1. OneWriter(k) /\ Held
    BY DEF OneWriter, ConvergeInv
  <2>2. EndsAs(k, store[p][k]) /\ EndsAs(k, store[q][k])
    BY <2>1, RestHasOutcome
  <2> QED
    BY <2>1, <2>2, OneOutcome, Zenon
<1> QED
  BY <1>1, <1>2, <1>3, PTL DEF Spec
=============================================================================
