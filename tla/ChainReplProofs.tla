-------------------------- MODULE ChainReplProofs ---------------------------
(***************************************************************************)
(* What ChainRepl guarantees whatever the clients pipeline (the CHECKs, the*)
(* Kafka log, the write events), and what it guarantees to closed-loop     *)
(* clients: it implements AtomicKV, and replicas agree on the keys that one*)
(* connection alone writes.                                                *)
(***************************************************************************)
EXTENDS ChainReplSteps

-----------------------------------------------------------------------------
(* Any window: what the queues hold, whatever the clients pipeline.        *)

LEMMA HeadTail ==
  ASSUME NEW S, NEW s \in Seq(S), s # <<>>
  PROVE  /\ Head(s) \in Range(s) /\ Range(Tail(s)) \subseteq Range(s)
         /\ Len(Tail(s)) = Len(s) - 1 /\ Len(s) \in Nat \ {0}
<1>1. /\ Len(s) \in Nat \ {0} /\ Len(Tail(s)) = Len(s) - 1 /\ Head(s) = s[1]
      /\ \A i \in 1..Len(Tail(s)) : Tail(s)[i] = s[i + 1]
      /\ DOMAIN Tail(s) = 1..Len(Tail(s)) /\ DOMAIN s = 1..Len(s)
  OBVIOUS
<1>2. ASSUME NEW y \in Range(Tail(s)) PROVE y \in Range(s)
  <2>1. PICK i \in 1..Len(Tail(s)) : y = Tail(s)[i]
    BY <1>1, <1>2, Zenon DEF Range
  <2>2. i + 1 \in DOMAIN s /\ y = s[i + 1]
    BY <1>1, <2>1
  <2> QED
    BY <2>2, Zenon DEF Range
<1>3. 1 \in DOMAIN s
  BY <1>1
<1> QED
  BY <1>1, <1>2, <1>3 DEF Range

LEMMA RestLength ==
  ASSUME NEW S, NEW s \in Seq(S), NEW k \in 1..Len(s)
  PROVE  /\ Len(SubSeq(s, k + 1, Len(s))) \in Nat
         /\ Len(SubSeq(s, k + 1, Len(s))) <= Len(s) - 1
  OBVIOUS

LEMMA BufferBalance ==
  ASSUME NEW x, NEW y, NEW z, Len(x) \in Nat, Len(y) \in Nat, Len(z) \in Nat,
         Len(x) + Len(y) <= Len(z), NEW v, NEW w, Len(v) \in Nat,
         Len(v) <= Len(y) - 1, Len(w) = Len(z) - 1
  PROVE  Len(x) + Len(v) <= Len(w)
  OBVIOUS

\* A request queued for, or sent to, node n is a set unless n is the tail, and
\* a set has been handed to the Kafka producer.
Fine(r, n) ==
  /\ n # Replicas => r.op = "set"
  /\ r.op = "set" => r \in Range(klog)
Queued(c, n) ==
  Range(imsg[<<c, n>>]) \cup Range(omsg[<<c, n>>]) \cup Range(toDl[<<c, n>>])

\* Every request the datalet has, or has answered, is in omsg_q: a buffer that
\* holds several answers takes one request off omsg_q, never more.
LinkOK(c, n) ==
  /\ \A r \in Queued(c, n) : Fine(r, n)
  /\ Len(toDl[<<c, n>>]) + Len(fromDl[<<c, n>>]) <= Len(omsg[<<c, n>>])

LinksInv == TypeOK /\ AppliedIsLogged /\ \A c \in Clients, n \in Nodes : LinkOK(c, n)

LogGrows == Range(klog) \subseteq Range(klog')

\* What leaves a link alone, or only takes requests off it.
LEMMA LinkShrinks ==
  ASSUME LogGrows, NEW c \in Clients, NEW n \in Nodes, LinkOK(c, n),
         Queued(c, n)' \subseteq Queued(c, n),
         Len(toDl'[<<c, n>>]) + Len(fromDl'[<<c, n>>]) <= Len(omsg'[<<c, n>>])
  PROVE  LinkOK(c, n)'
<1>1. ASSUME NEW r \in Queued(c, n) PROVE Fine(r, n)'
  BY <1>1 DEF LinkOK, Fine, LogGrows
<1> QED
  BY <1>1, Zenon DEF LinkOK

LEMMA LinkSame ==
  ASSUME LogGrows, NEW c \in Clients, NEW n \in Nodes, LinkOK(c, n), SameLink(<<c, n>>)
  PROVE  LinkOK(c, n)'
<1>1. Queued(c, n)' = Queued(c, n)
  BY Zenon DEF SameLink, Queued
<1>2. Len(toDl'[<<c, n>>]) + Len(fromDl'[<<c, n>>]) <= Len(omsg'[<<c, n>>])
  BY Zenon DEF SameLink, LinkOK
<1> QED
  BY <1>1, <1>2, LinkShrinks, Zenon

\* push_back of a request that may be sent to node n.
LEMMA LinkQueues ==
  ASSUME TypeOK, LogGrows, NEW c \in Clients, NEW n \in Nodes, LinkOK(c, n),
         NEW r \in Requests, Fine(r, n)', imsg'[<<c, n>>] = Append(imsg[<<c, n>>], r),
         omsg'[<<c, n>>] = omsg[<<c, n>>], toDl'[<<c, n>>] = toDl[<<c, n>>],
         fromDl'[<<c, n>>] = fromDl[<<c, n>>]
  PROVE  LinkOK(c, n)'
<1>1. Range(imsg'[<<c, n>>]) = Range(imsg[<<c, n>>]) \cup {r}
  <2>1. imsg[<<c, n>>] \in Seq(Requests)
    BY DEF TypeOK, Links
  <2>2. Range(Append(imsg[<<c, n>>], r)) = Range(imsg[<<c, n>>]) \cup {r}
    BY <2>1, RangeAppend
  <2> QED
    BY <2>2, Zenon
<1>2. ASSUME NEW q \in Queued(c, n)' PROVE Fine(q, n)'
  <2>1. q = r \/ q \in Queued(c, n)
    BY <1>1, <1>2 DEF Queued
  <2> QED
    BY <2>1 DEF LinkOK, Fine, LogGrows
<1> QED
  BY <1>2, Zenon DEF LinkOK

LEMMA RespondedLinks ==
  ASSUME LinksInv, NEW c \in Clients, NEW n \in Nodes, Responded(c, n),
         NEW d \in Clients, NEW m \in Nodes
  PROVE  LinkOK(d, m)'
<1>0. <<c, n>> \in Links /\ <<d, m>> \in Links /\ LogGrows /\ LinkOK(c, n) /\ LinkOK(d, m)
  BY DEF Links, LogGrows, Responded, LinksInv
<1>1. PICK k \in 1..Len(fromDl[<<c, n>>]) :
       /\ ReadBuffer(<<c, n>>, k)
       /\ \/ n # Replicas /\ Forward(<<c, n + 1>>, Head(omsg[<<c, n>>]))
          \/ UNCHANGED imsg
  BY Zenon DEF Responded
<1>2. /\ omsg[<<c, n>>] \in Seq(Requests) /\ omsg[<<c, n>>] # <<>>
      /\ omsg'[<<c, n>>] = Tail(omsg[<<c, n>>])
      /\ fromDl'[<<c, n>>] = SubSeq(fromDl[<<c, n>>], k + 1, Len(fromDl[<<c, n>>]))
      /\ \A l \in Links \ {<<c, n>>} : omsg'[l] = omsg[l] /\ fromDl'[l] = fromDl[l]
      /\ toDl' = toDl
  BY <1>0, <1>1, ZenonT(60) DEF ReadBuffer, LinksInv, TypeOK, Responded
<1>3. CASE imsg'[<<d, m>>] = imsg[<<d, m>>]
  <2>1. CASE <<d, m>> = <<c, n>>
    <3>1. d = c /\ m = n
      BY <2>1
    <3>2. Queued(c, n)' \subseteq Queued(c, n)
      BY <1>2, <1>3, <3>1, HeadTail, Zenon DEF Queued
    <3>3. Len(toDl'[<<c, n>>]) + Len(fromDl'[<<c, n>>]) <= Len(omsg'[<<c, n>>])
      <4>0. fromDl[<<c, n>>] \in Seq(Responses) /\ toDl[<<c, n>>] \in Seq(Requests)
        BY <1>0 DEF LinksInv, TypeOK
      <4>1. Len(fromDl'[<<c, n>>]) <= Len(fromDl[<<c, n>>]) - 1 /\ Len(fromDl'[<<c, n>>]) \in Nat
            /\ Len(fromDl[<<c, n>>]) \in Nat /\ Len(toDl[<<c, n>>]) \in Nat
        BY <1>2, <4>0, RestLength
      <4>2. Len(omsg'[<<c, n>>]) = Len(omsg[<<c, n>>]) - 1 /\ Len(omsg[<<c, n>>]) \in Nat
        BY <1>2, HeadTail
      <4>3. Len(toDl[<<c, n>>]) + Len(fromDl[<<c, n>>]) <= Len(omsg[<<c, n>>])
        BY <1>0, Zenon DEF LinkOK
      <4>4. toDl' = toDl
        BY <1>2
      <4> QED
        BY <4>1, <4>2, <4>3, <4>4, BufferBalance, Zenon
    <3> QED
      BY <1>0, <3>1, <3>2, <3>3, LinkShrinks, Zenon
  <2>2. CASE <<d, m>> # <<c, n>>
    BY <1>0, <1>2, <1>3, <2>2, LinkSame DEF SameLink
  <2> QED
    BY <2>1, <2>2
<1>4. CASE imsg'[<<d, m>>] # imsg[<<d, m>>]
  <2>1. /\ n # Replicas /\ <<d, m>> = <<c, n + 1>>
        /\ imsg'[<<d, m>>] = Append(imsg[<<d, m>>], Head(omsg[<<c, n>>]))
    <3>1. DOMAIN imsg = Links
      BY DEF LinksInv, TypeOK
    <3> QED
      BY <1>0, <1>1, <1>4, <3>1, Zenon DEF Forward
  <2>2. <<d, m>> # <<c, n>> /\ d = c
    BY <2>1, NodeFacts
  <2>3. PICK r \in Requests : r = Head(omsg[<<c, n>>]) /\ r \in Queued(c, n)
    BY <1>2, HeadTail, SeqOps DEF Queued
  <2>4. Fine(r, m)'
    <3>1. Fine(r, n)
      BY <1>0, <2>3, Zenon DEF LinkOK
    <3> QED
      BY <1>0, <2>1, <3>1, Zenon DEF Fine, LogGrows
  <2> QED
    BY <1>0, <1>2, <2>1, <2>2, <2>3, <2>4, LinkQueues, Zenon DEF LinksInv
<1> QED
  BY <1>3, <1>4

LEMMA HandleRequestLinks ==
  ASSUME LinksInv, NEW c \in Clients, NEW n \in Nodes, HandleRequest(c, n)
  PROVE  AppliedIsLogged' /\ \A d \in Clients, m \in Nodes : LinkOK(d, m)'
<1>0. <<c, n>> \in Links /\ LogGrows /\ LinkOK(c, n) /\ UNCHANGED <<imsg, omsg, klog>>
  BY DEF Links, LogGrows, HandleRequest, proxyVars, LinksInv
<1>1. DEFINE r == Head(toDl[<<c, n>>])
<1>2. /\ toDl[<<c, n>>] \in Seq(Requests) /\ toDl[<<c, n>>] # <<>>
      /\ toDl'[<<c, n>>] = Tail(toDl[<<c, n>>])
      /\ fromDl'[<<c, n>>] = Append(fromDl[<<c, n>>], Answer(n, r))
      /\ \A l \in Links \ {<<c, n>>} : toDl'[l] = toDl[l] /\ fromDl'[l] = fromDl[l]
  BY <1>0, Zenon DEF HandleRequest, LinksInv, TypeOK
<1>3. ASSUME NEW d \in Clients, NEW m \in Nodes PROVE LinkOK(d, m)'
  <2>1. <<d, m>> \in Links /\ LinkOK(d, m)
    BY DEF Links, LinksInv
  <2>2. CASE <<d, m>> # <<c, n>>
    BY <1>0, <1>2, <2>1, <2>2, LinkSame DEF SameLink
  <2>3. CASE <<d, m>> = <<c, n>>
    <3>1. d = c /\ m = n
      BY <2>3
    <3>2. Queued(c, n)' \subseteq Queued(c, n)
      BY <1>0, <1>2, HeadTail, Zenon DEF Queued
    <3>3. Len(toDl'[<<c, n>>]) + Len(fromDl'[<<c, n>>]) <= Len(omsg'[<<c, n>>])
      <4>1. /\ Len(toDl'[<<c, n>>]) = Len(toDl[<<c, n>>]) - 1
            /\ Len(toDl[<<c, n>>]) \in Nat
        BY <1>2, HeadTail
      <4>2. /\ Len(fromDl'[<<c, n>>]) = Len(fromDl[<<c, n>>]) + 1
            /\ Len(fromDl[<<c, n>>]) \in Nat
        <5>1. fromDl[<<c, n>>] \in Seq(Responses)
          BY <1>0 DEF LinksInv, TypeOK
        <5> QED
          BY <1>2, <5>1
      <4>3. Len(omsg[<<c, n>>]) \in Nat
        BY <1>0 DEF LinksInv, TypeOK
      <4>4. Len(toDl[<<c, n>>]) + Len(fromDl[<<c, n>>]) <= Len(omsg[<<c, n>>])
        BY <1>0, Zenon DEF LinkOK
      <4> QED
        BY <1>0, <4>1, <4>2, <4>3, <4>4 DEF LinksInv, TypeOK
    <3> QED
      BY <1>0, <3>1, <3>2, <3>3, LinkShrinks, Zenon
  <2> QED
    BY <2>2, <2>3
<1>4. AppliedIsLogged'
  <2>1. r \in Queued(c, n)
    BY <1>2, HeadTail, Zenon DEF Queued
  <2>2. r.op = "set" => ValueOf(r) \in {ValueOf(q) : q \in Range(klog)}
    BY <1>0, <2>1, Zenon DEF LinkOK, Fine
  <2>3. applied' \in {applied, [applied EXCEPT ![n] = @ \cup {ValueOf(r)}]}
        /\ (applied' # applied => r.op = "set")
    BY Zenon DEF HandleRequest
  <2>4. applied \in [Nodes -> SUBSET Values]
    BY DEF LinksInv, TypeOK
  <2>5. ASSUME NEW m \in Nodes, NEW v \in applied'[m]
        PROVE  v \in {ValueOf(q) : q \in Range(klog)}
    <3>1. v \in applied[m] \/ (v = ValueOf(r) /\ r.op = "set")
      BY <2>3, <2>4, <2>5
    <3> QED
      BY <2>2, <3>1, Zenon DEF LinksInv, AppliedIsLogged
  <2> QED
    BY <1>0, <2>5, Zenon DEF AppliedIsLogged
<1> QED
  BY <1>3, <1>4

LEMMA ReqRecvLinks ==
  ASSUME LinksInv, NEW c \in Clients, ReqRecv(c), NEW d \in Clients, NEW m \in Nodes
  PROVE  LinkOK(d, m)' /\ LogGrows
<1>0. <<d, m>> \in Links /\ LinkOK(d, m) /\ UNCHANGED <<omsg, toDl, fromDl>>
  BY DEF Links, ReqRecv, LinksInv
<1>1. PICK r \in Requests : r = Head(toProxy[c])
  BY SeqOps DEF LinksInv, TypeOK, ReqRecv
<1>2. r \in Requests /\ klog \in Seq(Requests) /\ DOMAIN imsg = Links
  BY DEF LinksInv, TypeOK
<1>3. klog' = Produce(r) /\ Forward(<<c, Target(r)>>, r)
  BY <1>1, Zenon DEF ReqRecv
<1>4. LogGrows /\ (r.op = "set" => r \in Range(klog'))
  BY <1>2, <1>3, RangeAppend DEF LogGrows, Produce, Forwards
<1>5. CASE imsg'[<<d, m>>] = imsg[<<d, m>>]
  BY <1>0, <1>4, <1>5, LinkSame, Zenon DEF SameLink
<1>6. CASE imsg'[<<d, m>>] # imsg[<<d, m>>]
  <2>1. <<d, m>> = <<c, Target(r)>> /\ imsg'[<<d, m>>] = Append(imsg[<<d, m>>], r)
    BY <1>0, <1>2, <1>3, <1>6, Zenon DEF Forward
  <2>2. Fine(r, m)'
    <3>1. m = Target(r)
      BY <2>1
    <3> QED
      BY <1>4, <3>1, Zenon DEF Fine, Target, Forwards
  <2> QED
    BY <1>0, <1>2, <1>4, <2>1, <2>2, LinkQueues, Zenon DEF LinksInv
<1> QED
  BY <1>4, <1>5, <1>6

LEMMA SendHeadLinks ==
  ASSUME LinksInv, NEW c \in Clients, NEW n \in Nodes, SendHead(<<c, n>>),
         NEW d \in Clients, NEW m \in Nodes
  PROVE  LinkOK(d, m)'
<1>0. /\ <<c, n>> \in Links /\ <<d, m>> \in Links /\ LogGrows /\ LinkOK(d, m)
      /\ LinkOK(c, n) /\ UNCHANGED <<fromDl, klog>>
  BY DEF Links, SendHead, LinksInv, LogGrows
<1>1. /\ imsg \in [Links -> Seq(Requests)] /\ omsg \in [Links -> Seq(Requests)]
      /\ toDl \in [Links -> Seq(Requests)] /\ fromDl \in [Links -> Seq(Responses)]
  BY DEF LinksInv, TypeOK
<1>2. CASE imsg[<<c, n>>] = <<>>
  <2>1. SameLink(<<d, m>>)
    BY <1>0, <1>2, Zenon DEF SendHead, SameLink
  <2> QED
    BY <1>0, <2>1, LinkSame, Zenon
<1>3. CASE imsg[<<c, n>>] # <<>>
  <2>1. /\ imsg' = [imsg EXCEPT ![<<c, n>>] = Tail(@)]
        /\ \/ /\ omsg' = [omsg EXCEPT ![<<c, n>>] = Append(@, Head(imsg[<<c, n>>]))]
              /\ toDl' = [toDl EXCEPT ![<<c, n>>] = Append(@, Head(imsg[<<c, n>>]))]
           \/ UNCHANGED <<omsg, toDl>>
    BY <1>3, Zenon DEF SendHead
  <2>2. CASE <<d, m>> # <<c, n>>
    <3>1. SameLink(<<d, m>>)
      BY <1>0, <1>1, <2>1, <2>2, Zenon DEF SameLink
    <3> QED
      BY <1>0, <3>1, LinkSame, Zenon
  <2>3. CASE <<d, m>> = <<c, n>>
    <3>0. d = c /\ m = n
      BY <2>3
    <3>1. DEFINE r == Head(imsg[<<c, n>>])
    <3>2. /\ r \in Range(imsg[<<c, n>>]) /\ r \in Requests
          /\ Range(Tail(imsg[<<c, n>>])) \subseteq Range(imsg[<<c, n>>])
      BY <1>0, <1>1, <1>3, HeadTail, SeqOps, Zenon
    <3>3. imsg'[<<c, n>>] = Tail(imsg[<<c, n>>])
      BY <1>0, <1>1, <2>1
    <3>4. CASE UNCHANGED <<omsg, toDl>>
      <4>1. Queued(c, n)' \subseteq Queued(c, n)
        BY <3>2, <3>3, <3>4, Zenon DEF Queued
      <4>2. Len(toDl'[<<c, n>>]) + Len(fromDl'[<<c, n>>]) <= Len(omsg'[<<c, n>>])
        BY <1>0, <3>4, Zenon DEF LinkOK
      <4> QED
        BY <1>0, <3>0, <4>1, <4>2, LinkShrinks, Zenon
    <3>5. CASE omsg'[<<c, n>>] = Append(omsg[<<c, n>>], r)
               /\ toDl'[<<c, n>>] = Append(toDl[<<c, n>>], r)
      <4>1. Range(omsg'[<<c, n>>]) = Range(omsg[<<c, n>>]) \cup {r}
            /\ Range(toDl'[<<c, n>>]) = Range(toDl[<<c, n>>]) \cup {r}
        <5>1. omsg[<<c, n>>] \in Seq(Requests) /\ toDl[<<c, n>>] \in Seq(Requests)
          BY <1>0, <1>1
        <5>2. Range(Append(omsg[<<c, n>>], r)) = Range(omsg[<<c, n>>]) \cup {r}
          BY <3>2, <5>1, RangeAppend
        <5>3. Range(Append(toDl[<<c, n>>], r)) = Range(toDl[<<c, n>>]) \cup {r}
          BY <3>2, <5>1, RangeAppend
        <5> QED
          BY <3>5, <5>2, <5>3, Zenon
      <4>2. Queued(c, n)' \subseteq Queued(c, n)
        BY <3>2, <3>3, <4>1 DEF Queued
      <4>3. Len(toDl'[<<c, n>>]) + Len(fromDl'[<<c, n>>]) <= Len(omsg'[<<c, n>>])
        <5>1. /\ Len(toDl'[<<c, n>>]) = Len(toDl[<<c, n>>]) + 1
              /\ Len(omsg'[<<c, n>>]) = Len(omsg[<<c, n>>]) + 1
              /\ Len(toDl[<<c, n>>]) \in Nat /\ Len(omsg[<<c, n>>]) \in Nat
              /\ Len(fromDl[<<c, n>>]) \in Nat
          BY <1>0, <1>1, <3>5
        <5>2. Len(toDl[<<c, n>>]) + Len(fromDl[<<c, n>>]) <= Len(omsg[<<c, n>>])
          BY <1>0, Zenon DEF LinkOK
        <5> QED
          BY <1>0, <1>1, <5>1, <5>2
      <4> QED
        BY <1>0, <3>0, <4>2, <4>3, LinkShrinks, Zenon
    <3> QED
      BY <1>0, <1>1, <2>1, <3>4, <3>5, Zenon
  <2> QED
    BY <2>2, <2>3
<1> QED
  BY <1>2, <1>3

LEMMA NextLinks == LinksInv /\ [Next]_vars => LinksInv'
<1> SUFFICES ASSUME LinksInv, [Next]_vars PROVE LinksInv'
  OBVIOUS
<1>1. TypeOK'
  BY NextTypeOK DEF LinksInv
<1>2. ASSUME LogGrows, UNCHANGED applied PROVE AppliedIsLogged'
  BY <1>2 DEF LinksInv, AppliedIsLogged, LogGrows
<1>3. ASSUME UNCHANGED <<imsg, omsg, toDl, fromDl, klog, applied>> PROVE LinksInv'
  <2>1. LogGrows /\ \A l \in Links : SameLink(l)
    BY <1>3 DEF LogGrows, SameLink
  <2>2. ASSUME NEW d \in Clients, NEW m \in Nodes PROVE LinkOK(d, m)'
    BY <2>1, LinkSame, Zenon DEF Links, LinksInv
  <2> QED
    BY <1>1, <1>2, <1>3, <2>1, <2>2 DEF LinksInv
<1>4. ASSUME NEW c \in Clients, Issue(c) \/ ClientRead(c) \/ ClientClose(c) \/ Accept(c)
             \/ ReqRecvEof(c) \/ RspSend(c)
      PROVE  LinksInv'
  BY <1>3, <1>4, Zenon DEF Issue, ClientRead, ClientClose, Accept, ReqRecvEof, RspSend,
     proxyVars, netVars, dlVars
<1>5. ASSUME NEW n \in CanFail, DataletStop(n) PROVE LinksInv'
  BY <1>3, <1>5, Zenon DEF DataletStop, proxyVars, netVars
<1>6. ASSUME NEW c \in Clients, NEW n \in Nodes, HandleRequest(c, n) PROVE LinksInv'
  BY <1>1, <1>6, HandleRequestLinks DEF LinksInv
<1>7. ASSUME NEW c \in Clients, ReqRecv(c) PROVE LinksInv'
  <2>1. 0 \in Nodes
    BY ConstantsAssumption DEF Nodes
  <2>2. LogGrows /\ UNCHANGED applied
    BY <1>7, <2>1, ReqRecvLinks, Zenon DEF ReqRecv, dlVars
  <2> QED
    BY <1>1, <1>2, <1>7, <2>2, ReqRecvLinks, Zenon DEF LinksInv
<1>8. ASSUME NEW c \in Clients, NEW n \in Nodes, SendHead(<<c, n>>) PROVE LinksInv'
  <2>1. LogGrows /\ UNCHANGED applied
    BY <1>8 DEF SendHead, LogGrows, dlVars
  <2> QED
    BY <1>1, <1>2, <1>8, <2>1, SendHeadLinks, Zenon DEF LinksInv
<1>9. ASSUME NEW c \in Clients, NEW n \in Nodes, Responded(c, n) PROVE LinksInv'
  <2>1. LogGrows /\ UNCHANGED applied
    BY <1>9 DEF Responded, LogGrows, dlVars
  <2> QED
    BY <1>1, <1>2, <1>9, <2>1, RespondedLinks, Zenon DEF LinksInv
<1>10. ASSUME NEW c \in Clients, NEW n \in Nodes, RspRecvFail(c, n) PROVE LinksInv'
  <2>1. /\ LogGrows /\ UNCHANGED <<applied, imsg, omsg, toDl>> /\ <<c, n>> \in Links
        /\ fromDl' = [fromDl EXCEPT ![<<c, n>>] = <<>>]
    BY <1>10 DEF RspRecvFail, LogGrows, dlVars, Links
  <2>2. ASSUME NEW d \in Clients, NEW m \in Nodes PROVE LinkOK(d, m)'
    <3>1. Queued(d, m)' = Queued(d, m) /\ <<d, m>> \in Links /\ LinkOK(d, m)
      BY <2>1 DEF Queued, Links, LinksInv
    <3>2. Len(fromDl'[<<d, m>>]) <= Len(fromDl[<<d, m>>])
          /\ Len(fromDl'[<<d, m>>]) \in Nat /\ Len(fromDl[<<d, m>>]) \in Nat
          /\ Len(toDl[<<d, m>>]) \in Nat /\ Len(omsg[<<d, m>>]) \in Nat
      <4>1. /\ fromDl \in [Links -> Seq(Responses)] /\ toDl \in [Links -> Seq(Requests)]
            /\ omsg \in [Links -> Seq(Requests)]
        BY DEF LinksInv, TypeOK
      <4>2. fromDl'[<<d, m>>] \in {fromDl[<<d, m>>], <<>>}
        BY <2>1, <3>1, <4>1
      <4> QED
        BY <3>1, <4>1, <4>2
    <3>4. Len(toDl[<<d, m>>]) + Len(fromDl[<<d, m>>]) <= Len(omsg[<<d, m>>])
      BY <3>1, Zenon DEF LinkOK
    <3>3. Len(toDl'[<<d, m>>]) + Len(fromDl'[<<d, m>>]) <= Len(omsg'[<<d, m>>])
      BY <2>1, <3>1, <3>2, <3>4 DEF LinksInv, TypeOK
    <3> QED
      BY <2>1, <3>1, <3>3, LinkShrinks, Zenon
  <2> QED
    BY <1>1, <1>2, <2>1, <2>2, Zenon DEF LinksInv
<1>11. ASSUME NEW c \in Clients, Handlers(c) PROVE LinksInv'
  <2>1. 0 \in Nodes /\ \A n \in Slaves : n \in Nodes
    BY ConstantsAssumption DEF Nodes, Slaves
  <2> QED
    BY <1>4, <1>7, <1>8, <1>9, <1>10, <1>11, <2>1, ResponseHandlers, Zenon
    DEF Handlers, ReqSend, ReplicaReqSend
<1>12. CASE UNCHANGED vars
  BY <1>3, <1>12, Zenon DEF vars, proxyVars, netVars, dlVars
<1> QED
  BY <1>4, <1>5, <1>6, <1>11, <1>12, Zenon DEF Next

LEMMA InitLinks == Init => LinksInv
<1> SUFFICES ASSUME Init PROVE LinksInv
  OBVIOUS
<1>1. TypeOK /\ AppliedIsLogged
  BY InitTypeOK DEF Init, AppliedIsLogged
<1>2. ASSUME NEW c \in Clients, NEW n \in Nodes PROVE LinkOK(c, n)
  <2>1. /\ <<c, n>> \in Links /\ imsg[<<c, n>>] = <<>> /\ omsg[<<c, n>>] = <<>>
        /\ toDl[<<c, n>>] = <<>> /\ fromDl[<<c, n>>] = <<>>
    BY DEF Init, Links
  <2>2. Range(<<>>) = {} /\ Len(<<>>) + Len(<<>>) <= Len(<<>>)
    BY DEF Range
  <2>3. Queued(c, n) = {}
    BY <2>1, <2>2 DEF Queued
  <2> QED
    BY <2>1, <2>2, <2>3, Zenon DEF LinkOK
<1> QED
  BY <1>1, <1>2 DEF LinksInv

LEMMA LinksChecks == LinksInv => ChecksHold
<1> SUFFICES ASSUME LinksInv, NEW c \in Clients, NEW n \in Nodes
             PROVE  /\ fromDl[<<c, n>>] # <<>> => omsg[<<c, n>>] # <<>>
                    /\ n # Replicas => \A r \in Range(omsg[<<c, n>>]) : r.op = "set"
  BY Zenon DEF ChecksHold
<1>1. LinkOK(c, n) /\ <<c, n>> \in Links
  BY DEF LinksInv, Links
<1>2. /\ omsg[<<c, n>>] \in Seq(Requests) /\ toDl[<<c, n>>] \in Seq(Requests)
      /\ fromDl[<<c, n>>] \in Seq(Responses)
  BY <1>1 DEF LinksInv, TypeOK
<1>3. fromDl[<<c, n>>] # <<>> => omsg[<<c, n>>] # <<>>
  <2>1. Len(toDl[<<c, n>>]) + Len(fromDl[<<c, n>>]) <= Len(omsg[<<c, n>>])
    BY <1>1, Zenon DEF LinkOK
  <2> QED
    BY <1>1, <1>2, <2>1 DEF LinksInv, TypeOK
<1>4. ASSUME n # Replicas, NEW r \in Range(omsg[<<c, n>>]) PROVE r.op = "set"
  BY <1>1, <1>4 DEF LinkOK, Queued, Fine
<1> QED
  BY <1>3, <1>4

\* What the queues hold in every behaviour, whatever the clients pipeline.
THEOREM LinksHold == Spec => []LinksInv
  BY InitLinks, NextLinks, PTL DEF Spec

\* The CHECKs of the response handlers never abort the proxy, however many
\* requests a client pipelines and whatever fails (see ChecksHold).
THEOREM ChecksNeverAbort == Spec => []ChecksHold
  BY LinksHold, LinksChecks, PTL

\* Whatever a datalet stores was handed to the Kafka producer before.
THEOREM AppliedIsLoggedHolds == Spec => []AppliedIsLogged
<1>1. LinksInv => AppliedIsLogged
  BY DEF LinksInv
<1> QED
  BY <1>1, LinksHold, PTL

-----------------------------------------------------------------------------
(* Write events, whatever the clients pipeline.                            *)

LinkWakes(l) == imsg[l] # <<>> /\ ~err[l] => "out" \in ev[l]
ClientWakes(c) == cimsg[c] # <<>> /\ conn[c] = "open" => "out" \in cev[c]

\* A connection that is not accepted yet has nothing queued anywhere, so that
\* Accept may set its events without looking at its queue.
Fresh(c) ==
  conn[c] = "new" =>
    toProxy[c] = <<>> /\ cimsg[c] = <<>> /\ \A n \in Nodes : Idle(c, n)

WakeInv ==
  /\ TypeOK
  /\ \A l \in Links : LinkWakes(l)
  /\ \A c \in Clients : ClientWakes(c) /\ Fresh(c)

LEMMA ForwardWakes ==
  ASSUME WakeInv, NEW k \in Links, NEW r, Forward(k, r), UNCHANGED err
  PROVE  \A l \in Links : LinkWakes(l)'
<1>1. ASSUME NEW l \in Links, l # k PROVE LinkWakes(l)'
  BY <1>1 DEF WakeInv, TypeOK, Forward, LinkWakes
<1>2. LinkWakes(k)'
  <2>1. ev'[k] = IF imsg[k] = <<>> THEN ev[k] \cup {"out"} ELSE ev[k]
    BY DEF WakeInv, TypeOK, Forward
  <2>2. LinkWakes(k)
    BY DEF WakeInv
  <2>3. CASE imsg[k] = <<>>
    BY <2>1, <2>3, Zenon DEF LinkWakes
  <2>4. CASE imsg[k] # <<>>
    BY <2>1, <2>2, <2>4, Zenon DEF LinkWakes
  <2> QED
    BY <2>3, <2>4
<1> QED
  BY <1>1, <1>2, Zenon

LEMMA ReplyWakes ==
  ASSUME WakeInv, NEW c \in Clients, NEW m, Reply(c, m), UNCHANGED conn
  PROVE  \A d \in Clients : ClientWakes(d)'
<1>1. ASSUME NEW d \in Clients, d # c PROVE ClientWakes(d)'
  BY <1>1 DEF WakeInv, TypeOK, Reply, ClientWakes
<1>2. ClientWakes(c)'
  <2>1. cev'[c] = IF cimsg[c] = <<>> THEN cev[c] \cup {"out"} ELSE cev[c]
    BY DEF WakeInv, TypeOK, Reply
  <2>2. ClientWakes(c)
    BY DEF WakeInv
  <2>3. CASE cimsg[c] = <<>>
    BY <2>1, <2>3, Zenon DEF ClientWakes
  <2>4. CASE cimsg[c] # <<>>
    BY <2>1, <2>2, <2>4, Zenon DEF ClientWakes
  <2> QED
    BY <2>3, <2>4
<1> QED
  BY <1>1, <1>2, Zenon

LEMMA NextWakes ==
  ASSUME WakeInv, [Next]_vars
  PROVE  (\A l \in Links : LinkWakes(l)') /\ (\A c \in Clients : ClientWakes(c)')
<1>1. ASSUME UNCHANGED <<imsg, err, ev>> PROVE \A l \in Links : LinkWakes(l)'
  BY <1>1, Zenon DEF WakeInv, LinkWakes
<1>2. ASSUME UNCHANGED <<cimsg, conn, cev>> PROVE \A c \in Clients : ClientWakes(c)'
  BY <1>2, Zenon DEF WakeInv, ClientWakes
<1> DEFINE Goal == (\A l \in Links : LinkWakes(l)') /\ (\A c \in Clients : ClientWakes(c)')
<1>3. ASSUME NEW c \in Clients, Issue(c) \/ ClientRead(c) PROVE Goal
  BY <1>1, <1>2, <1>3, Zenon DEF Issue, ClientRead, proxyVars
<1>4. ASSUME NEW c \in Clients, ClientClose(c) PROVE Goal
  <2>1. \A d \in Clients : ClientWakes(d)'
    BY <1>4 DEF ClientClose, proxyVars, ClientWakes, WakeInv, TypeOK
  <2> QED
    BY <1>1, <1>4, <2>1, Zenon DEF ClientClose, proxyVars
<1>5. ASSUME NEW c \in Clients, NEW n \in Nodes, HandleRequest(c, n) PROVE Goal
  BY <1>1, <1>2, <1>5, Zenon DEF HandleRequest, proxyVars, clientVars
<1>6. ASSUME NEW n \in CanFail, DataletStop(n) PROVE Goal
  BY <1>1, <1>2, <1>6, Zenon DEF DataletStop, proxyVars, clientVars
<1>7. ASSUME NEW c \in Clients, Accept(c) PROVE Goal
  <2>1. ASSUME NEW d \in Clients PROVE ClientWakes(d)'
    <3>1. CASE d = c
      <4>1. cimsg'[c] = <<>>
        BY <1>7, Zenon DEF Accept, WakeInv, Fresh
      <4> QED
        BY <3>1, <4>1, Zenon DEF ClientWakes
    <3>2. CASE d # c
      <4>1. conn'[d] = conn[d] /\ cev'[d] = cev[d] /\ cimsg' = cimsg
        BY <1>7, <3>2 DEF Accept, WakeInv, TypeOK
      <4> QED
        BY <4>1, Zenon DEF ClientWakes, WakeInv
    <3> QED
      BY <3>1, <3>2
  <2> QED
    BY <1>1, <1>7, <2>1, Zenon DEF Accept
<1>8. ASSUME NEW c \in Clients, ReqRecv(c) PROVE Goal
  <2>1. <<c, Target(Head(toProxy[c]))>> \in Links
    BY ConstantsAssumption DEF Target, Nodes, Links
  <2> QED
    BY <1>2, <1>8, <2>1, ForwardWakes, Zenon DEF ReqRecv, clientVars
<1>9. ASSUME NEW c \in Clients, ReqRecvEof(c) PROVE Goal
  <2>1. ASSUME NEW d \in Clients PROVE ClientWakes(d)'
    <3>1. CASE d = c
      BY <1>9, <3>1, Zenon DEF ReqRecvEof, ClientWakes, clientVars
    <3>2. CASE d # c
      <4>1. UNCHANGED <<conn, cimsg>> /\ cev'[d] = cev[d]
        BY <1>9, <3>2 DEF ReqRecvEof, WakeInv, TypeOK, clientVars
      <4> QED
        BY <4>1, Zenon DEF ClientWakes, WakeInv
    <3> QED
      BY <3>1, <3>2
  <2> QED
    BY <1>1, <1>9, <2>1, Zenon DEF ReqRecvEof
<1>10. ASSUME NEW l \in Links, SendHead(l) PROVE Goal
  <2>1. ASSUME NEW k \in Links, k # l PROVE LinkWakes(k)'
    <3>1. imsg'[k] = imsg[k] /\ ev'[k] = ev[k] /\ err'[k] = err[k]
      BY <1>10, <2>1, Zenon DEF SendHead, WakeInv, TypeOK
    <3> QED
      BY <3>1, Zenon DEF LinkWakes, WakeInv
  <2>2. LinkWakes(l)'
    <3>1. CASE imsg[l] = <<>> /\ UNCHANGED imsg
      BY <3>1, Zenon DEF LinkWakes
    <3>2. CASE ev' = [ev EXCEPT ![l] = @ \cup {"in"}]
      <4>1. ev \in [Links -> SUBSET {"in", "out"}] /\ "out" \in ev[l]
        BY <1>10, Zenon DEF SendHead, WakeInv, TypeOK
      <4>2. "out" \in ev'[l]
        BY <3>2, <4>1, Zenon
      <4> QED
        BY <4>2, Zenon DEF LinkWakes
    <3>3. CASE err' = [err EXCEPT ![l] = TRUE]
      BY <3>3, Zenon DEF LinkWakes, WakeInv, TypeOK
    <3> QED
      BY <1>10, <3>1, <3>2, <3>3, Zenon DEF SendHead
  <2> QED
    BY <1>2, <1>10, <2>1, <2>2, Zenon DEF SendHead, clientVars
<1>11. ASSUME NEW c \in Clients, NEW n \in Nodes, Responded(c, n) PROVE Goal
  <2>1. PICK k \in 1..Len(fromDl[<<c, n>>]) :
          \/ /\ n # Replicas /\ Forward(<<c, n + 1>>, Head(omsg[<<c, n>>]))
             /\ UNCHANGED <<cimsg, cev>>
          \/ /\ Reply(c, SubSeq(fromDl[<<c, n>>], 1, k))
             /\ UNCHANGED <<imsg, ev>>
          \/ UNCHANGED <<imsg, ev, cimsg, cev>>
    BY <1>11, Zenon DEF Responded
  <2>2. UNCHANGED <<conn, err>>
    BY <1>11, Zenon DEF Responded, clientVars
  <2>3. n # Replicas => <<c, n + 1>> \in Links
    BY NodeFacts DEF Links
  <2> QED
    BY <1>1, <1>2, <2>1, <2>2, <2>3, ForwardWakes, ReplyWakes, Zenon
<1>12. ASSUME NEW c \in Clients, NEW n \in Nodes, RspRecvFail(c, n) PROVE Goal
  <2>1. ASSUME NEW l \in Links PROVE LinkWakes(l)'
    <3>1. CASE l = <<c, n>>
      BY <1>12, <3>1 DEF RspRecvFail, LinkWakes, WakeInv, TypeOK
    <3>2. CASE l # <<c, n>>
      <4>1. imsg' = imsg /\ ev'[l] = ev[l] /\ err'[l] = err[l]
        BY <1>12, <3>2, Zenon DEF RspRecvFail, WakeInv, TypeOK
      <4> QED
        BY <4>1, Zenon DEF LinkWakes, WakeInv
    <3> QED
      BY <3>1, <3>2
  <2> QED
    BY <1>2, <1>12, <2>1, Zenon DEF RspRecvFail, clientVars
<1>13. ASSUME NEW c \in Clients, RspSend(c) PROVE Goal
  <2>1. ASSUME NEW d \in Clients, d # c PROVE ClientWakes(d)'
    <3>1. cimsg'[d] = cimsg[d] /\ cev'[d] = cev[d] /\ conn' = conn
      BY <1>13, <2>1, Zenon DEF RspSend, WakeInv, TypeOK, clientVars
    <3> QED
      BY <3>1, Zenon DEF ClientWakes, WakeInv
  <2>2. ClientWakes(c)'
    <3>1. CASE cimsg[c] = <<>> /\ UNCHANGED cimsg
      BY <3>1, Zenon DEF ClientWakes
    <3>2. CASE UNCHANGED cev
      BY <1>13, <3>2, Zenon DEF RspSend, ClientWakes
    <3>3. CASE conn[c] = "closed"
      BY <1>13, <3>3, Zenon DEF RspSend, ClientWakes, clientVars
    <3> QED
      BY <1>13, <3>1, <3>2, <3>3, Zenon DEF RspSend
  <2> QED
    BY <1>1, <1>13, <2>1, <2>2, Zenon DEF RspSend
<1>14. ASSUME NEW c \in Clients, Handlers(c) PROVE Goal
  <2>1. 0 \in Nodes /\ \A n \in Slaves : n \in Nodes
    BY ConstantsAssumption DEF Nodes, Slaves
  <2>2. \A n \in Nodes : <<c, n>> \in Links
    BY DEF Links
  <2> QED
    BY <1>8, <1>9, <1>10, <1>11, <1>12, <1>13, <1>14, <2>1, <2>2, ResponseHandlers, Zenon
    DEF Handlers, ReqSend, ReplicaReqSend
<1>15. CASE UNCHANGED vars
  BY <1>1, <1>2, <1>15, Zenon DEF vars, proxyVars, clientVars
<1> QED
  BY <1>3, <1>4, <1>5, <1>6, <1>7, <1>14, <1>15, Zenon DEF Next

\* Only Accept makes a connection usable, and only a usable one gets requests.
LEMMA NextFresh ==
  ASSUME WakeInv, [Next]_vars, NEW d \in Clients
  PROVE  Fresh(d)'
<1>0. Fresh(d) /\ <<d, 0>> \in Links
  BY ConstantsAssumption DEF WakeInv, Links, Nodes
<1>1. ASSUME conn'[d] = conn[d], toProxy'[d] = toProxy[d], cimsg'[d] = cimsg[d],
             \A n \in Nodes : SameLink(<<d, n>>)
      PROVE  Fresh(d)'
  BY <1>0, <1>1, Zenon DEF Fresh, Idle, SameLink
<1>2. ASSUME conn'[d] # "new" PROVE Fresh(d)'
  BY <1>2, Zenon DEF Fresh
<1>3. ASSUME NEW c \in Clients, Issue(c) \/ ClientRead(c) \/ ClientClose(c) PROVE Fresh(d)'
  <2>1. UNCHANGED <<cimsg, imsg, omsg, toDl, fromDl>>
    BY <1>3, Zenon DEF Issue, ClientRead, ClientClose, proxyVars, netVars
  <2>2. CASE d # c
    <3>1. conn'[d] = conn[d] /\ toProxy'[d] = toProxy[d]
      BY <1>3, <2>2, Zenon DEF Issue, ClientRead, ClientClose, netVars, WakeInv, TypeOK
    <3> QED
      BY <1>1, <2>1, <3>1, Zenon DEF SameLink
  <2>3. CASE d = c
    BY <1>2, <1>3, <2>3, Zenon DEF Issue, ClientRead, ClientClose, WakeInv, TypeOK
  <2> QED
    BY <2>2, <2>3
<1>4. ASSUME NEW c \in Clients, NEW n \in Nodes, HandleRequest(c, n) PROVE Fresh(d)'
  <2>1. UNCHANGED <<conn, toProxy, cimsg, imsg, omsg>>
    BY <1>4 DEF HandleRequest, proxyVars, clientVars
  <2>2. CASE d # c
    <3>1. \A m \in Nodes : SameLink(<<d, m>>)
      <4>1. ASSUME NEW m \in Nodes PROVE SameLink(<<d, m>>)
        <5>1. <<d, m>> \in Links /\ <<d, m>> # <<c, n>>
          BY <2>2 DEF Links
        <5> QED
          BY <1>4, <2>1, <5>1, Zenon DEF HandleRequest, SameLink, WakeInv, TypeOK
      <4> QED
        BY <4>1
    <3> QED
      BY <1>1, <2>1, <3>1, Zenon
  <2>3. CASE d = c
    BY <1>0, <1>2, <1>4, <2>1, <2>3, Zenon DEF HandleRequest, Fresh, Idle
  <2> QED
    BY <2>2, <2>3
<1>5. ASSUME NEW n \in CanFail, DataletStop(n) PROVE Fresh(d)'
  BY <1>1, <1>5, Zenon DEF DataletStop, proxyVars, clientVars, netVars, SameLink
<1>6. ASSUME NEW c \in Clients, Accept(c) PROVE Fresh(d)'
  <2>1. UNCHANGED <<toProxy, cimsg, imsg, omsg, toDl, fromDl>>
    BY <1>6 DEF Accept, netVars
  <2>2. conn'[d] = conn[d] \/ conn'[d] = "open"
    BY <1>6 DEF Accept, WakeInv, TypeOK
  <2> QED
    BY <1>1, <1>2, <2>1, <2>2, Zenon DEF SameLink
<1>7. ASSUME NEW c \in Clients, ReqRecv(c) PROVE Fresh(d)'
  <2>1. UNCHANGED <<conn, cimsg, omsg, toDl, fromDl>>
    BY <1>7, Zenon DEF ReqRecv, clientVars
  <2>2. CASE d # c
    <3>1. ASSUME NEW m \in Nodes PROVE SameLink(<<d, m>>)
      <4>1. <<d, m>> \in Links /\ <<d, m>> # <<c, Target(Head(toProxy[c]))>>
        BY <2>2 DEF Links
      <4> QED
        BY <1>7, <2>1, <4>1, Zenon DEF ReqRecv, Forward, SameLink, WakeInv, TypeOK
    <3>2. toProxy'[d] = toProxy[d]
      BY <1>7, <2>2 DEF ReqRecv, WakeInv, TypeOK
    <3> QED
      BY <1>1, <2>1, <3>1, <3>2, Zenon
  <2>3. CASE d = c
    BY <1>0, <1>2, <1>7, <2>1, <2>3, Zenon DEF ReqRecv, Fresh
  <2> QED
    BY <2>2, <2>3
<1>8. ASSUME NEW c \in Clients, ReqRecvEof(c) PROVE Fresh(d)'
  <2>1. UNCHANGED <<conn, cimsg, imsg, omsg, toDl, fromDl>>
    BY <1>8, Zenon DEF ReqRecvEof, clientVars
  <2>2. toProxy'[d] = toProxy[d] \/ conn[d] = "closed"
    BY <1>8 DEF ReqRecvEof, WakeInv, TypeOK
  <2> QED
    BY <1>1, <1>2, <2>1, <2>2, Zenon DEF SameLink
<1>9. ASSUME NEW c \in Clients, NEW n \in Nodes, SendHead(<<c, n>>) PROVE Fresh(d)'
  <2>0. <<c, n>> \in Links
    BY DEF Links
  <2>1. UNCHANGED <<conn, toProxy, cimsg, fromDl>>
    BY <1>9 DEF SendHead, clientVars
  <2>2. CASE d # c \/ imsg[<<c, n>>] = <<>>
    <3>1. ASSUME NEW m \in Nodes PROVE SameLink(<<d, m>>)
      <4>1. <<d, m>> \in Links
        BY DEF Links
      <4>2. CASE imsg[<<c, n>>] = <<>>
        BY <1>9, <2>1, <4>2, Zenon DEF SendHead, SameLink
      <4>3. CASE d # c
        <5>1. <<d, m>> # <<c, n>>
          BY <4>3
        <5>2. imsg'[<<d, m>>] = imsg[<<d, m>>] /\ omsg'[<<d, m>>] = omsg[<<d, m>>]
              /\ toDl'[<<d, m>>] = toDl[<<d, m>>]
          BY <1>9, <4>1, <5>1, Zenon DEF SendHead, WakeInv, TypeOK
        <5> QED
          BY <2>1, <5>2, Zenon DEF SameLink
      <4> QED
        BY <2>2, <4>2, <4>3
    <3> QED
      BY <1>1, <2>1, <3>1, Zenon
  <2>3. CASE d = c /\ imsg[<<c, n>>] # <<>>
    BY <1>0, <1>2, <2>1, <2>3, Zenon DEF Fresh, Idle
  <2> QED
    BY <2>2, <2>3
<1>10. ASSUME NEW c \in Clients, NEW n \in Nodes, Responded(c, n) PROVE Fresh(d)'
  <2>0. <<c, n>> \in Links
    BY DEF Links
  <2>1. PICK k \in 1..Len(fromDl[<<c, n>>]) :
          /\ ReadBuffer(<<c, n>>, k)
          /\ imsg' = imsg \/ Forward(<<c, n + 1>>, Head(omsg[<<c, n>>]))
          /\ cimsg' = cimsg \/ Reply(c, SubSeq(fromDl[<<c, n>>], 1, k))
    BY <1>10, Zenon DEF Responded
  <2>2. UNCHANGED <<conn, toProxy, toDl>>
    BY <1>10, Zenon DEF Responded, clientVars
  <2>3. CASE d # c
    <3>1. ASSUME NEW m \in Nodes PROVE SameLink(<<d, m>>)
      <4>1. <<d, m>> \in Links /\ <<d, m>> # <<c, n>> /\ <<d, m>> # <<c, n + 1>>
        BY <2>3 DEF Links
      <4>2. omsg'[<<d, m>>] = omsg[<<d, m>>] /\ fromDl'[<<d, m>>] = fromDl[<<d, m>>]
        BY <2>1, <4>1, Zenon DEF ReadBuffer, WakeInv, TypeOK
      <4>3. imsg'[<<d, m>>] = imsg[<<d, m>>]
        BY <2>1, <4>1, Zenon DEF Forward, WakeInv, TypeOK
      <4> QED
        BY <2>2, <4>2, <4>3, Zenon DEF SameLink
    <3>2. cimsg'[d] = cimsg[d]
      BY <2>1, <2>3, Zenon DEF Reply, WakeInv, TypeOK
    <3> QED
      BY <1>1, <2>2, <3>1, <3>2, Zenon
  <2>4. CASE d = c
    BY <1>0, <1>2, <2>1, <2>2, <2>4, Zenon DEF Fresh, Idle, ReadBuffer
  <2> QED
    BY <2>3, <2>4
<1>11. ASSUME NEW c \in Clients, NEW n \in Nodes, RspRecvFail(c, n) PROVE Fresh(d)'
  <2>1. UNCHANGED <<conn, toProxy, cimsg, imsg, omsg, toDl>>
    BY <1>11 DEF RspRecvFail, clientVars
  <2>2. \A m \in Nodes : fromDl[<<d, m>>] = <<>> => fromDl'[<<d, m>>] = <<>>
    BY <1>11, Zenon DEF RspRecvFail, Links, WakeInv, TypeOK
  <2> QED
    BY <1>0, <2>1, <2>2, Zenon DEF Fresh, Idle
<1>12. ASSUME NEW c \in Clients, RspSend(c) PROVE Fresh(d)'
  <2>1. UNCHANGED <<conn, toProxy, imsg, omsg, toDl, fromDl>>
    BY <1>12, Zenon DEF RspSend, clientVars
  <2>2. cimsg[d] = <<>> => cimsg'[d] = <<>>
    BY <1>12, Zenon DEF RspSend, WakeInv, TypeOK
  <2> QED
    BY <1>0, <2>1, <2>2, Zenon DEF Fresh, Idle
<1>13. ASSUME NEW c \in Clients, Handlers(c) PROVE Fresh(d)'
  <2>1. 0 \in Nodes /\ \A n \in Slaves : n \in Nodes
    BY ConstantsAssumption DEF Nodes, Slaves
  <2> QED
    BY <1>7, <1>8, <1>9, <1>10, <1>11, <1>12, <1>13, <2>1, ResponseHandlers, Zenon
    DEF Handlers, ReqSend, ReplicaReqSend
<1>14. CASE UNCHANGED vars
  BY <1>1, <1>14, Zenon DEF vars, proxyVars, clientVars, netVars, SameLink
<1> QED
  BY <1>3, <1>4, <1>5, <1>6, <1>13, <1>14, Zenon DEF Next

LEMMA WakeInductive ==
  /\ Init => WakeInv
  /\ WakeInv /\ [Next]_vars => WakeInv'
  /\ WakeInv => NoLostWakeup
<1>1. ASSUME Init PROVE WakeInv
  <2>1. /\ TypeOK /\ \A l \in Links : LinkWakes(l)
        /\ \A c \in Clients : ClientWakes(c)
    BY <1>1, InitTypeOK DEF Init, LinkWakes, ClientWakes
  <2>2. \A c \in Clients : Fresh(c)
    BY <1>1 DEF Init, Fresh, Idle, Links
  <2> QED
    BY <2>1, <2>2 DEF WakeInv
<1>2. ASSUME WakeInv, [Next]_vars PROVE WakeInv'
  BY <1>2, NextTypeOK, NextWakes, NextFresh, Zenon DEF WakeInv
<1>3. WakeInv => NoLostWakeup
  BY Zenon DEF WakeInv, NoLostWakeup, LinkWakes, ClientWakes
<1> QED
  BY <1>1, <1>2, <1>3

\* A link or client with something queued has its write event registered,
\* however many requests a client pipelines and whatever fails.
THEOREM NoLostWakeupHolds == Spec => []NoLostWakeup
  BY WakeInductive, PTL DEF Spec

-----------------------------------------------------------------------------
(* Linearizability: with closed-loop clients ChainRepl implements AtomicKV.*)

\* Request r of client c is somewhere before the tail has handled it.
Asked(c, r) ==
  \/ toProxy[c] = <<r>>
  \/ \E n \in Nodes : imsg[<<c, n>>] = <<r>> \/ toDl[<<c, n>>] = <<r>>
  \/ \E n \in Nodes \ {Replicas} : omsg[<<c, n>>] = <<r>>
\* Answer a of the tail is on its way to client c.
Answered(c, a) ==
  fromDl[<<c, Replicas>>] = <<a>> \/ cimsg[c] = <<<<a>>>> \/ toClient[c] = <<a>>

\* r is the one request of c the tail has not handled; a is the answer of the
\* tail that c has not read.
Pending(c, r) ==
  /\ Len(lin[c]) = Len(answers[c]) /\ Len(issued[c]) = Len(answers[c]) + 1
  /\ issued[c][Len(answers[c]) + 1] = r
Executed(c, a) ==
  Len(lin[c]) = Len(answers[c]) + 1 /\ lin[c][Len(answers[c]) + 1] = a

LinOK(c) ==
  /\ Len(answers[c]) <= Len(lin[c]) /\ Len(lin[c]) <= Len(issued[c])
  /\ \A r \in Requests : Asked(c, r) => Pending(c, r)
  /\ \A a \in Responses : Answered(c, a) => Executed(c, a)
LinInv == Inv /\ \A c \in Clients : LinOK(c)

LEMMA AppendLast ==
  ASSUME NEW S, NEW s \in Seq(S), NEW x \in S
  PROVE  /\ Len(Append(s, x)) = Len(s) + 1 /\ Len(s) \in Nat
         /\ Append(s, x)[Len(s) + 1] = x
  OBVIOUS

\* A step that moves the request or the answer of d, or loses it, and leaves
\* the histories alone.
LEMMA LinMoves ==
  ASSUME NEW d \in Clients, LinOK(d), lin'[d] = lin[d],
         issued'[d] = issued[d], answers'[d] = answers[d],
         \A r \in Requests : Asked(d, r)' => Asked(d, r),
         \A a \in Responses : Answered(d, a)' => Answered(d, a)
  PROVE  LinOK(d)'
<1>1. \A r \in Requests : Pending(d, r) => Pending(d, r)'
  BY Zenon DEF Pending
<1>2. \A a \in Responses : Executed(d, a) => Executed(d, a)'
  BY Zenon DEF Executed
<1> QED
  BY <1>1, <1>2, Zenon DEF LinOK

LEMMA TailNode == Replicas \in Nodes
  BY ConstantsAssumption DEF Nodes

LEMMA LinSame ==
  ASSUME NEW d \in Clients, LinOK(d), SameClient(d), lin'[d] = lin[d]
  PROVE  LinOK(d)'
<1>1. ASSUME NEW r \in Requests, Asked(d, r)' PROVE Asked(d, r)
  BY <1>1, Zenon DEF Asked, SameClient, SameLink
<1>2. Replicas \in Nodes
  BY TailNode, Zenon
<1>3. ASSUME NEW a \in Responses, Answered(d, a)' PROVE Answered(d, a)
  BY <1>2, <1>3, Zenon DEF Answered, SameClient, SameLink
<1> QED
  BY <1>1, <1>3, LinMoves, Zenon DEF SameClient

\* A step of the service, as AtomicKV sees it.
Stutters == store'[Replicas] = store[Replicas] /\ UNCHANGED <<issued, lin, answers>>
Linearized ==
  /\ \A d \in Clients : LinOK(d)'
  /\ Stutters \/ Atomic!Next

\* A step of c that leaves the other clients and the histories alone.
LEMMA LinStep ==
  ASSUME LinInv, NEW c \in Clients, Stutters, \A d \in Clients \ {c} : SameClient(d),
         \A r \in Requests : Asked(c, r)' => Asked(c, r),
         \A a \in Responses : Answered(c, a)' => Answered(c, a)
  PROVE  Linearized
<1>1. ASSUME NEW d \in Clients PROVE LinOK(d)'
  <2>1. LinOK(d) /\ lin'[d] = lin[d] /\ issued'[d] = issued[d] /\ answers'[d] = answers[d]
    BY Zenon DEF LinInv, Stutters
  <2>2. CASE d = c
    BY <2>1, <2>2, LinMoves, Zenon
  <2>3. CASE d # c
    BY <2>1, <2>3, LinSame, Zenon
  <2> QED
    BY <2>2, <2>3
<1> QED
  BY <1>1, Zenon DEF Linearized

\* The client sends a request: it is invoked.
LEMMA IssueLin ==
  ASSUME LinInv, Window = 1, NEW c \in Clients, Issue(c)
  PROVE  Linearized
<1>1. PICK r \in Requests :
        /\ issued' = [issued EXCEPT ![c] = Append(@, r)]
        /\ toProxy' = [toProxy EXCEPT ![c] = Append(@, r)]
  <2>1. PICK o \in Ops, k \in Keys :
          LET r == [cl |-> c, seq |-> Len(issued[c]) + 1, op |-> o, key |-> k]
          IN /\ issued' = [issued EXCEPT ![c] = Append(@, r)]
             /\ toProxy' = [toProxy EXCEPT ![c] = Append(@, r)]
    BY Zenon DEF Issue
  <2>2. [cl |-> c, seq |-> Len(issued[c]) + 1, op |-> o, key |-> k] \in Requests
    <3>0. issued \in [Clients -> Seq(Requests)] /\ Len(issued[c]) < MaxOps
      BY Zenon DEF Issue, LinInv, Inv, TypeOK
    <3>1. Len(issued[c]) \in Nat /\ Len(issued[c]) + 1 \in 1..MaxOps
      BY <3>0, ConstantsAssumption
    <3> QED
      BY <3>1 DEF Requests
  <2> QED
    BY <2>1, <2>2, Zenon
<1>2. /\ issued[c] \in Seq(Requests) /\ answers[c] \in Seq(Responses)
      /\ lin[c] \in Seq(Responses) /\ ClientOK(c) /\ LinOK(c)
      /\ DOMAIN issued = Clients /\ DOMAIN toProxy = Clients
  BY DEF LinInv, Inv, TypeOK, ClosedLoop
<1>3. UNCHANGED <<store, lin, answers, cimsg, toClient, fwd, imsg, omsg, toDl, fromDl>>
  BY DEF Issue, proxyVars, dlVars
<1>4. /\ Len(issued[c]) = Len(answers[c]) /\ Len(lin[c]) = Len(answers[c])
      /\ Resting(c) /\ Len(issued[c]) \in Nat
  <2>1. Len(issued[c]) \in Nat /\ Len(answers[c]) \in Nat /\ Len(lin[c]) \in Nat
    BY <1>2
  <2>2. Len(issued[c]) < Len(answers[c]) + 1
    BY DEF Issue
  <2>3. Len(answers[c]) <= Len(lin[c]) /\ Len(lin[c]) <= Len(issued[c])
    BY <1>2, Zenon DEF LinOK
  <2>4. Len(issued[c]) = Len(answers[c]) /\ Len(lin[c]) = Len(answers[c])
    BY <1>2, <2>1, <2>2, <2>3 DEF LinInv, Inv, TypeOK
  <2>5. ~(Len(issued[c]) > Len(answers[c]))
    BY <2>1, <2>4
  <2> QED
    BY <1>2, <2>1, <2>4, <2>5, Zenon DEF ClientOK
<1>5. Atomic!Invoke(c)
  BY <1>1, <1>3, <1>4, Zenon DEF Atomic!Invoke
<1>6. LinOK(c)'
  <2>1. toProxy'[c] = <<r>> /\ issued'[c] = Append(issued[c], r)
    BY <1>1, <1>2, <1>4, Singleton, Zenon DEF Resting
  <2>2. Pending(c, r)'
    <3>1. /\ Len(issued'[c]) = Len(issued[c]) + 1
          /\ issued'[c][Len(issued[c]) + 1] = r
      BY <1>2, <2>1, AppendLast
    <3> QED
      BY <1>3, <1>4, <3>1, Zenon DEF Pending
  <2>3. ASSUME NEW q \in Requests, Asked(c, q)' PROVE Pending(c, q)'
    <3>1. \A m \in Nodes : Idle(c, m)
      BY <1>4, Zenon DEF Resting
    <3>2. toProxy'[c] = <<q>>
      BY <1>3, <2>3, <3>1, Singleton, Zenon DEF Asked, Idle
    <3> QED
      BY <2>1, <2>2, <3>2, SingletonEq, Zenon
  <2>4. ASSUME NEW a \in Responses PROVE ~Answered(c, a)'
    <3>1. Replicas \in Nodes
      BY ConstantsAssumption DEF Nodes
    <3> QED
      BY <1>3, <1>4, <3>1, Singleton, Zenon DEF Answered, Resting, NoReply, Idle
  <2>5. Len(answers'[c]) <= Len(lin'[c]) /\ Len(lin'[c]) <= Len(issued'[c])
    <3>1. Len(issued'[c]) = Len(issued[c]) + 1
      BY <1>2, <2>1, AppendLast
    <3>2. \A x \in Nat : x <= x /\ x <= x + 1
      OBVIOUS
    <3> QED
      BY <1>3, <1>4, <3>1, <3>2, Zenon
  <2> QED
    BY <2>3, <2>4, <2>5, Zenon DEF LinOK
<1>7. ASSUME NEW d \in Clients, d # c PROVE LinOK(d)'
  <2>1. toProxy'[d] = toProxy[d] /\ issued'[d] = issued[d]
    BY <1>1, <1>2, <1>7, Zenon
  <2>2. SameClient(d) /\ LinOK(d) /\ lin'[d] = lin[d]
    BY <1>3, <2>1, Zenon DEF SameClient, SameLink, LinInv
  <2> QED
    BY <2>2, LinSame, Zenon
<1> QED
  BY <1>5, <1>6, <1>7, Zenon DEF Linearized, Atomic!Next

\* The client reads an answer: the call returns.
LEMMA ReadLin ==
  ASSUME LinInv, NEW c \in Clients, ClientRead(c)
  PROVE  Linearized
<1>1. PICK a \in Responses : Replying(c, a)
  BY FindReply, Zenon DEF LinInv, Inv, ClosedLoop, ClientRead, ClientOK, Phases, NoReply
<1>2. toClient[c] = <<a>> /\ cimsg[c] = <<>> /\ toProxy[c] = <<>>
      /\ \A n \in Nodes : Idle(c, n)
  BY <1>1, Zenon DEF ClientRead, Replying
<1>3. /\ answers[c] \in Seq(Responses) /\ lin[c] \in Seq(Responses) /\ LinOK(c)
      /\ issued[c] \in Seq(Requests)
      /\ DOMAIN answers = Clients /\ DOMAIN toClient = Clients
  BY DEF LinInv, Inv, TypeOK
<1>4. UNCHANGED <<store, lin, issued, toProxy, cimsg, fwd, imsg, omsg, toDl, fromDl>>
  BY Zenon DEF ClientRead, proxyVars, dlVars
<1>5. /\ answers' = [answers EXCEPT ![c] = Append(@, a)]
      /\ answers'[c] = Append(answers[c], a) /\ toClient'[c] = <<>>
  BY <1>2, <1>3, Singleton, Zenon DEF ClientRead
<1>6. Executed(c, a)
  BY <1>2, <1>3, Zenon DEF LinOK, Answered
<1>7. Atomic!Return(c)
  <2>1. Len(answers[c]) < Len(lin[c])
    BY <1>3, <1>6 DEF Executed, LinInv, Inv, TypeOK
  <2>2. answers' = [answers EXCEPT ![c] = Append(@, lin[c][Len(@) + 1])]
    BY <1>3, <1>5, <1>6, Zenon DEF Executed
  <2> QED
    BY <1>4, <2>1, <2>2, Zenon DEF Atomic!Return
<1>8. LinOK(c)'
  <2>1. ASSUME NEW r \in Requests PROVE ~Asked(c, r)'
    BY <1>2, <1>4, Singleton, Zenon DEF Asked, Idle
  <2>2. ASSUME NEW b \in Responses PROVE ~Answered(c, b)'
    <3>1. Replicas \in Nodes
      BY ConstantsAssumption DEF Nodes
    <3> QED
      BY <1>2, <1>4, <1>5, <3>1, Singleton, Zenon DEF Answered, Idle
  <2>3. Len(answers'[c]) <= Len(lin'[c]) /\ Len(lin'[c]) <= Len(issued'[c])
    <3>0. Len(answers'[c]) = Len(answers[c]) + 1
      BY <1>3, <1>5, AppendLast, Zenon
    <3>1. Len(answers'[c]) = Len(lin[c]) /\ Len(lin[c]) \in Nat
      BY <1>3, <1>6, <3>0 DEF Executed
    <3>2. Len(lin[c]) <= Len(issued[c])
      BY <1>3, Zenon DEF LinOK
    <3>3. \A x \in Nat : x <= x
      OBVIOUS
    <3> QED
      BY <1>4, <3>1, <3>2, <3>3, Zenon
  <2> QED
    BY <2>1, <2>2, <2>3, Zenon DEF LinOK
<1>9. ASSUME NEW d \in Clients, d # c PROVE LinOK(d)'
  <2>1. toClient'[d] = toClient[d] /\ answers'[d] = answers[d]
    BY <1>3, <1>5, <1>9, Zenon DEF ClientRead
  <2>2. SameClient(d) /\ LinOK(d) /\ lin'[d] = lin[d]
    BY <1>4, <2>1, Zenon DEF SameClient, SameLink, LinInv
  <2> QED
    BY <2>2, LinSame, Zenon
<1> QED
  BY <1>7, <1>8, <1>9, Zenon DEF Linearized, Atomic!Next

\* A datalet handles a request: the tail executes it.
LEMMA HandleLin ==
  ASSUME LinInv, NEW c \in Clients, NEW n \in Nodes, HandleRequest(c, n)
  PROVE  Linearized
<1>0. /\ <<c, n>> \in Links /\ Replicas \in Nodes /\ ClientOK(c) /\ Phases(c) /\ LinOK(c)
      /\ <<c, Replicas>> \in Links /\ n \in Nat /\ Replicas \in Nat
  BY ConstantsAssumption DEF Links, Nodes, LinInv, Inv, ClosedLoop, ClientOK, Phases
<1>1. PICK r \in Requests : AtNode(c, n, r) /\ toDl[<<c, n>>] = <<r>>
  BY <1>0, FindToDl, Zenon DEF HandleRequest
<1>2. /\ Head(toDl[<<c, n>>]) = r /\ Tail(toDl[<<c, n>>]) = <<>>
      /\ fromDl[<<c, n>>] = <<>> /\ imsg[<<c, n>>] = <<>>
  BY <1>1, Singleton, Zenon DEF AtNode
<1>3. UNCHANGED <<toProxy, cimsg, toClient, fwd, imsg, omsg, issued, answers>>
  BY DEF HandleRequest, proxyVars, clientVars
<1>4. /\ DOMAIN toDl = Links /\ DOMAIN fromDl = Links /\ DOMAIN lin = Clients
      /\ lin[c] \in Seq(Responses) /\ issued[c] \in Seq(Requests)
      /\ answers[c] \in Seq(Responses) /\ store \in [Nodes -> [Keys -> Values]]
  BY <1>0, Zenon DEF LinInv, Inv, TypeOK
<1>5. /\ toDl'[<<c, n>>] = <<>> /\ \A l \in Links \ {<<c, n>>} : toDl'[l] = toDl[l]
      /\ fromDl'[<<c, n>>] = <<Answer(n, r)>>
      /\ \A l \in Links \ {<<c, n>>} : fromDl'[l] = fromDl[l]
  BY <1>0, <1>2, <1>4, Singleton, Zenon DEF HandleRequest
<1>6. ASSUME NEW d \in Clients, d # c PROVE SameClient(d)
  <2>1. ASSUME NEW m \in Nodes PROVE SameLink(<<d, m>>)
    <3>1. <<d, m>> \in Links \ {<<c, n>>}
      BY <1>6 DEF Links
    <3> QED
      BY <1>3, <1>5, <3>1, Zenon DEF SameLink
  <2> QED
    BY <1>3, <2>1, Zenon DEF SameClient
<1>7. CASE n # Replicas
  <2>1. Stutters
    <3>1. store'[Replicas] = store[Replicas]
      BY <1>0, <1>4, <1>7, Zenon DEF HandleRequest
    <3> QED
      BY <1>3, <1>7, <3>1, Zenon DEF HandleRequest, Stutters
  <2>2. ASSUME NEW q \in Requests, Asked(c, q)' PROVE Asked(c, q)
    <3>1. \A m \in Nodes : toDl'[<<c, m>>] = <<q>> => toDl[<<c, m>>] = <<q>>
      BY <1>5, Singleton, Zenon DEF Links
    <3> QED
      BY <1>3, <2>2, <3>1, Zenon DEF Asked
  <2>3. <<c, Replicas>> # <<c, n>>
    BY <1>7
  <2>4. ASSUME NEW a \in Responses, Answered(c, a)' PROVE Answered(c, a)
    BY <1>0, <1>3, <1>5, <2>3, <2>4, Zenon DEF Answered
  <2> QED
    BY <1>6, <2>1, <2>2, <2>4, LinStep, Zenon
<1>8. CASE n = Replicas
  <2>1. PICK a \in Responses : a = Answer(n, r)
    <3>1. r.key \in Keys
      BY DEF Requests
    <3>2. store[n][r.key] \in Values /\ NoVal \in Values
      BY <1>4, <3>1 DEF Values
    <3>3. Answer(n, r) \in Responses
      BY <3>2, Zenon DEF Answer, Responses
    <3> QED
      BY <3>3, Zenon
  <2>2. Pending(c, r)
    BY <1>0, <1>1, Zenon DEF LinOK, Asked
  <2>3. lin' = [lin EXCEPT ![c] = Append(@, a)] /\ lin'[c] = Append(lin[c], a)
    BY <1>2, <1>4, <1>8, <2>1, Zenon DEF HandleRequest
  <2>4. Atomic!Execute(c)
    <3>1. Len(lin[c]) < Len(issued[c]) /\ issued[c][Len(lin[c]) + 1] = r
      <4>1. Len(lin[c]) \in Nat
        <5>1. PICK q \in Seq(Responses) : q = lin[c]
          BY <1>4, Zenon
        <5>2. Len(q) \in Nat
          OBVIOUS
        <5> QED
          BY <5>1, <5>2, Zenon
      <4>2. \A x \in Nat : x < x + 1
        OBVIOUS
      <4> QED
        BY <2>2, <4>1, <4>2, Zenon DEF Pending
    <3>2. store'[Replicas] = Atomic!Effect(r, store[Replicas])
      <4>1. CASE r.op = "set"
        <5>1. store' = [store EXCEPT ![Replicas][r.key] = ValueOf(r)]
          BY <1>2, <1>8, <4>1, Zenon DEF HandleRequest
        <5> QED
          BY <1>0, <1>4, <4>1, <5>1, Zenon DEF Atomic!Effect
      <4>2. CASE r.op # "set"
        BY <1>2, <4>2, Zenon DEF HandleRequest, Atomic!Effect
      <4> QED
        BY <4>1, <4>2, Zenon
    <3>3. a = Atomic!Answer(r, store[Replicas])
      BY <1>8, <2>1, Zenon DEF Answer, Atomic!Answer
    <3> QED
      BY <1>3, <2>3, <3>1, <3>2, <3>3, Zenon DEF Atomic!Execute
  <2>5. LinOK(c)'
    <3>1. ASSUME NEW q \in Requests PROVE ~Asked(c, q)'
      <4>1. ASSUME NEW m \in Nodes
            PROVE  imsg'[<<c, m>>] = <<>> /\ toDl'[<<c, m>>] = <<>>
                   /\ (m # Replicas => omsg'[<<c, m>>] = <<>>)
        <5>1. CASE m = n
          BY <1>2, <1>3, <1>5, <1>8, <5>1, Zenon
        <5>2. CASE m # n
          <6>1. Idle(c, m) /\ <<c, m>> \in Links \ {<<c, n>>}
            BY <1>1, <5>2, Zenon DEF AtNode, Links
          <6> QED
            BY <1>3, <1>5, <6>1, Zenon DEF Idle
        <5> QED
          BY <5>1, <5>2, Zenon
      <4>2. toProxy'[c] = <<>>
        BY <1>1, <1>3, Zenon DEF AtNode
      <4> QED
        BY <4>1, <4>2, Singleton, Zenon DEF Asked
    <3>2. Executed(c, a)'
      <4>1. Len(lin'[c]) = Len(lin[c]) + 1 /\ lin'[c][Len(lin[c]) + 1] = a
        BY <1>4, <2>3, AppendLast, ZenonT(60)
      <4> QED
        BY <1>3, <2>2, <4>1, Zenon DEF Executed, Pending
    <3>3. ASSUME NEW b \in Responses, Answered(c, b)' PROVE b = a
      <4>1. cimsg'[c] = <<>> /\ toClient'[c] = <<>>
        BY <1>1, <1>3, Zenon DEF AtNode, NoReply
      <4>2. fromDl'[<<c, Replicas>>] = <<a>>
        BY <1>5, <1>8, <2>1, Zenon
      <4> QED
        BY <3>3, <4>1, <4>2, Singleton, SingletonEq, ZenonT(60) DEF Answered
    <3>4. Len(answers'[c]) <= Len(lin'[c]) /\ Len(lin'[c]) <= Len(issued'[c])
      <4>1. Len(lin'[c]) = Len(lin[c]) + 1 /\ Len(lin[c]) \in Nat
        BY <1>4, <2>3, AppendLast, ZenonT(60)
      <4>2. \A x \in Nat : x <= x + 1 /\ x + 1 <= x + 1
        OBVIOUS
      <4> QED
        BY <1>3, <2>2, <4>1, <4>2, Zenon DEF Pending
    <3> QED
      BY <3>1, <3>2, <3>3, <3>4, Zenon DEF LinOK
  <2>6. ASSUME NEW d \in Clients, d # c PROVE LinOK(d)'
    BY <1>4, <1>6, <2>3, <2>6, LinSame, Zenon DEF LinInv
  <2> QED
    BY <2>4, <2>5, <2>6, Zenon DEF Linearized, Atomic!Next
<1> QED
  BY <1>7, <1>8

\* The request goes from the client's socket to the first node's queue.
LEMMA ReqRecvLin ==
  ASSUME LinInv, NEW c \in Clients, ReqRecv(c)
  PROVE  Linearized
<1>1. Sent(c)
  BY FindSent, Zenon DEF LinInv, Inv, ClosedLoop, ClientOK, Phases, ReqRecv
<1>2. PICK r \in Requests : toProxy[c] = <<r>>
  <2>1. toProxy[c] \in Seq(Requests) /\ Len(toProxy[c]) = 1
    BY <1>1 DEF LinInv, Inv, TypeOK, Sent
  <2> QED
    BY <2>1, LengthOne
<1>3. Head(toProxy[c]) = r /\ Tail(toProxy[c]) = <<>>
  BY <1>2, Singleton, Zenon
<1>4. PICK n \in Nodes : n = Target(r)
  BY ConstantsAssumption DEF Target, Nodes
<1>5. /\ UNCHANGED <<cimsg, toClient, omsg, toDl, fromDl, store, lin, issued, answers>>
      /\ fwd' = [fwd EXCEPT ![c] = Forwards(r)]
      /\ imsg' = [imsg EXCEPT ![<<c, n>>] = Append(@, r)]
      /\ toProxy' = [toProxy EXCEPT ![c] = Tail(@)]
  BY <1>3, <1>4, Zenon DEF ReqRecv, Forward, clientVars, dlVars
<1>6. /\ DOMAIN imsg = Links /\ DOMAIN toProxy = Clients /\ DOMAIN fwd = Clients
      /\ <<c, n>> \in Links /\ imsg[<<c, n>>] = <<>>
  BY <1>1, Zenon DEF LinInv, Inv, TypeOK, Links, Sent, Idle
<1>7. /\ imsg'[<<c, n>>] = <<r>> /\ toProxy'[c] = <<>>
      /\ \A l \in Links \ {<<c, n>>} : imsg'[l] = imsg[l]
  BY <1>3, <1>5, <1>6, Singleton, Zenon
<1>8. ASSUME NEW d \in Clients, d # c PROVE SameClient(d)
  <2>1. ASSUME NEW m \in Nodes PROVE SameLink(<<d, m>>)
    <3>1. <<d, m>> \in Links \ {<<c, n>>}
      BY <1>8 DEF Links
    <3> QED
      BY <1>5, <1>7, <3>1, Zenon DEF SameLink
  <2>2. toProxy'[d] = toProxy[d] /\ fwd'[d] = fwd[d]
    BY <1>5, <1>6, <1>8, Zenon
  <2> QED
    BY <1>5, <2>1, <2>2, Zenon DEF SameClient
<1>9. ASSUME NEW q \in Requests, Asked(c, q)' PROVE Asked(c, q)
  <2>1. ASSUME NEW m \in Nodes, imsg'[<<c, m>>] = <<q>> PROVE Asked(c, q)
    <3>1. CASE m = n
      BY <1>2, <1>7, <2>1, <3>1, SingletonEq, Zenon DEF Asked
    <3>2. CASE m # n
      <4>1. <<c, m>> \in Links \ {<<c, n>>}
        BY <3>2 DEF Links
      <4> QED
        BY <1>7, <2>1, <4>1, Zenon DEF Asked
    <3> QED
      BY <3>1, <3>2
  <2>2. toProxy'[c] # <<q>>
    BY <1>7, Singleton, Zenon
  <2> QED
    BY <1>5, <1>9, <2>1, <2>2, Zenon DEF Asked
<1>10. \A a \in Responses : Answered(c, a)' => Answered(c, a)
  BY <1>5, Zenon DEF Answered
<1>11. Stutters
  BY <1>5, Zenon DEF Stutters
<1> QED
  BY <1>8, <1>9, <1>10, <1>11, LinStep, Zenon

\* The queued request goes to the datalet, or is lost.
LEMMA SendLin ==
  ASSUME LinInv, NEW c \in Clients, NEW n \in Nodes, SendHead(<<c, n>>)
  PROVE  Linearized
<1>1. /\ UNCHANGED <<toProxy, cimsg, toClient, fwd, fromDl, store, lin, issued, answers>>
      /\ <<c, n>> \in Links /\ DOMAIN imsg = Links /\ DOMAIN omsg = Links
      /\ DOMAIN toDl = Links /\ Phases(c)
  BY Zenon DEF SendHead, clientVars, dlVars, Links, LinInv, Inv, TypeOK, ClosedLoop, ClientOK, Phases
<1>2. Stutters /\ \A a \in Responses : Answered(c, a)' => Answered(c, a)
  BY <1>1, Zenon DEF Stutters, Answered
<1>3. CASE imsg[<<c, n>>] = <<>>
  <2>1. UNCHANGED <<imsg, omsg, toDl>>
    BY <1>3, Zenon DEF SendHead
  <2>2. \A r \in Requests : Asked(c, r)' => Asked(c, r)
    BY <1>1, <2>1, Zenon DEF Asked
  <2>3. \A d \in Clients : SameClient(d)
    BY <1>1, <2>1, Zenon DEF SameClient, SameLink
  <2> QED
    BY <1>2, <2>2, <2>3, LinStep, Zenon
<1>4. CASE imsg[<<c, n>>] # <<>>
  <2>1. PICK r \in Requests : AtNode(c, n, r) /\ imsg[<<c, n>>] = <<r>>
    BY <1>1, <1>4, FindQueued, Zenon
  <2>2. /\ Head(imsg[<<c, n>>]) = r /\ Tail(imsg[<<c, n>>]) = <<>>
        /\ omsg[<<c, n>>] = <<>> /\ toDl[<<c, n>>] = <<>>
    BY <2>1, Singleton, Zenon DEF AtNode
  <2>3. /\ imsg' = [imsg EXCEPT ![<<c, n>>] = Tail(@)]
        /\ \/ /\ omsg' = [omsg EXCEPT ![<<c, n>>] = Append(@, r)]
              /\ toDl' = [toDl EXCEPT ![<<c, n>>] = Append(@, r)]
           \/ UNCHANGED <<omsg, toDl>>
    BY <1>4, <2>2, Zenon DEF SendHead
  <2>4. /\ imsg'[<<c, n>>] = <<>>
        /\ omsg'[<<c, n>>] \in {<<>>, <<r>>} /\ toDl'[<<c, n>>] \in {<<>>, <<r>>}
        /\ \A l \in Links \ {<<c, n>>} :
             imsg'[l] = imsg[l] /\ omsg'[l] = omsg[l] /\ toDl'[l] = toDl[l]
    BY <1>1, <2>2, <2>3, Singleton, ZenonT(60)
  <2>5. ASSUME NEW q \in Requests, Asked(c, q)' PROVE Asked(c, q)
    <3>1. ASSUME NEW m \in Nodes,
                 \/ imsg'[<<c, m>>] = <<q>> \/ toDl'[<<c, m>>] = <<q>>
                 \/ m # Replicas /\ omsg'[<<c, m>>] = <<q>>
          PROVE  Asked(c, q)
      <4>1. CASE m = n
        <5>1. q = r
          BY <2>4, <3>1, <4>1, Singleton, SingletonEq, Zenon
        <5> QED
          BY <2>1, <5>1, Zenon DEF Asked
      <4>2. CASE m # n
        <5>1. <<c, m>> \in Links \ {<<c, n>>}
          BY <4>2 DEF Links
        <5> QED
          BY <2>4, <3>1, <5>1, Zenon DEF Asked
      <4> QED
        BY <4>1, <4>2
    <3> QED
      BY <1>1, <2>5, <3>1, Zenon DEF Asked
  <2>6. ASSUME NEW d \in Clients, d # c PROVE SameClient(d)
    <3>1. ASSUME NEW m \in Nodes PROVE SameLink(<<d, m>>)
      <4>1. <<d, m>> \in Links \ {<<c, n>>}
        BY <2>6 DEF Links
      <4> QED
        BY <1>1, <2>4, <4>1, Zenon DEF SameLink
    <3> QED
      BY <1>1, <3>1, Zenon DEF SameClient
  <2> QED
    BY <1>2, <2>5, <2>6, LinStep, Zenon
<1> QED
  BY <1>3, <1>4

\* The request is handed on, or the tail's answer goes to the client's queue.
LEMMA RespondedLin ==
  ASSUME LinInv, NEW c \in Clients, NEW n \in Nodes, Responded(c, n)
  PROVE  Linearized
<1>0. Inv /\ <<c, n>> \in Links /\ Replicas \in Nodes /\ <<c, Replicas>> \in Links
      /\ DOMAIN imsg = Links /\ DOMAIN cimsg = Clients
  <2>1. Replicas \in Nodes
    BY ConstantsAssumption DEF Nodes
  <2> QED
    BY <2>1, Zenon DEF LinInv, Links, Inv, TypeOK
<1>1. PICK r \in Requests, a \in Responses :
           /\ HasRead(c, n, r, a) /\ fromDl[<<c, n>>] = <<a>>
           /\ \/ /\ fwd[c] /\ n # Replicas /\ UNCHANGED cimsg
                 /\ Forward(<<c, n + 1>>, r)
              \/ (fwd[c] => n = Replicas) /\ UNCHANGED imsg /\ Reply(c, <<a>>)
              \/ ~fwd[c] /\ UNCHANGED <<imsg, cimsg>>
  BY <1>0, RespondedOne, Zenon
<1>2. /\ fromDl'[<<c, n>>] = <<>> /\ omsg'[<<c, n>>] = <<>>
      /\ \A j \in Links \ {<<c, n>>} : fromDl'[j] = fromDl[j] /\ omsg'[j] = omsg[j]
      /\ UNCHANGED <<toProxy, toClient, toDl>>
      /\ omsg[<<c, n>>] = <<r>> /\ AtNode(c, n, r) /\ NoReply(c)
      /\ \A m \in Nodes \ {n} : Idle(c, m)
  BY <1>0, <1>1, AfterRead, Zenon DEF HasRead
<1>3. Stutters
  BY Zenon DEF Stutters, Responded, clientVars, dlVars
<1>4. \A m \in Nodes : \A x : x # <<>> =>
        /\ omsg'[<<c, m>>] = x => omsg[<<c, m>>] = x
        /\ fromDl'[<<c, m>>] = x => fromDl[<<c, m>>] = x
  BY <1>2, Zenon DEF Links
<1>7. \A q \in Requests : \A m \in Nodes : omsg'[<<c, m>>] = <<q>> => omsg[<<c, m>>] = <<q>>
  BY <1>4, Singleton, Zenon
<1>5. CASE UNCHANGED imsg
  <2>1. \A q \in Requests : Asked(c, q)' => Asked(c, q)
    BY <1>2, <1>5, <1>7, Zenon DEF Asked
  <2>2. ASSUME NEW d \in Clients, d # c, cimsg'[d] = cimsg[d] PROVE SameClient(d)
    BY <1>0, <1>1, <1>5, <2>2, LinksIdle, Zenon DEF SameClient, HasRead
  <2>3. CASE UNCHANGED cimsg
    <3>1. \A b \in Responses : Answered(c, b)' => Answered(c, b)
      BY <1>0, <1>2, <1>4, <2>3, Singleton, Zenon DEF Answered
    <3> QED
      BY <1>3, <2>1, <2>2, <2>3, <3>1, LinStep, Zenon
  <2>4. CASE (fwd[c] => n = Replicas) /\ Reply(c, <<a>>)
    <3>1. n = Replicas
      BY <1>2, <2>4, Zenon DEF AtNode
    <3>2. /\ cimsg'[c] = <<<<a>>>>
          /\ \A d \in Clients \ {c} : cimsg'[d] = cimsg[d]
      BY <1>0, <1>2, <2>4, Singleton, Zenon DEF Reply, NoReply
    <3>3. ASSUME NEW b \in Responses, Answered(c, b)' PROVE Answered(c, b)
      <4>1. toClient'[c] # <<b>> /\ fromDl'[<<c, Replicas>>] # <<b>>
        BY <1>2, <3>1, Singleton, Zenon DEF NoReply
      <4>2. <<<<a>>>> = <<<<b>>>>
        BY <3>2, <3>3, <4>1, Zenon DEF Answered
      <4>3. <<a>> = <<b>>
        BY <4>2, SingletonEq
      <4> QED
        BY <1>1, <3>1, <4>3, Zenon DEF Answered
    <3> QED
      BY <1>3, <2>1, <2>2, <3>2, <3>3, LinStep, Zenon
  <2> QED
    BY <1>1, <1>5, <2>3, <2>4, Singleton, Zenon DEF Forward, Reply
<1>6. CASE n # Replicas /\ UNCHANGED cimsg /\ Forward(<<c, n + 1>>, r)
  <2>1. n + 1 \in Nodes /\ <<c, n + 1>> \in Links /\ <<c, n + 1>> # <<c, n>>
    BY <1>6, NodeFacts DEF Links
  <2>2. /\ imsg'[<<c, n + 1>>] = <<r>>
        /\ \A l \in Links \ {<<c, n + 1>>} : imsg'[l] = imsg[l]
    <3>1. imsg[<<c, n + 1>>] = <<>>
      BY <1>2, <2>1, Zenon DEF Idle
    <3> QED
      BY <1>0, <1>6, <2>1, <3>1, Singleton, Zenon DEF Forward
  <2>3. ASSUME NEW q \in Requests, Asked(c, q)' PROVE Asked(c, q)
    <3>1. ASSUME NEW m \in Nodes, imsg'[<<c, m>>] = <<q>> PROVE Asked(c, q)
      <4>1. CASE m = n + 1
        BY <1>2, <1>6, <2>2, <3>1, <4>1, SingletonEq, Zenon DEF Asked
      <4>2. CASE m # n + 1
        <5>1. <<c, m>> \in Links \ {<<c, n + 1>>}
          BY <4>2 DEF Links
        <5> QED
          BY <2>2, <3>1, <5>1, Zenon DEF Asked
      <4> QED
        BY <4>1, <4>2
    <3> QED
      BY <1>2, <1>7, <2>3, <3>1, Zenon DEF Asked
  <2>4. \A b \in Responses : Answered(c, b)' => Answered(c, b)
    BY <1>0, <1>2, <1>4, <1>6, Singleton, Zenon DEF Answered
  <2>5. ASSUME NEW d \in Clients, d # c PROVE SameClient(d)
    <3>1. ASSUME NEW m \in Nodes PROVE SameLink(<<d, m>>)
      <4>1. <<d, m>> \in Links /\ <<d, m>> # <<c, n>> /\ <<d, m>> # <<c, n + 1>>
        BY <2>5 DEF Links
      <4> QED
        BY <1>2, <2>2, <4>1, Zenon DEF SameLink
    <3> QED
      BY <1>1, <1>6, <3>1, Zenon DEF SameClient, HasRead
  <2> QED
    BY <1>3, <2>3, <2>4, <2>5, LinStep, Zenon
<1> QED
  BY <1>1, <1>5, <1>6, Zenon

LEMMA FailLin ==
  ASSUME LinInv, NEW c \in Clients, NEW n \in Nodes, RspRecvFail(c, n)
  PROVE  Linearized
<1>1. /\ UNCHANGED <<toProxy, cimsg, toClient, fwd, imsg, omsg, toDl>>
      /\ <<c, n>> \in Links /\ fromDl'[<<c, n>>] = <<>>
      /\ \A k \in Links \ {<<c, n>>} : fromDl'[k] = fromDl[k]
  BY Zenon DEF RspRecvFail, clientVars, dlVars, Links, LinInv, Inv, TypeOK
<1>2. Stutters /\ Replicas \in Nodes
  BY ConstantsAssumption DEF Stutters, RspRecvFail, clientVars, dlVars, Nodes
<1>3. \A d \in Clients \ {c} : SameClient(d)
  BY <1>1, <1>2, Zenon DEF SameClient, SameLink, Links, Stutters
<1>4. \A r \in Requests : Asked(c, r)' => Asked(c, r)
  BY <1>1, Zenon DEF Asked
<1>5. \A a \in Responses : Answered(c, a)' => Answered(c, a)
  BY <1>1, <1>2, Singleton, Zenon DEF Answered, Links
<1> QED
  BY <1>2, <1>3, <1>4, <1>5, LinStep, Zenon

LEMMA EofLin ==
  ASSUME LinInv, NEW c \in Clients, ReqRecvEof(c)
  PROVE  Linearized
<1>1. /\ UNCHANGED <<cimsg, toClient, fwd, imsg, omsg, toDl, fromDl>>
      /\ toProxy'[c] = <<>> /\ \A d \in Clients \ {c} : toProxy'[d] = toProxy[d]
  BY Zenon DEF ReqRecvEof, clientVars, LinInv, Inv, TypeOK
<1>2. Stutters
  BY Zenon DEF Stutters, ReqRecvEof, clientVars, dlVars
<1>3. \A d \in Clients \ {c} : SameClient(d)
  BY <1>1, <1>2, Zenon DEF SameClient, SameLink, Stutters
<1>4. \A r \in Requests : Asked(c, r)' => Asked(c, r)
  BY <1>1, Singleton, Zenon DEF Asked
<1>5. \A a \in Responses : Answered(c, a)' => Answered(c, a)
  BY <1>1, Zenon DEF Answered
<1> QED
  BY <1>2, <1>3, <1>4, <1>5, LinStep, Zenon

\* The answer is written to the client's socket, or lost.
LEMMA RspSendLin ==
  ASSUME LinInv, NEW c \in Clients, RspSend(c)
  PROVE  Linearized
<1>1. /\ UNCHANGED <<toProxy, fwd, imsg, omsg, toDl, fromDl>>
      /\ DOMAIN cimsg = Clients /\ DOMAIN toClient = Clients /\ Phases(c)
  BY Zenon DEF RspSend, clientVars, LinInv, Inv, TypeOK, ClosedLoop, ClientOK, Phases
<1>2. Stutters
  BY Zenon DEF Stutters, RspSend, clientVars, dlVars
<1>3. ASSUME NEW d \in Clients, d # c PROVE SameClient(d)
  <2>1. /\ cimsg' \in {cimsg, [cimsg EXCEPT ![c] = Tail(@)]}
        /\ toClient' \in {toClient, [toClient EXCEPT ![c] = @ \o Head(cimsg[c])]}
    BY Zenon DEF RspSend
  <2>2. cimsg'[d] = cimsg[d] /\ toClient'[d] = toClient[d]
    BY <1>1, <1>3, <2>1
  <2> QED
    BY <1>1, <1>2, <2>2, Zenon DEF SameClient, SameLink, Stutters
<1>4. \A r \in Requests : Asked(c, r)' => Asked(c, r)
  BY <1>1, Zenon DEF Asked
<1>5. ASSUME NEW b \in Responses, Answered(c, b)' PROVE Answered(c, b)
  <2>1. CASE cimsg[c] = <<>>
    BY <1>1, <1>5, <2>1, Zenon DEF RspSend, Answered
  <2>2. CASE cimsg[c] # <<>>
    <3>1. PICK a \in Responses : Replying(c, a)
      BY <1>1, <2>2, FindReply, Zenon DEF NoReply
    <3>2. cimsg[c] = <<<<a>>>> /\ toClient[c] = <<>>
      BY <2>2, <3>1, Zenon DEF Replying
    <3>3. Head(cimsg[c]) = <<a>> /\ Tail(cimsg[c]) = <<>> /\ <<>> \o <<a>> = <<a>>
      BY <3>2, Singleton, Zenon
    <3>4. cimsg'[c] = <<>>
      BY <1>1, <2>2, <3>3, Zenon DEF RspSend
    <3>5. toClient' \in {toClient, [toClient EXCEPT ![c] = @ \o Head(cimsg[c])]}
      BY Zenon DEF RspSend
    <3>6. toClient'[c] \in {<<>>, <<a>>}
      BY <1>1, <3>2, <3>3, <3>5
    <3>7. CASE toClient'[c] = <<b>>
      <4>1. <<a>> = <<b>>
        BY <3>6, <3>7, Singleton, Zenon
      <4> QED
        BY <3>2, <4>1, Zenon DEF Answered
    <3>8. CASE fromDl'[<<c, Replicas>>] = <<b>>
      BY <1>1, <3>8, Zenon DEF Answered
    <3> QED
      BY <1>5, <3>4, <3>7, <3>8, Singleton, Zenon DEF Answered
  <2> QED
    BY <2>1, <2>2
<1> QED
  BY <1>2, <1>3, <1>4, <1>5, LinStep, Zenon

LEMMA NextLin ==
  ASSUME LinInv, Window = 1, [Next]_vars
  PROVE  Linearized
<1>1. ASSUME UNCHANGED <<toProxy, cimsg, toClient, fwd, imsg, omsg, toDl, fromDl>>,
             UNCHANGED <<store, lin, issued, answers>>
      PROVE  Linearized
  <2>1. Stutters /\ \A d \in Clients : SameClient(d) /\ lin'[d] = lin[d]
    BY <1>1, Zenon DEF Stutters, SameClient, SameLink
  <2> QED
    BY <2>1, LinSame, Zenon DEF Linearized, LinInv
<1>2. ASSUME NEW c \in Clients, Accept(c) \/ ClientClose(c) PROVE Linearized
  BY <1>1, <1>2, Zenon DEF Accept, ClientClose, proxyVars, netVars, dlVars
<1>3. ASSUME NEW n \in CanFail, DataletStop(n) PROVE Linearized
  BY <1>1, <1>3, Zenon DEF DataletStop, proxyVars, clientVars, netVars
<1>4. CASE UNCHANGED vars
  BY <1>1, <1>4, Zenon DEF vars, proxyVars, clientVars, netVars, dlVars
<1>5. ASSUME NEW c \in Clients, Handlers(c) PROVE Linearized
  <2>1. 0 \in Nodes /\ \A n \in Slaves : n \in Nodes
    BY ConstantsAssumption DEF Nodes, Slaves
  <2> QED
    BY <1>5, <2>1, ReqRecvLin, EofLin, SendLin, RespondedLin, FailLin, RspSendLin,
       ResponseHandlers, Zenon DEF Handlers, ReqSend, ReplicaReqSend
<1> QED
  BY <1>2, <1>3, <1>4, <1>5, IssueLin, ReadLin, HandleLin, Zenon DEF Next

LEMMA InitLin == Init => LinInv /\ Atomic!Init
<1> SUFFICES ASSUME Init PROVE LinInv /\ Atomic!Init
  OBVIOUS
<1>1. Replicas \in Nodes
  BY ConstantsAssumption DEF Nodes
<1>2. Atomic!Init
  BY <1>1 DEF Init, Atomic!Init
<1>3. ASSUME NEW c \in Clients PROVE LinOK(c)
  <2>1. /\ lin[c] = <<>> /\ issued[c] = <<>> /\ answers[c] = <<>>
        /\ toProxy[c] = <<>> /\ cimsg[c] = <<>> /\ toClient[c] = <<>>
        /\ \A n \in Nodes : Idle(c, n)
    BY DEF Init, Idle, Links
  <2>2. \A r \in Requests : ~Asked(c, r)
    BY <2>1, Singleton, Zenon DEF Asked, Idle
  <2>3. \A a \in Responses : ~Answered(c, a)
    BY <1>1, <2>1, Singleton, Zenon DEF Answered, Idle
  <2>4. Len(<<>>) <= Len(<<>>)
    OBVIOUS
  <2> QED
    BY <2>1, <2>2, <2>3, <2>4, Zenon DEF LinOK
<1> QED
  BY <1>2, <1>3, InitInv DEF LinInv

\* With closed-loop clients the service is linearizable (see
\* ImplementsAtomicKV), whatever datalets stop and whatever clients leave.
THEOREM Linearizable == ASSUME Window = 1 PROVE Spec => ImplementsAtomicKV
<1>1. LinInv /\ [Next]_vars => LinInv' /\ [Atomic!Next]_(Atomic!vars)
  <2> SUFFICES ASSUME LinInv, [Next]_vars
               PROVE  LinInv' /\ (Atomic!Next \/ UNCHANGED Atomic!vars)
    OBVIOUS
  <2>1. Linearized /\ Inv'
    BY NextLin, NextInv DEF LinInv
  <2>2. Stutters => UNCHANGED Atomic!vars
    BY Zenon DEF Stutters, Atomic!vars
  <2> QED
    BY <2>1, <2>2, Zenon DEF Linearized, LinInv
<1> QED
  BY <1>1, InitLin, PTL DEF Spec, ImplementsAtomicKV, Atomic!Spec

-----------------------------------------------------------------------------
(* Agreement on the keys that one client alone writes.                     *)

\* Client c's set r has been stored by node n - 1 and not yet by node n.
Halfway(c, n, r) ==
  /\ r.op = "set"
  /\ \/ omsg[<<c, n - 1>>] = <<r>> /\ fromDl[<<c, n - 1>>] # <<>>
     \/ imsg[<<c, n>>] = <<r>>
     \/ toDl[<<c, n>>] = <<r>>
HalfwayOf(k, c, n, r) == r.key = k /\ Halfway(c, n, r)

OneWriter(k) == \A c, d \in Writers(k) : c = d

\* Two nodes differ on k only while a set of k is on its way between them, and
\* the node it comes from holds its value.
KeyOK(k) ==
  /\ \A n, m \in Nodes : n < m /\ store[n][k] # store[m][k]
       => \E j \in (n + 1)..m, c \in Clients, r \in Requests : HalfwayOf(k, c, j, r)
  /\ \A n \in Slaves, c \in Clients, r \in Requests :
       HalfwayOf(k, c, n, r) => store[n - 1][k] = ValueOf(r)
Own == \A c \in Clients : \A r \in Range(issued[c]) : r.cl = c
AgreeInv ==
  /\ LinInv /\ LinksInv /\ Own
  /\ down = {} => \A k \in Keys : OneWriter(k) => KeyOK(k)

LEMMA SlaveFacts ==
  /\ \A n \in Slaves : n \in Nodes /\ n - 1 \in Nodes /\ n - 1 # Replicas /\ n # 0
                       /\ n # n - 1 /\ n - 1 + 1 = n
  /\ \A n \in Nodes \ {Replicas} : n + 1 \in Slaves /\ n + 1 - 1 = n
  BY ConstantsAssumption DEF Slaves, Nodes

LEMMA Below ==
  ASSUME NEW i \in Nodes, NEW n \in Nodes, n < i
  PROVE  /\ i \in Slaves /\ i - 1 \in Nodes /\ n \in Nodes \ {i}
         /\ (n # i - 1 => n < i - 1) /\ ~(i \in (n + 1)..(i - 1))
  BY ConstantsAssumption DEF Nodes, Slaves

\* A request on its way along a client's links is one that client issued.
LEMMA AskedOwn ==
  ASSUME LinInv, Own, NEW c \in Clients, NEW r \in Requests, Asked(c, r)
  PROVE  r.cl = c
<1>0. issued[c] \in Seq(Requests) /\ answers[c] \in Seq(Responses)
  BY Zenon DEF LinInv, Inv, TypeOK
<1>1. Pending(c, r) /\ issued[c] \in Seq(Requests) /\ Len(answers[c]) \in Nat
  <2>1. Pending(c, r)
    BY Zenon DEF LinInv, LinOK
  <2>2. Len(answers[c]) \in Nat
    BY <1>0
  <2> QED
    BY <1>0, <2>1, <2>2
<1>2. /\ issued[c][Len(answers[c]) + 1] = r
      /\ Len(issued[c]) = Len(answers[c]) + 1
  BY <1>1, Zenon DEF Pending
<1>3. Len(answers[c]) + 1 \in DOMAIN issued[c]
  BY <1>1, <1>2 DEF LinInv, Inv, TypeOK
<1> QED
  BY <1>2, <1>3, Zenon DEF Own, Range

LEMMA HalfwayAsked ==
  ASSUME NEW c \in Clients, NEW n \in Slaves, NEW r \in Requests, Halfway(c, n, r)
  PROVE  Asked(c, r)
  BY SlaveFacts, Zenon DEF Halfway, Asked

\* The client of a set on its way is one of the key's writers.
LEMMA HalfwayWriter ==
  ASSUME AgreeInv, NEW c \in Clients, NEW n \in Slaves, NEW r \in Requests,
         Halfway(c, n, r)
  PROVE  c \in Writers(r.key)
<1>1. /\ n \in Nodes /\ n - 1 \in Nodes /\ LinkOK(c, n) /\ LinkOK(c, n - 1)
  BY SlaveFacts DEF AgreeInv, LinksInv
<1>2. r \in Queued(c, n) \cup Queued(c, n - 1)
  <2>1. Range(<<r>>) = {r}
    BY Singleton, Zenon
  <2> QED
    BY <2>1, Zenon DEF Halfway, Queued
<1>3. r \in Range(klog)
  BY <1>1, <1>2, Zenon DEF LinkOK, Fine, Halfway
<1>4. r.cl = c
  BY HalfwayAsked, AskedOwn DEF AgreeInv
<1> QED
  BY <1>3, <1>4 DEF Writers

\* A request at the datalet of node i is the only one of its client.
LEMMA OnlyOne ==
  ASSUME Inv, NEW c \in Clients, NEW i \in Nodes, NEW q \in Requests,
         toDl[<<c, i>>] = <<q>>, NEW n \in Slaves, NEW r \in Requests, Halfway(c, n, r)
  PROVE  n = i /\ r = q
<1>1. PICK x \in Requests : AtNode(c, i, x) /\ toDl[<<c, i>>] = <<x>>
  BY FindToDl, Singleton, Zenon DEF Inv, ClosedLoop, ClientOK, Phases
<1>2. x = q
  BY <1>1, SingletonEq, Zenon
<1>3. /\ imsg[<<c, i>>] = <<>> /\ fromDl[<<c, i>>] = <<>>
      /\ \A m \in Nodes \ {i} : Idle(c, m)
  BY <1>1, Singleton, Zenon DEF AtNode
<1>4. n \in Nodes /\ n - 1 \in Nodes
  BY SlaveFacts, Zenon
<1>5. n = i /\ toDl[<<c, n>>] = <<r>>
  BY <1>3, <1>4, Singleton, Zenon DEF Halfway, Idle
<1> QED
  BY <1>5, SingletonEq, Zenon

\* What moves no request from a node to the next keeps KeyOK.
LEMMA KeySame ==
  ASSUME AgreeInv, UNCHANGED store, LogGrows, down' = {} => down = {},
         down' = {} => \A c \in Clients, n \in Slaves, r \in Requests :
                         Halfway(c, n, r)' <=> Halfway(c, n, r)
  PROVE  down' = {} => \A k \in Keys : OneWriter(k)' => KeyOK(k)'
<1> SUFFICES ASSUME down' = {}, NEW k \in Keys, OneWriter(k)' PROVE KeyOK(k)'
  OBVIOUS
<1>1. OneWriter(k)
  BY Zenon DEF OneWriter, Writers, LogGrows
<1>2. KeyOK(k)
  BY <1>1 DEF AgreeInv
<1>3. \A c \in Clients, n \in Slaves, r \in Requests :
         HalfwayOf(k, c, n, r)' <=> HalfwayOf(k, c, n, r)
  BY Zenon DEF HalfwayOf
<1>4. \A n, m \in Nodes : \A j \in (n + 1)..m : j \in Slaves
  BY ConstantsAssumption DEF Nodes, Slaves
<1>5. ASSUME NEW n \in Nodes, NEW m \in Nodes, n < m, store'[n][k] # store'[m][k]
      PROVE  \E j \in (n + 1)..m, c \in Clients, r \in Requests : HalfwayOf(k, c, j, r)'
  <2>1. PICK j \in (n + 1)..m, c \in Clients, r \in Requests : HalfwayOf(k, c, j, r)
    BY <1>2, <1>5, Zenon DEF KeyOK
  <2> QED
    BY <1>3, <1>4, <2>1, Zenon
<1>6. ASSUME NEW n \in Slaves, NEW c \in Clients, NEW r \in Requests,
             HalfwayOf(k, c, n, r)'
      PROVE  store'[n - 1][k] = ValueOf(r)
  BY <1>2, <1>3, <1>6, Zenon DEF KeyOK
<1> QED
  BY <1>5, <1>6, Zenon DEF KeyOK

\* The links of a client that a step leaves alone.
LEMMA HalfwaySame ==
  ASSUME NEW d \in Clients, \A m \in Nodes : SameLink(<<d, m>>)
  PROVE  \A n \in Slaves, r \in Requests : Halfway(d, n, r)' <=> Halfway(d, n, r)
  BY SlaveFacts, Zenon DEF Halfway, SameLink
\* The links of c at node n before and after, all others being alone.
OthersSame(c, n) == \A l \in Links \ {<<c, n>>} : SameLink(l)

LEMMA OthersHalfway ==
  ASSUME NEW c \in Clients, NEW d \in Clients, d # c, NEW n \in Nodes, OthersSame(c, n)
  PROVE  \A j \in Slaves, r \in Requests : Halfway(d, j, r)' <=> Halfway(d, j, r)
<1>1. \A m \in Nodes : <<d, m>> \in Links \ {<<c, n>>}
  BY DEF Links
<1> QED
  BY <1>1, HalfwaySame, Zenon DEF OthersSame

\* req_recv: a set starts at the master, which is no slave.
LEMMA ReqRecvHalfway ==
  ASSUME Inv, NEW c \in Clients, ReqRecv(c)
  PROVE  \A d \in Clients, j \in Slaves, q \in Requests :
           Halfway(d, j, q)' <=> Halfway(d, j, q)
<1>1. Phases(c) /\ toProxy[c] # <<>> /\ DOMAIN imsg = Links
  BY Zenon DEF Inv, ClosedLoop, ClientOK, Phases, ReqRecv, TypeOK
<1>2. \A m \in Nodes : Idle(c, m)
  BY <1>1, FindSent, Zenon DEF Sent
<1>3. PICK r \in Requests : r = Head(toProxy[c])
  BY SeqOps DEF Inv, TypeOK, ReqRecv
<1>4. Forward(<<c, Target(r)>>, r) /\ UNCHANGED <<omsg, toDl, fromDl>>
  BY <1>3, Zenon DEF ReqRecv
<1>5. Target(r) \in Nodes /\ (r.op = "set" => Target(r) = 0)
  BY ConstantsAssumption DEF Target, Forwards, Nodes
<1>6. OthersSame(c, Target(r)) /\ imsg'[<<c, Target(r)>>] = <<r>>
  <2>1. imsg[<<c, Target(r)>>] = <<>> /\ <<c, Target(r)>> \in Links
    BY <1>2, <1>5, Zenon DEF Idle, Links
  <2> QED
    BY <1>1, <1>4, <2>1, Singleton, Zenon DEF Forward, OthersSame, SameLink
<1>7. ASSUME NEW j \in Slaves, NEW q \in Requests PROVE ~Halfway(c, j, q)
  BY <1>2, <1>7, SlaveFacts, Singleton, Zenon DEF Halfway, Idle
<1>8. ASSUME NEW j \in Slaves, NEW q \in Requests, Halfway(c, j, q)' PROVE FALSE
  <2>1. imsg'[<<c, j>>] = <<q>> /\ q.op = "set"
    BY <1>2, <1>4, <1>8, SlaveFacts, Singleton, Zenon DEF Halfway, Idle
  <2>2. j = Target(r)
    <3>1. ASSUME j # Target(r) PROVE imsg'[<<c, j>>] = imsg[<<c, j>>]
      <4>1. <<c, j>> \in Links \ {<<c, Target(r)>>}
        BY <3>1, SlaveFacts DEF Links
      <4> QED
        BY <1>6, <4>1, Zenon DEF OthersSame, SameLink
    <3> QED
      BY <1>2, <2>1, <3>1, SlaveFacts, Singleton, Zenon DEF Idle
  <2>3. q = r
    BY <1>6, <2>1, <2>2, SingletonEq, Zenon
  <2> QED
    BY <1>5, <2>1, <2>2, <2>3, SlaveFacts, Zenon
<1> QED
  BY <1>5, <1>6, <1>7, <1>8, OthersHalfway, Zenon

\* req_send, replica_req_send: from imsg_q to the wire.
LEMMA SendHalfway ==
  ASSUME Inv, NEW c \in Clients, NEW n \in Nodes, SendHead(<<c, n>>), down = {}
  PROVE  \A d \in Clients, j \in Slaves, q \in Requests :
           Halfway(d, j, q)' <=> Halfway(d, j, q)
<1>1. /\ Phases(c) /\ <<c, n>> \in Links /\ UNCHANGED fromDl
      /\ DOMAIN imsg = Links /\ DOMAIN omsg = Links /\ DOMAIN toDl = Links
  BY Zenon DEF Inv, ClosedLoop, ClientOK, Phases, SendHead, TypeOK, Links
<1>2. CASE imsg[<<c, n>>] = <<>>
  <2>1. UNCHANGED <<imsg, omsg, toDl>>
    BY <1>2, Zenon DEF SendHead
  <2> QED
    BY <1>1, <2>1, HalfwaySame, Zenon DEF SameLink
<1>3. CASE imsg[<<c, n>>] # <<>>
  <2>1. PICK r \in Requests : AtNode(c, n, r) /\ imsg[<<c, n>>] = <<r>>
    BY <1>1, <1>3, FindQueued, Zenon
  <2>2. /\ omsg[<<c, n>>] = <<>> /\ toDl[<<c, n>>] = <<>> /\ fromDl[<<c, n>>] = <<>>
        /\ \A m \in Nodes \ {n} : Idle(c, m)
    BY <2>1, Singleton, Zenon DEF AtNode
  <2>3. Head(imsg[<<c, n>>]) = r /\ Tail(imsg[<<c, n>>]) = <<>>
    BY <2>1, Singleton, Zenon
  <2>4. /\ imsg' = [imsg EXCEPT ![<<c, n>>] = <<>>]
        /\ omsg' = [omsg EXCEPT ![<<c, n>>] = Append(@, r)]
        /\ toDl' = [toDl EXCEPT ![<<c, n>>] = Append(@, r)]
    BY <1>1, <1>3, <2>3, Zenon DEF SendHead
  <2>5. /\ imsg'[<<c, n>>] = <<>> /\ omsg'[<<c, n>>] = <<r>> /\ toDl'[<<c, n>>] = <<r>>
        /\ OthersSame(c, n)
    BY <1>1, <2>2, <2>4, Singleton, Zenon DEF OthersSame, SameLink
  <2>6. ASSUME NEW m \in Nodes, m # n
        PROVE  imsg'[<<c, m>>] = <<>> /\ toDl'[<<c, m>>] = <<>> /\ fromDl'[<<c, m>>] = <<>>
    <3>1. <<c, m>> \in Links \ {<<c, n>>} /\ Idle(c, m)
      BY <2>2, <2>6, Zenon DEF Links
    <3> QED
      BY <1>1, <2>5, <3>1, Zenon DEF OthersSame, SameLink, Idle
  <2>7. ASSUME NEW j \in Slaves, NEW q \in Requests
        PROVE  Halfway(c, j, q) <=> q.op = "set" /\ j = n /\ <<r>> = <<q>>
    BY <2>1, <2>2, <2>7, SlaveFacts, Singleton, ZenonT(60) DEF Halfway, Idle
  <2>8. ASSUME NEW j \in Slaves, NEW q \in Requests
        PROVE  Halfway(c, j, q)' <=> q.op = "set" /\ j = n /\ <<r>> = <<q>>
    <3>1. fromDl'[<<c, j - 1>>] = <<>>
      BY <1>1, <2>2, <2>6, SlaveFacts, Zenon
    <3> QED
      BY <2>5, <2>6, <3>1, SlaveFacts, Singleton, ZenonT(60) DEF Halfway
  <2> QED
    BY <2>5, <2>7, <2>8, OthersHalfway, ZenonT(60)
<1> QED
  BY <1>2, <1>3, Zenon

\* rsp_recv, replica_rsp_recv: from the answer of node n to imsg_q of the next.
LEMMA RespondedHalfway ==
  ASSUME Inv, NEW c \in Clients, NEW n \in Nodes, Responded(c, n)
  PROVE  \A d \in Clients, j \in Slaves, q \in Requests :
           Halfway(d, j, q)' <=> Halfway(d, j, q)
<1>1. PICK r \in Requests, a \in Responses :
           /\ HasRead(c, n, r, a) /\ fromDl[<<c, n>>] = <<a>>
           /\ \/ /\ fwd[c] /\ n # Replicas /\ UNCHANGED cimsg
                 /\ Forward(<<c, n + 1>>, r)
              \/ (fwd[c] => n = Replicas) /\ UNCHANGED imsg /\ Reply(c, <<a>>)
              \/ ~fwd[c] /\ UNCHANGED <<imsg, cimsg>>
  BY RespondedOne, Zenon
<1>2. /\ fromDl'[<<c, n>>] = <<>> /\ omsg'[<<c, n>>] = <<>> /\ UNCHANGED toDl
      /\ \A j \in Links \ {<<c, n>>} : fromDl'[j] = fromDl[j] /\ omsg'[j] = omsg[j]
      /\ omsg[<<c, n>>] = <<r>> /\ imsg[<<c, n>>] = <<>> /\ toDl[<<c, n>>] = <<>>
      /\ AtNode(c, n, r)
      /\ \A m \in Nodes \ {n} : Idle(c, m)
  BY <1>1, AfterRead, Zenon DEF HasRead
<1>3. DOMAIN imsg = Links /\ <<c, n>> \in Links
  BY Zenon DEF Inv, TypeOK, Links
<1>4. ASSUME NEW m \in Nodes PROVE fromDl'[<<c, m>>] = <<>> /\ toDl'[<<c, m>>] = <<>>
  BY <1>2, <1>3, Zenon DEF Idle, Links
<1>5. ASSUME NEW j \in Slaves, NEW q \in Requests
      PROVE  Halfway(c, j, q) <=> q.op = "set" /\ j = n + 1 /\ <<r>> = <<q>>
  <2>1. j = n + 1 <=> j - 1 = n
    BY DEF Slaves, Nodes
  <2>2. <<a>> # <<>> /\ <<q>> # <<>>
    BY Singleton, Zenon
  <2>3. imsg[<<c, j>>] = <<>> /\ toDl[<<c, j>>] = <<>>
    BY <1>2, SlaveFacts, Zenon DEF Idle
  <2>4. CASE j - 1 = n
    BY <1>1, <1>2, <2>1, <2>2, <2>3, <2>4, Zenon DEF Halfway
  <2>5. CASE j - 1 # n
    <3>1. fromDl[<<c, j - 1>>] = <<>>
      BY <1>2, <2>5, SlaveFacts, Zenon DEF Idle
    <3> QED
      BY <2>1, <2>2, <2>3, <2>5, <3>1, Zenon DEF Halfway
  <2> QED
    BY <2>4, <2>5
<1>6. ASSUME NEW j \in Slaves, NEW q \in Requests
      PROVE  Halfway(c, j, q)' <=> q.op = "set" /\ imsg'[<<c, j>>] = <<q>>
  BY <1>4, SlaveFacts, Singleton, Zenon DEF Halfway
<1>7. CASE n # Replicas /\ Forward(<<c, n + 1>>, r)
  <2>1. n + 1 \in Nodes /\ <<c, n + 1>> \in Links /\ n + 1 # n
    BY <1>7, NodeFacts DEF Links
  <2>2. imsg[<<c, n + 1>>] = <<>>
    BY <1>2, <2>1, Zenon DEF Idle
  <2>3. /\ imsg'[<<c, n + 1>>] = <<r>>
        /\ \A l \in Links \ {<<c, n + 1>>} : imsg'[l] = imsg[l]
    BY <1>3, <1>7, <2>1, <2>2, Singleton, Zenon DEF Forward
  <2>4. ASSUME NEW j \in Slaves, j # n + 1 PROVE imsg'[<<c, j>>] = <<>>
    <3>1. j \in Nodes /\ <<c, j>> \in Links \ {<<c, n + 1>>}
      BY <2>4, SlaveFacts DEF Links
    <3> QED
      BY <1>2, <2>3, <3>1, Zenon DEF Idle
  <2>5. ASSUME NEW j \in Slaves, NEW q \in Requests
        PROVE  Halfway(c, j, q)' <=> Halfway(c, j, q)
    BY <1>5, <1>6, <2>3, <2>4, Singleton, Zenon
  <2>6. ASSUME NEW d \in Clients, d # c, NEW m \in Nodes PROVE SameLink(<<d, m>>)
    <3>1. /\ <<d, m>> \in Links \ {<<c, n>>} /\ <<d, m>> \in Links \ {<<c, n + 1>>}
      BY <2>6 DEF Links
    <3> QED
      BY <1>2, <2>3, <3>1, Zenon DEF SameLink
  <2> QED
    BY <2>5, <2>6, HalfwaySame, Zenon
<1>8. CASE UNCHANGED imsg /\ (fwd[c] => n = Replicas)
  <2>1. r.op = "set" => n = Replicas
    BY <1>2, <1>8, Zenon DEF AtNode
  <2>2. ASSUME NEW j \in Slaves, NEW q \in Requests
        PROVE  ~Halfway(c, j, q)
    <3>1. n = Replicas => j # n + 1
      BY ConstantsAssumption DEF Slaves
    <3> QED
      BY <1>5, <2>1, <3>1, SingletonEq, Zenon
  <2>3. ASSUME NEW j \in Slaves, NEW q \in Requests
        PROVE  ~Halfway(c, j, q)'
    <3>1. imsg'[<<c, j>>] = <<>>
      BY <1>2, <1>8, SlaveFacts, Zenon DEF Idle
    <3> QED
      BY <1>6, <3>1, Singleton, Zenon
  <2>4. OthersSame(c, n)
    BY <1>2, <1>8, Zenon DEF OthersSame, SameLink
  <2> QED
    BY <2>2, <2>3, <2>4, OthersHalfway, Zenon
<1> QED
  BY <1>1, <1>7, <1>8, Zenon
\* handle_request at node i.  The set was on its way to i alone; now i holds it
\* and it is on its way to the next node.
LEMMA HandleAgree ==
  ASSUME AgreeInv, NEW c \in Clients, NEW i \in Nodes, HandleRequest(c, i)
  PROVE  down' = {} => \A k \in Keys : OneWriter(k)' => KeyOK(k)'
<1> SUFFICES ASSUME down' = {}, NEW k \in Keys, OneWriter(k)' PROVE KeyOK(k)'
  OBVIOUS
<1>1. Inv /\ UNCHANGED <<down, klog, imsg, omsg>>
  BY Zenon DEF AgreeInv, LinInv, HandleRequest, proxyVars
<1>2. OneWriter(k) /\ KeyOK(k)
  BY <1>1, Zenon DEF AgreeInv, OneWriter, Writers
<1>3. PICK r \in Requests : AtNode(c, i, r) /\ toDl[<<c, i>>] = <<r>>
  BY <1>1, FindToDl, Zenon DEF Inv, ClosedLoop, ClientOK, Phases, HandleRequest
<1>4. /\ omsg[<<c, i>>] = <<r>> /\ imsg[<<c, i>>] = <<>> /\ fromDl[<<c, i>>] = <<>>
      /\ \A m \in Nodes \ {i} : Idle(c, m)
  BY <1>3, Singleton, Zenon DEF AtNode
<1>5. Head(toDl[<<c, i>>]) = r /\ Tail(toDl[<<c, i>>]) = <<>>
  BY <1>3, Singleton, Zenon
<1>6. /\ toDl' = [toDl EXCEPT ![<<c, i>>] = <<>>]
      /\ fromDl' = [fromDl EXCEPT ![<<c, i>>] = Append(@, Answer(i, r))]
      /\ IF r.op = "set" THEN store' = [store EXCEPT ![i][r.key] = ValueOf(r)]
                         ELSE store' = store
  BY <1>5, Zenon DEF HandleRequest
<1>7. /\ <<c, i>> \in Links /\ DOMAIN toDl = Links /\ DOMAIN fromDl = Links
      /\ store \in [Nodes -> [Keys -> Values]]
  BY <1>1, Zenon DEF Inv, TypeOK, Links
<1>8. toDl'[<<c, i>>] = <<>> /\ fromDl'[<<c, i>>] = <<Answer(i, r)>> /\ OthersSame(c, i)
  BY <1>1, <1>4, <1>6, <1>7, Singleton, Zenon DEF OthersSame, SameLink
<1>9. ASSUME NEW j \in Slaves, NEW q \in Requests, Halfway(c, j, q) PROVE j = i /\ q = r
  BY <1>1, <1>3, <1>9, OnlyOne, Zenon
<1>10. ASSUME NEW j \in Slaves, NEW q \in Requests, Halfway(c, j, q)'
       PROVE  j - 1 = i /\ q = r
  <2>1. j \in Nodes /\ j - 1 \in Nodes /\ j # j - 1
    BY SlaveFacts
  <2>2. ASSUME NEW m \in Nodes, m # i
        PROVE  imsg'[<<c, m>>] = <<>> /\ toDl'[<<c, m>>] = <<>> /\ fromDl'[<<c, m>>] = <<>>
    <3>1. <<c, m>> \in Links \ {<<c, i>>} /\ Idle(c, m)
      BY <1>4, <2>2 DEF Links
    <3> QED
      BY <1>1, <1>8, <3>1, Zenon DEF OthersSame, SameLink, Idle
  <2>3. imsg'[<<c, j>>] = <<>> /\ toDl'[<<c, j>>] = <<>>
    BY <1>1, <1>4, <1>8, <2>1, <2>2, Zenon
  <2>4. omsg'[<<c, j - 1>>] = <<q>> /\ fromDl'[<<c, j - 1>>] # <<>>
    BY <1>10, <2>3, Singleton, Zenon DEF Halfway
  <2>5. j - 1 = i
    BY <2>1, <2>2, <2>4, Zenon
  <2> QED
    BY <1>1, <1>4, <2>4, <2>5, SingletonEq, Zenon
<1>11. \A d \in Clients \ {c}, j \in Slaves, q \in Requests :
         HalfwayOf(k, d, j, q)' <=> HalfwayOf(k, d, j, q)
  BY <1>8, OthersHalfway, Zenon DEF HalfwayOf
<1>12. \A n, m \in Nodes : \A j \in (n + 1)..m : j \in Slaves
  BY ConstantsAssumption DEF Nodes, Slaves
<1>13. CASE ~(r.op = "set" /\ r.key = k)
  <2>1. \A n \in Nodes : store'[n][k] = store[n][k]
    BY <1>6, <1>7, <1>13, ZenonT(60)
  <2>2. \A j \in Slaves, q \in Requests :
          ~HalfwayOf(k, c, j, q) /\ ~HalfwayOf(k, c, j, q)'
    BY <1>9, <1>10, <1>13, Zenon DEF HalfwayOf, Halfway
  <2>3. ASSUME NEW n \in Nodes, NEW m \in Nodes, n < m, store'[n][k] # store'[m][k]
        PROVE  \E j \in (n + 1)..m, d \in Clients, q \in Requests : HalfwayOf(k, d, j, q)'
    <3>1. PICK j \in (n + 1)..m, d \in Clients, q \in Requests : HalfwayOf(k, d, j, q)
      BY <1>2, <2>1, <2>3, Zenon DEF KeyOK
    <3>2. j \in Slaves
      BY <1>12, Zenon
    <3>3. d # c
      BY <2>2, <3>1, <3>2, Zenon
    <3> QED
      BY <1>11, <3>1, <3>2, <3>3, Zenon
  <2>4. ASSUME NEW n \in Slaves, NEW d \in Clients, NEW q \in Requests,
               HalfwayOf(k, d, n, q)'
        PROVE  store'[n - 1][k] = ValueOf(q)
    BY <1>2, <1>11, <2>1, <2>2, <2>4, SlaveFacts, ZenonT(60) DEF KeyOK
  <2> QED
    BY <2>3, <2>4, Zenon DEF KeyOK
<1>14. CASE r.op = "set" /\ r.key = k
  <2>1. /\ store'[i][k] = ValueOf(r)
        /\ \A n \in Nodes \ {i} : store'[n][k] = store[n][k]
    <3>1. store' = [store EXCEPT ![i][k] = ValueOf(r)]
      BY <1>6, <1>14, Zenon
    <3> QED
      BY <1>7, <3>1
  <2>2. c \in Writers(k)
    <3>1. r \in Range(klog)
      <4>1. r \in Queued(c, i) /\ LinkOK(c, i)
        BY <1>3, Singleton, Zenon DEF Queued, AgreeInv, LinksInv
      <4> QED
        BY <1>14, <4>1, Zenon DEF LinkOK, Fine
    <3>2. r.cl = c
      BY <1>3, AskedOwn, Zenon DEF Asked, AgreeInv
    <3> QED
      BY <1>14, <3>1, <3>2, Zenon DEF Writers
  <2>3. ASSUME NEW d \in Clients, NEW j \in Slaves, NEW q \in Requests,
               HalfwayOf(k, d, j, q)
        PROVE  d = c /\ j = i
    <3>1. d \in Writers(k)
      BY <2>3, HalfwayWriter, Zenon DEF HalfwayOf
    <3>2. d = c
      BY <1>2, <2>2, <3>1, Zenon DEF OneWriter
    <3> QED
      BY <1>9, <2>3, <3>2, Zenon DEF HalfwayOf
  <2>4. ASSUME NEW d \in Clients, NEW j \in Slaves, NEW q \in Requests,
               HalfwayOf(k, d, j, q)'
        PROVE  j - 1 = i /\ q = r
    <3>1. d = c
      BY <1>11, <2>3, <2>4, Zenon
    <3> QED
      BY <1>10, <2>4, <3>1, Zenon DEF HalfwayOf
  <2>5. ASSUME NEW n \in Nodes, NEW m \in Nodes, n < m, store[n][k] # store[m][k]
        PROVE  i \in (n + 1)..m
    <3>1. PICK j \in (n + 1)..m, d \in Clients, q \in Requests : HalfwayOf(k, d, j, q)
      BY <1>2, <2>5, Zenon DEF KeyOK
    <3> QED
      BY <1>12, <2>3, <3>1, Zenon
  <2>6. i \in Slaves => store[i - 1][k] = ValueOf(r)
    BY <1>2, <1>3, <1>14, Zenon DEF KeyOK, HalfwayOf, Halfway
  <2>7. ASSUME NEW n \in Nodes, NEW m \in Nodes, n < m, store'[n][k] # store'[m][k]
        PROVE  n <= i /\ i < m
    <3>1. CASE m = i
      <4>1. /\ i \in Slaves /\ i - 1 \in Nodes /\ n \in Nodes \ {i}
            /\ (n # i - 1 => n < i - 1) /\ ~(i \in (n + 1)..(i - 1))
        BY <2>7, <3>1, Below
      <4>2. store[n][k] = store[i - 1][k]
        BY <2>5, <4>1, Zenon
      <4> QED
        BY <2>1, <2>6, <2>7, <3>1, <4>1, <4>2, Zenon
    <3>2. CASE m # i /\ n # i
      <4>1. i \in (n + 1)..m
        BY <2>1, <2>5, <2>7, <3>2, Zenon
      <4> QED
        BY <3>2, <4>1 DEF Nodes
    <3>3. CASE n = i
      BY <2>7, <3>3 DEF Nodes
    <3> QED
      BY <3>1, <3>2, <3>3
  <2>8. ASSUME NEW n \in Nodes, NEW m \in Nodes, n < m, store'[n][k] # store'[m][k]
        PROVE  \E j \in (n + 1)..m, d \in Clients, q \in Requests : HalfwayOf(k, d, j, q)'
    <3>1. n <= i /\ i < m
      BY <2>7, <2>8, Zenon
    <3>2. PICK j \in (n + 1)..m : j - 1 = i
      <4>1. i + 1 \in (n + 1)..m /\ i + 1 - 1 = i
        BY <3>1 DEF Nodes
      <4> QED
        BY <3>1, <4>1 DEF Nodes
    <3>3. omsg'[<<c, i>>] = <<r>> /\ fromDl'[<<c, i>>] # <<>>
      BY <1>1, <1>4, <1>8, Singleton, Zenon
    <3>4. HalfwayOf(k, c, j, r)'
      BY <1>14, <3>2, <3>3, Zenon DEF HalfwayOf, Halfway
    <3> QED
      BY <3>2, <3>4, Zenon
  <2> QED
    BY <2>1, <2>4, <2>8, Zenon DEF KeyOK
<1> QED
  BY <1>13, <1>14

LEMMA NextOwn == TypeOK /\ Own /\ [Next]_vars => Own'
<1> SUFFICES ASSUME TypeOK, Own, [Next]_vars PROVE Own'
  OBVIOUS
<1>1. CASE UNCHANGED issued
  BY <1>1, Zenon DEF Own
<1>2. ASSUME NEW c \in Clients, Issue(c) PROVE Own'
  <2>1. PICK r \in Requests : r.cl = c /\ issued' = [issued EXCEPT ![c] = Append(@, r)]
    <3>0. issued \in [Clients -> Seq(Requests)] /\ Len(issued[c]) < MaxOps
      BY <1>2, Zenon DEF Issue, TypeOK
    <3>1. Len(issued[c]) \in Nat /\ Len(issued[c]) + 1 \in 1..MaxOps
      BY <3>0, ConstantsAssumption
    <3>2. \A o \in Ops, k \in Keys :
            /\ [cl |-> c, seq |-> Len(issued[c]) + 1, op |-> o, key |-> k] \in Requests
            /\ [cl |-> c, seq |-> Len(issued[c]) + 1, op |-> o, key |-> k].cl = c
      BY <3>1 DEF Requests
    <3> QED
      BY <1>2, <3>2, Zenon DEF Issue
  <2>2. issued[c] \in Seq(Requests) /\ DOMAIN issued = Clients
    BY Zenon DEF TypeOK
  <2>3. Range(Append(issued[c], r)) = Range(issued[c]) \cup {r}
    BY <2>2, RangeAppend
  <2> QED
    BY <2>1, <2>2, <2>3, Zenon DEF Own
<1>3. ASSUME NEW c \in Clients, Handlers(c) PROVE UNCHANGED issued
  BY <1>3, Zenon DEF Handlers, clientVars, ReqRecv, ReqRecvEof, ReqSend, ReplicaReqSend,
     SendHead, RspRecv, ReplicaRspRecv, RspRecvFail, RspSend
<1>4. ASSUME NEW c \in Clients, Accept(c) \/ ClientRead(c) \/ ClientClose(c)
      PROVE  UNCHANGED issued
  BY <1>4, Zenon DEF Accept, ClientRead, ClientClose
<1>5. ASSUME NEW c \in Clients, NEW n \in Nodes, HandleRequest(c, n)
      PROVE  UNCHANGED issued
  BY <1>5, Zenon DEF HandleRequest, clientVars
<1>6. ASSUME NEW n \in CanFail, DataletStop(n) PROVE UNCHANGED issued
  BY <1>6, Zenon DEF DataletStop, clientVars
<1>7. UNCHANGED vars => UNCHANGED issued
  BY Zenon DEF vars, clientVars
<1> QED
  BY <1>1, <1>2, <1>3, <1>4, <1>5, <1>6, <1>7, Zenon DEF Next

LEMMA NextAgree ==
  ASSUME AgreeInv, Window = 1, [Next]_vars
  PROVE  AgreeInv'
<1>1. LinInv' /\ LinksInv' /\ Own'
  BY NextLin, NextInv, NextLinks, NextOwn, Zenon DEF AgreeInv, LinInv, Linearized, Inv
<1>2. ASSUME UNCHANGED <<imsg, omsg, toDl, fromDl>>
      PROVE  \A c \in Clients, n \in Slaves, r \in Requests :
               Halfway(c, n, r)' <=> Halfway(c, n, r)
  BY <1>2, HalfwaySame, Zenon DEF SameLink
<1>3. Inv
  BY DEF AgreeInv, LinInv
<1> DEFINE Goal == down' = {} => \A k \in Keys : OneWriter(k)' => KeyOK(k)'
<1>4. ASSUME UNCHANGED <<store, klog, down>>,
             down = {} => \A c \in Clients, n \in Slaves, r \in Requests :
                            Halfway(c, n, r)' <=> Halfway(c, n, r)
      PROVE  Goal
  <2>1. LogGrows
    BY <1>4 DEF LogGrows
  <2> QED
    BY <1>4, <2>1, KeySame, Zenon
<1> HIDE DEF Goal
<1>5. ASSUME NEW c \in Clients,
             Accept(c) \/ Issue(c) \/ ClientRead(c) \/ ClientClose(c)
             \/ ReqRecvEof(c) \/ RspSend(c)
      PROVE  Goal
  <2>1. UNCHANGED <<store, klog, down, imsg, omsg, toDl, fromDl>>
    BY <1>5, Zenon DEF Accept, Issue, ClientRead, ClientClose, ReqRecvEof, RspSend,
       proxyVars, netVars, dlVars
  <2> QED
    BY <1>2, <1>4, <2>1, Zenon
<1>6. ASSUME UNCHANGED vars PROVE Goal
  <2>1. UNCHANGED <<store, klog, down, imsg, omsg, toDl, fromDl>>
    BY <1>6, Zenon DEF vars, proxyVars, netVars, dlVars
  <2> QED
    BY <1>2, <1>4, <2>1, Zenon
<1>7. ASSUME NEW n \in CanFail, DataletStop(n) PROVE Goal
  <2>1. down' # {}
    BY <1>7 DEF DataletStop
  <2> QED
    BY <2>1 DEF Goal
<1>8. ASSUME NEW c \in Clients, NEW n \in Nodes,
             SendHead(<<c, n>>) \/ Responded(c, n) \/ RspRecvFail(c, n)
      PROVE  Goal
  <2>1. UNCHANGED <<store, klog, down>>
    BY <1>8, Zenon DEF SendHead, Responded, RspRecvFail, dlVars
  <2>2. RspRecvFail(c, n) => down # {}
    BY DEF RspRecvFail
  <2> QED
    BY <1>3, <1>4, <1>8, <2>1, <2>2, SendHalfway, RespondedHalfway, Zenon
<1>9. ASSUME NEW c \in Clients, ReqRecv(c) PROVE Goal
  <2>1. UNCHANGED <<store, down>> /\ LogGrows
    <3>0. 0 \in Nodes
      BY ConstantsAssumption DEF Nodes
    <3>1. 0 \in Nodes /\ UNCHANGED <<store, down>>
      BY <1>9, <3>0, Zenon DEF ReqRecv, dlVars
    <3> QED
      BY <1>9, <3>1, ReqRecvLinks, Zenon DEF AgreeInv
  <2> QED
    BY <1>3, <1>9, <2>1, KeySame, ReqRecvHalfway, Zenon DEF Goal
<1>10. ASSUME NEW c \in Clients, Handlers(c) PROVE Goal
  <2>1. 0 \in Nodes /\ \A n \in Slaves : n \in Nodes
    BY ConstantsAssumption DEF Nodes, Slaves
  <2> QED
    BY <1>5, <1>8, <1>9, <1>10, <2>1, ResponseHandlers, Zenon
       DEF Handlers, ReqSend, ReplicaReqSend
<1>11. ASSUME NEW c \in Clients, NEW n \in Nodes, HandleRequest(c, n) PROVE Goal
  BY <1>11, HandleAgree, Zenon DEF Goal
<1>12. Goal
  BY <1>5, <1>6, <1>7, <1>10, <1>11, Zenon DEF Next
<1> QED
  BY <1>1, <1>12 DEF AgreeInv, Goal

LEMMA InitAgree == Init => AgreeInv
<1> SUFFICES ASSUME Init PROVE AgreeInv
  OBVIOUS
<1>1. LinInv /\ LinksInv
  BY InitLin, InitLinks
<1>2. Own
  BY DEF Init, Own, Range
<1>3. ASSUME NEW k \in Keys PROVE KeyOK(k)
  <2>1. \A n, m \in Nodes : store[n][k] = store[m][k]
    BY DEF Init
  <2>2. ASSUME NEW n \in Slaves, NEW c \in Clients, NEW r \in Requests
        PROVE  ~Halfway(c, n, r)
    <3>1. \A m \in Nodes : Idle(c, m)
      BY Zenon DEF Init, Idle, Links
    <3> QED
      BY <3>1, SlaveFacts, Singleton, Zenon DEF Halfway, Idle
  <2> QED
    BY <2>1, <2>2, Zenon DEF KeyOK, HalfwayOf
<1> QED
  BY <1>1, <1>2, <1>3 DEF AgreeInv

\* With closed-loop clients and no failures, once nothing is in flight all
\* replicas hold the same value of a key that one connection alone writes.
THEOREM SingleWriterAgreementHolds ==
  ASSUME Window = 1 PROVE Spec => []SingleWriterAgreement
<1>1. AgreeInv => SingleWriterAgreement
  <2> SUFFICES ASSUME AgreeInv, Quiet, down = {}, NEW k \in Keys,
                      \A c, d \in Writers(k) : c = d, NEW n \in Nodes
               PROVE  store[n][k] = store[0][k]
    BY Zenon DEF SingleWriterAgreement
  <2>1. KeyOK(k)
    BY DEF AgreeInv, OneWriter
  <2>2. ASSUME NEW c \in Clients, NEW j \in Slaves, NEW r \in Requests
        PROVE  ~HalfwayOf(k, c, j, r)
    <3>1. <<c, j>> \in Links /\ <<c, j - 1>> \in Links
      BY SlaveFacts, Zenon DEF Links
    <3> QED
      BY <3>1, Singleton, Zenon DEF Quiet, HalfwayOf, Halfway
  <2>3. 0 \in Nodes /\ (n = 0 \/ 0 < n) /\ \A j \in (0 + 1)..n : j \in Slaves
    BY ConstantsAssumption DEF Nodes, Slaves
  <2> QED
    BY <2>1, <2>2, <2>3, Zenon DEF KeyOK
<1>2. AgreeInv /\ [Next]_vars => AgreeInv'
  BY NextAgree
<1> QED
  BY <1>1, <1>2, InitAgree, PTL DEF Spec
=============================================================================
