--------------------------- MODULE DataletProofs ----------------------------
(***************************************************************************)
(* The hand-over of connections in a datalet, for any number of workers,   *)
(* descriptors, connections and requests: a byte in a worker's pipe stands *)
(* for a connection in its queue, and a connection is held in one place.   *)
(***************************************************************************)
EXTENDS Datalet, FiniteSetTheorems, WellFoundedInduction, TLAPS

-----------------------------------------------------------------------------
(* Numbers *)

\* The numbers among the constants.
LEMMA Numbers ==
  T \in Nat /\ T > 0 /\ F \in Nat /\ MaxConns \in Nat /\ MaxReqs \in Nat
BY DataletAssumption

\* A set of descriptors has a lowest one.
LEMMA MinIsMember ==
  ASSUME NEW S \in SUBSET Nat, S # {}
  PROVE  Min(S) \in S
<1> DEFINE R == OpToRel(<, Nat)
<1>1. IsWellFoundedOn(R, Nat)
  BY NatLessThanWellFounded, Zenon
<1>2. \A x, y \in Nat : y < x => <<y, x>> \in R
  BY DEF OpToRel
<1> HIDE DEF R
<1>3. PICK x \in S : \A y \in S : ~(<<y, x>> \in R)
  BY <1>1, WFMin, Zenon
<1>4. ASSUME NEW y \in S PROVE x =< y
  <2>1. x \in Nat /\ y \in Nat
    OBVIOUS
  <2>2. ~(y < x)
    BY <1>2, <1>3, <2>1, Zenon
  <2> QED
    BY <2>1, <2>2
<1> QED
  BY <1>4, Zenon DEF Min

\* accept returns a descriptor that is free.
LEMMA AcceptFree ==
  ASSUME {f \in Fds : file[f] = 0} # {}
  PROVE  /\ Min({f \in Fds : file[f] = 0}) \in Fds
         /\ file[Min({f \in Fds : file[f] = 0})] = 0
<1> DEFINE free == {f \in Fds : file[f] = 0}
<1>1. free \in SUBSET Nat
  BY Numbers DEF Fds
<1>2. Min(free) \in free
  BY <1>1, MinIsMember
<1> QED
  BY <1>2

\* Round robin stays among the workers.
LEMMA NextThreadType ==
  ASSUME last \in -1..T - 1
  PROVE  NextThread \in Threads
BY Numbers DEF NextThread, Threads

\* A thread that starts is one of the T that are counted.
LEMMA StartCount ==
  ASSUME NEW S, NEW R, NEW t, IsFiniteSet(S), t \in S, R = S \ {t}
  PROVE  /\ IsFiniteSet(R)
         /\ Cardinality(R) \in Nat
         /\ Cardinality(S) = Cardinality(R) + 1
<1>1. IsFiniteSet(R) /\ Cardinality(R) = Cardinality(S) - 1
  BY FS_RemoveElement
<1>2. Cardinality(R) \in Nat /\ Cardinality(S) \in Nat
  BY <1>1, FS_CardinalityType
<1> QED
  BY <1>1, <1>2

\* What is left of a queue after a pop.
LEMMA TailOf ==
  ASSUME NEW S, NEW s \in Seq(S), s # <<>>
  PROVE  /\ Tail(s) \in Seq(S) /\ Len(Tail(s)) = Len(s) - 1
         /\ Head(s) = s[1] /\ 1 \in DOMAIN s
         /\ \A i \in Nat : i \in DOMAIN Tail(s) <=> i # 0 /\ i + 1 \in DOMAIN s
         /\ \A i \in DOMAIN Tail(s) : Tail(s)[i] = s[i + 1]
OBVIOUS

-----------------------------------------------------------------------------
(* Types *)

\* The item the dispatcher hands over, the worker it goes to, and the item a
\* worker has taken.
Handed ==
  /\ dpc = "push" => item \in Items
  /\ dpc = "notify" => last \in Threads
  /\ \A t \in Threads : wpc[t] \in {"popped", "closing"} => mine[t] \in Items

\* Every request is answered, in the socket, or in Link::input.
Counted == \A c \in Conns : sent[c] = replies[c] + unread[c] + input[c]

\* The threads that have not started.
NotStarted == {t \in Threads : wpc[t] = "start"}

\* init_count counts each worker once.
Starting == initcount + Cardinality(NotStarted) <= T

TypeInv == TypeOK /\ Handed /\ Counted /\ Starting

\* The workers are finitely many.
LEMMA ThreadsFinite ==
  /\ IsFiniteSet(NotStarted) /\ Cardinality(NotStarted) \in Nat
  /\ IsFiniteSet(Threads) /\ Cardinality(Threads) = T
<1>1. IsFiniteSet(Threads) /\ Cardinality(Threads) = T
  BY Numbers, FS_Interval DEF Threads
<1>2. NotStarted \in SUBSET Threads
  BY DEF NotStarted
<1> QED
  BY <1>1, <1>2, FS_Subset, FS_CardinalityType

\* A step that starts no worker leaves the count as it is.
LEMMA StartingKept ==
  ASSUME Starting, TypeOK, initcount' = initcount,
         \A t \in Threads : wpc'[t] = "start" => wpc[t] = "start"
  PROVE  Starting'
<1>1. NotStarted' \in SUBSET NotStarted
  BY DEF NotStarted
<1>2. Cardinality(NotStarted') <= Cardinality(NotStarted) /\ Cardinality(NotStarted') \in Nat
  BY <1>1, ThreadsFinite, FS_Subset, FS_CardinalityType
<1>3. initcount \in Int
  BY DEF TypeOK
<1> QED
  BY <1>2, <1>3, ThreadsFinite, Numbers DEF Starting

\* The steps of the dispatcher keep the types.
LEMMA DispatcherType == ASSUME TypeInv, Dispatcher PROVE TypeInv'
<1> USE Numbers
<1>0. TypeOK /\ Handed /\ Counted /\ Starting
  BY DEF TypeInv
<1>1. Starting' /\ Counted'
  <2>1. wpc' = wpc /\ initcount' = initcount
    BY Zenon DEF Dispatcher, Ready, Push, Notify, Accept
  <2>2. sent' = sent /\ replies' = replies /\ unread' = unread /\ input' = input
    BY Zenon DEF Dispatcher, Ready, Push, Notify, Accept, clients
  <2> QED
    BY <1>0, <2>1, <2>2, StartingKept DEF Counted
<1>2. CASE Ready
  BY <1>0, <1>1, <1>2, Zenon DEF Ready, TypeInv, TypeOK, Handed, clients
<1>3. CASE Push
  <2>1. NextThread \in Threads /\ item \in Items
    BY <1>0, <1>3, NextThreadType DEF TypeOK, Push, Handed
  <2>2. queue' \in [Threads -> Seq(Items)]
    BY <1>0, <1>3, <2>1 DEF TypeOK, Push
  <2>3. last' \in Threads /\ last' \in -1..T - 1
    BY <1>3, <2>1 DEF Push, Threads
  <2> QED
    BY <1>0, <1>1, <1>3, <2>2, <2>3, Zenon DEF Push, TypeInv, TypeOK, Handed, clients
<1>4. CASE Notify
  <2>0. last \in Threads
    BY <1>0, <1>4 DEF Notify, Handed
  <2>1. pipe' \in [Threads -> Nat]
    BY <1>0, <1>4, <2>0 DEF TypeOK, Notify
  <2> QED
    BY <1>0, <1>1, <1>4, <2>1, Zenon DEF Notify, TypeInv, TypeOK, Handed, clients
<1>5. ASSUME NEW c \in Conns, Accept(c) PROVE TypeInv'
  <2> DEFINE g == Min({f \in Fds : file[f] = 0})
  <2>1. g \in Fds
    BY <1>5, AcceptFree DEF Accept
  <2>2. /\ file' = [file EXCEPT ![g] = c]
        /\ item' = <<c, g>> /\ dpc' = "push"
        /\ state' = [state EXCEPT ![c] = "open"]
    BY <1>5 DEF Accept
  <2> HIDE DEF g
  <2>3. item' \in Items
    BY <2>1, <2>2 DEF Items
  <2>4. file' \in [Fds -> 0..MaxConns]
    BY <1>0, <2>1, <2>2 DEF TypeOK, Conns
  <2>5. UNCHANGED <<last, initcount, queue, pipe, wpc, mine, links, sent, unread, input, replies>>
    BY <1>5 DEF Accept
  <2> QED
    BY <1>0, <1>1, <2>2, <2>3, <2>4, <2>5, Zenon DEF TypeInv, TypeOK, Handed
<1> QED
  BY <1>2, <1>3, <1>4, <1>5 DEF Dispatcher

\* The steps of a worker keep the types.
LEMMA WorkerType == ASSUME TypeInv, NEW t \in Threads, Worker(t) PROVE TypeInv'
<1> USE Numbers
<1>0. TypeOK /\ Handed /\ Counted /\ Starting
  BY DEF TypeInv
<1>1. CASE Start(t)
  <2>1. wpc' = [wpc EXCEPT ![t] = "loop"] /\ wpc[t] = "start" /\ initcount' = initcount + 1
    BY <1>1 DEF Start
  <2>2. NotStarted' = NotStarted \ {t} /\ t \in NotStarted
    BY <1>0, <2>1 DEF NotStarted, TypeOK
  <2>3. Cardinality(NotStarted') \in Nat
        /\ Cardinality(NotStarted) = Cardinality(NotStarted') + 1
    BY <2>2, ThreadsFinite, StartCount
  <2>4. Starting' /\ initcount' \in 0..T
    BY <1>0, <2>1, <2>3 DEF Starting, TypeOK
  <2> QED
    BY <1>0, <1>1, <2>4 DEF Start, TypeInv, TypeOK, Handed, Counted, clients
<1>2. ASSUME initcount' = initcount,
             \A u \in Threads : wpc'[u] = "start" => wpc[u] = "start"
      PROVE  Starting'
  BY <1>0, <1>2, StartingKept
<1>3. CASE Wake(t)
  <2>1. pipe' \in [Threads -> Nat]
    BY <1>0, <1>3 DEF TypeOK, Wake
  <2>2. Starting'
    BY <1>0, <1>2, <1>3 DEF Wake, TypeOK
  <2> QED
    BY <1>0, <1>3, <2>1, <2>2 DEF Wake, TypeInv, TypeOK, Handed, Counted, clients
<1>4. CASE Pop(t)
  <2>1. queue[t] \in Seq(Items) /\ queue[t] # <<>>
    BY <1>0, <1>4 DEF TypeOK, Pop
  <2>2. Head(queue[t]) \in Items /\ Tail(queue[t]) \in Seq(Items)
    BY <2>1
  <2>3. Starting'
    BY <1>0, <1>2, <1>4 DEF Pop, TypeOK
  <2>4. queue' \in [Threads -> Seq(Items)]
    BY <1>0, <1>4, <2>2 DEF TypeOK, Pop
  <2>5. mine' \in [Threads -> Items \cup {None}]
    BY <1>0, <1>4, <2>2 DEF TypeOK, Pop
  <2>6. \A u \in Threads : wpc'[u] \in {"popped", "closing"} => mine'[u] \in Items
    BY <1>0, <1>4, <2>2 DEF TypeOK, Pop, Handed
  <2> QED
    BY <1>0, <1>4, <2>3, <2>4, <2>5, <2>6 DEF Pop, TypeInv, TypeOK, Handed, Counted, clients
<1>5. CASE Register(t)
  <2>1. mine[t] \in Items
    BY <1>0, <1>5 DEF Register, Handed
  <2>2. <<mine[t][1], mine[t][2], t>> \in Conns \X Fds \X Threads
    BY <2>1 DEF Items
  <2>3. links' \subseteq Conns \X Fds \X Threads
    BY <1>0, <1>5, <2>2 DEF Register, TypeOK
  <2>4. Starting'
    BY <1>0, <1>2, <1>5 DEF Register, TypeOK
  <2> QED
    BY <1>0, <1>5, <2>3, <2>4 DEF Register, TypeInv, TypeOK, Handed, Counted, clients
<1>6. CASE CloseAgain(t)
  <2>1. mine[t] \in Items
    BY <1>0, <1>6 DEF CloseAgain, Handed
  <2>2. mine[t][2] \in Fds
    BY <2>1 DEF Items
  <2>3. file' \in [Fds -> 0..MaxConns]
    BY <1>0, <1>6, <2>2 DEF CloseAgain, TypeOK
  <2>4. mine' \in [Threads -> Items \cup {None}]
    BY <1>0, <1>6 DEF CloseAgain, TypeOK
  <2>5. /\ wpc' \in [Threads -> {"start", "loop", "woken", "popped", "closing", "over"}]
        /\ dpc' \in {"init", "loop", "push", "notify", "over"}
        /\ \A u \in Threads : wpc'[u] = "start" => wpc[u] = "start"
        /\ dpc' = dpc \/ dpc' = "over"
        /\ \A u \in Threads : wpc'[u] \in {"popped", "closing"} =>
             wpc'[u] = wpc[u] /\ mine'[u] = mine[u]
    BY <1>0, <1>6, Zenon DEF CloseAgain, TypeOK
  <2>6. UNCHANGED <<item, last, initcount, queue, pipe, links, clients>>
    BY <1>6 DEF CloseAgain
  <2>7. Starting'
    BY <1>2, <2>5, <2>6
  <2>8. Handed'
    BY <1>0, <2>5, <2>6 DEF Handed
  <2> QED
    BY <1>0, <2>3, <2>4, <2>5, <2>6, <2>7, <2>8, Zenon DEF TypeInv, TypeOK, Counted, clients
<1>7. ASSUME NEW l \in Conns \X Fds \X {t}, Process(t, l) PROVE TypeInv'
  <2> DEFINE c == l[1]
  <2>1. c \in Conns
    OBVIOUS
  <2>2. /\ unread[c] > 0
        /\ unread' = [unread EXCEPT ![c] = 0]
        /\ input' = [input EXCEPT ![c] = @ + unread[c] - 1]
        /\ replies' = [replies EXCEPT ![c] = @ + 1]
        /\ UNCHANGED <<server, state, sent>>
    BY <1>7 DEF Process
  <2> HIDE DEF c
  <2>3. /\ unread[c] \in 0..MaxReqs /\ input[c] \in 0..MaxReqs /\ replies[c] \in 0..MaxReqs
        /\ sent[c] \in 0..MaxReqs /\ sent[c] = replies[c] + unread[c] + input[c]
    BY <1>0, <2>1 DEF TypeOK, Counted
  <2>4. /\ input[c] + unread[c] - 1 \in 0..MaxReqs
        /\ replies[c] + 1 \in 0..MaxReqs
        /\ sent[c] = replies[c] + 1 + 0 + (input[c] + unread[c] - 1)
    BY <2>2, <2>3
  <2>5. /\ unread' \in [Conns -> 0..MaxReqs]
        /\ input' \in [Conns -> 0..MaxReqs]
        /\ replies' \in [Conns -> 0..MaxReqs]
    <3>1. /\ unread \in [Conns -> 0..MaxReqs] /\ input \in [Conns -> 0..MaxReqs]
          /\ replies \in [Conns -> 0..MaxReqs]
      BY <1>0 DEF TypeOK
    <3>2. unread' \in [Conns -> 0..MaxReqs]
      BY <2>1, <2>2, <3>1
    <3>3. input' \in [Conns -> 0..MaxReqs]
      BY <2>1, <2>2, <2>4, <3>1
    <3>4. replies' \in [Conns -> 0..MaxReqs]
      BY <2>1, <2>2, <2>4, <3>1
    <3> QED
      BY <3>2, <3>3, <3>4
  <2>6. Counted'
    BY <1>0, <2>1, <2>2, <2>4 DEF TypeOK, Counted
  <2>7. Starting' /\ Handed'
    BY <1>0, <1>2, <2>2 DEF server, Handed
  <2> QED
    BY <1>0, <2>2, <2>5, <2>6, <2>7, Zenon DEF TypeInv, TypeOK, server
<1>8. ASSUME NEW l \in Conns \X Fds \X {t}, Close(t, l) PROVE TypeInv'
  <2>1. l[1] \in Conns /\ l[2] \in Fds /\ <<l[1], l[2]>> \in Items
    BY DEF Items
  <2>2. Starting'
    BY <1>0, <1>2, <1>8 DEF Close, TypeOK
  <2>3. mine' \in [Threads -> Items \cup {None}]
    BY <1>0, <1>8, <2>1 DEF TypeOK, Close
  <2>4. \A u \in Threads : wpc'[u] \in {"popped", "closing"} => mine'[u] \in Items
    BY <1>0, <1>8, <2>1 DEF TypeOK, Close, Handed
  <2>5. file' \in [Fds -> 0..MaxConns]
    BY <1>0, <1>8, <2>1 DEF TypeOK, Close
  <2> QED
    BY <1>0, <1>8, <2>2, <2>3, <2>4, <2>5, Zenon DEF Close, TypeInv, TypeOK, Handed, Counted, clients
<1> QED
  BY <1>1, <1>3, <1>4, <1>5, <1>6, <1>7, <1>8 DEF Worker

\* The steps of the clients keep the types.
LEMMA ClientType == ASSUME TypeInv, NEW c \in Conns, Client(c) PROVE TypeInv'
<1> USE Numbers
<1>0. TypeOK /\ Handed /\ Counted /\ Starting
  BY DEF TypeInv
<1>1. /\ UNCHANGED <<file, dpc, item, last, initcount, queue, pipe, wpc, mine, links>>
      /\ UNCHANGED <<input, replies>>
  BY DEF Client, Connect, Send, Leave, server
<1>2. Starting' /\ Handed'
  BY <1>0, <1>1, StartingKept DEF Handed
<1>3. CASE Connect(c) \/ Leave(c)
  BY <1>0, <1>1, <1>2, <1>3, Zenon DEF Connect, Leave, TypeInv, TypeOK, Counted
<1>4. CASE Send(c)
  <2>1. /\ unread[c] \in 0..MaxReqs /\ input[c] \in 0..MaxReqs /\ replies[c] \in 0..MaxReqs
        /\ sent[c] \in 0..MaxReqs /\ sent[c] = replies[c] + unread[c] + input[c]
        /\ sent[c] < MaxReqs
    BY <1>0, <1>4 DEF TypeOK, Counted, Send
  <2>2. sent[c] + 1 \in 0..MaxReqs /\ unread[c] + 1 \in 0..MaxReqs
    BY <2>1
  <2>3. sent' \in [Conns -> 0..MaxReqs] /\ unread' \in [Conns -> 0..MaxReqs]
    BY <1>0, <1>4, <2>2 DEF TypeOK, Send
  <2>4. Counted'
    BY <1>0, <1>1, <1>4, <2>1 DEF TypeOK, Counted, Send
  <2> QED
    BY <1>0, <1>1, <1>2, <1>4, <2>3, <2>4, Zenon DEF Send, TypeInv, TypeOK
<1> QED
  BY <1>3, <1>4 DEF Client

\* The datalet starts with types.
LEMMA InitType == Init => TypeInv
<1> USE Numbers
<1> SUFFICES ASSUME Init PROVE TypeInv
  OBVIOUS
<1>1. NotStarted = Threads /\ initcount = 0
  BY DEF Init, NotStarted
<1>2. Starting
  BY <1>1, ThreadsFinite DEF Starting
<1>3. queue \in [Threads -> Seq(Items)] /\ mine \in [Threads -> Items \cup {None}]
  BY DEF Init
<1>4. item \in Items \cup {None} /\ last \in -1..T - 1
  BY DEF Init
<1>5. Handed /\ Counted
  BY DEF Init, Handed, Counted
<1> QED
  BY <1>1, <1>2, <1>3, <1>4, <1>5 DEF TypeInv, TypeOK, Init

\* Every step keeps the types.
LEMMA TypeStep == TypeInv /\ [Next]_vars => TypeInv'
<1> SUFFICES ASSUME TypeInv, [Next]_vars PROVE TypeInv'
  OBVIOUS
<1>1. CASE Next
  BY <1>1, DispatcherType, WorkerType, ClientType DEF Next
<1>2. CASE UNCHANGED vars
  <2>1. TypeOK' /\ Handed' /\ Counted'
    BY <1>2, Zenon DEF vars, server, clients, TypeInv, TypeOK, Handed, Counted
  <2>2. Starting'
    BY <1>2, StartingKept DEF vars, server, TypeInv
  <2> QED
    BY <2>1, <2>2 DEF TypeInv
<1> QED
  BY <1>1, <1>2

\* The variables keep their types: init_count counts to num_threads, no request
\* is counted twice, and item and link are what the threads take them for.
THEOREM TypeCorrect == Spec => []TypeOK
<1>1. TypeInv => TypeOK
  BY DEF TypeInv
<1> QED
  BY <1>1, InitType, TypeStep, PTL DEF Spec

-----------------------------------------------------------------------------
(* A byte for every connection *)

\* What stands for the connections in the queue of a worker: the bytes in its
\* pipe, the one it has just read, and the one the dispatcher is about to write.
Due(t) ==
  pipe[t] + (IF wpc[t] = "woken" THEN 1 ELSE 0)
          + (IF dpc = "notify" /\ last = t THEN 1 ELSE 0)

\* All the threads end together.
Over == dpc = "over" => \A t \in Threads : wpc[t] = "over"

ByteInv ==
  /\ TypeInv /\ Over
  /\ dpc # "over" => \A t \in Threads : Len(queue[t]) = Due(t)

\* The steps of the dispatcher: a push is followed by a byte.
LEMMA DispatcherBytes == ASSUME ByteInv, Dispatcher PROVE ByteInv'
<1> USE Numbers
<1>0. TypeInv /\ TypeOK /\ Handed /\ TypeInv'
  BY DispatcherType DEF ByteInv, TypeInv
<1>1. /\ queue \in [Threads -> Seq(Items)] /\ pipe \in [Threads -> Nat]
      /\ last \in -1..T - 1
  BY <1>0 DEF TypeOK
<1>2. dpc # "over" /\ dpc' # "over" /\ wpc' = wpc
  BY Zenon DEF Dispatcher, Ready, Push, Notify, Accept
<1>3. \A t \in Threads : Len(queue[t]) = Due(t)
  BY <1>2 DEF ByteInv
<1>4. SUFFICES ASSUME NEW t \in Threads PROVE Len(queue'[t]) = Due(t)'
  BY <1>0, <1>2 DEF ByteInv, Over
<1>5. Len(queue[t]) \in Nat /\ pipe[t] \in Nat /\ queue[t] \in Seq(Items)
  BY <1>1
<1>6. CASE Ready \/ \E c \in Conns : Accept(c)
  BY <1>2, <1>3, <1>6, Zenon DEF Ready, Accept, Due
<1>7. CASE Push
  <2>1. /\ dpc = "push" /\ dpc' = "notify" /\ last' = NextThread /\ pipe' = pipe
        /\ queue' = [queue EXCEPT ![NextThread] = Append(@, item)]
    BY <1>7 DEF Push
  <2>2. NextThread \in Threads
    BY <1>1, NextThreadType
  <2>3. CASE t = NextThread
    <3>1. queue'[t] = Append(queue[t], item)
      BY <1>1, <2>1, <2>3
    <3>2. Len(queue'[t]) = Len(queue[t]) + 1
      BY <1>5, <3>1
    <3>3. Len(queue[t]) = pipe[t] + (IF wpc[t] = "woken" THEN 1 ELSE 0)
      BY <1>3, <1>5, <2>1 DEF Due
    <3> QED
      BY <1>2, <1>5, <2>1, <2>3, <3>2, <3>3 DEF Due
  <2>4. CASE t # NextThread
    <3>1. queue'[t] = queue[t]
      BY <1>1, <2>1, <2>4
    <3> QED
      BY <1>2, <1>3, <2>1, <2>4, <3>1 DEF Due
  <2> QED
    BY <2>3, <2>4
<1>8. CASE Notify
  <2>1. /\ dpc = "notify" /\ dpc' = "loop" /\ last' = last /\ queue' = queue
        /\ pipe' = [pipe EXCEPT ![last] = @ + 1]
    BY <1>8 DEF Notify
  <2>2. CASE t = last
    <3>1. pipe'[t] = pipe[t] + 1
      BY <1>1, <2>1, <2>2
    <3>2. Len(queue[t]) = pipe[t] + (IF wpc[t] = "woken" THEN 1 ELSE 0) + 1
      BY <1>3, <2>1, <2>2 DEF Due
    <3> QED
      BY <1>2, <1>5, <2>1, <3>1, <3>2 DEF Due
  <2>3. CASE t # last
    <3>1. pipe'[t] = pipe[t]
      BY <1>1, <2>1, <2>3
    <3> QED
      BY <1>2, <1>3, <2>1, <2>3, <3>1 DEF Due
  <2> QED
    BY <2>2, <2>3
<1> QED
  BY <1>6, <1>7, <1>8 DEF Dispatcher

\* The steps of a worker: a byte read is followed by a pop.
LEMMA WorkerBytes == ASSUME ByteInv, NEW t \in Threads, Worker(t) PROVE ByteInv'
<1> USE Numbers
<1>0. TypeInv /\ TypeOK /\ Handed /\ TypeInv'
  BY WorkerType DEF ByteInv, TypeInv
<1>1. /\ queue \in [Threads -> Seq(Items)] /\ pipe \in [Threads -> Nat]
      /\ wpc \in [Threads -> {"start", "loop", "woken", "popped", "closing", "over"}]
  BY <1>0 DEF TypeOK
<1>2. dpc # "over" /\ \A u \in Threads : Len(queue[u]) = Due(u)
  <2>1. wpc[t] # "over"
    BY Zenon DEF Worker, Start, Wake, Pop, Register, CloseAgain, Process, Close
  <2> QED
    BY <2>1 DEF ByteInv, Over
<1>3. Over'
  <2>1. dpc' = dpc \/ wpc' = [u \in Threads |-> "over"]
    BY Zenon DEF Worker, Start, Wake, Pop, Register, CloseAgain, Process, Close, server
  <2> QED
    BY <1>2, <2>1 DEF Over
<1>4. SUFFICES ASSUME dpc' # "over", NEW u \in Threads PROVE Len(queue'[u]) = Due(u)'
  BY <1>0, <1>3 DEF ByteInv
<1>5. Len(queue[u]) \in Nat /\ pipe[u] \in Nat /\ queue[u] \in Seq(Items)
  BY <1>1
<1>6. dpc' = dpc /\ last' = last
  BY <1>4, Zenon DEF Worker, Start, Wake, Pop, Register, CloseAgain, Process, Close, server
<1>7. CASE Wake(t)
  <2>1. /\ wpc[t] = "loop" /\ pipe[t] > 0 /\ queue' = queue
        /\ pipe' = [pipe EXCEPT ![t] = @ - 1]
        /\ wpc' = [wpc EXCEPT ![t] = "woken"]
    BY <1>7 DEF Wake
  <2>2. CASE u = t
    <3>1. pipe'[u] = pipe[u] - 1 /\ wpc'[u] = "woken" /\ wpc[u] = "loop"
      BY <1>1, <2>1, <2>2
    <3> QED
      BY <1>2, <1>5, <1>6, <2>1, <3>1 DEF Due
  <2>3. CASE u # t
    <3>1. pipe'[u] = pipe[u] /\ wpc'[u] = wpc[u]
      BY <1>1, <2>1, <2>3
    <3> QED
      BY <1>2, <1>6, <2>1, <3>1 DEF Due
  <2> QED
    BY <2>2, <2>3
<1>8. CASE Pop(t)
  <2>1. /\ wpc[t] = "woken" /\ queue[t] # <<>> /\ pipe' = pipe
        /\ queue' = [queue EXCEPT ![t] = Tail(@)]
        /\ wpc' = [wpc EXCEPT ![t] = "popped"]
    BY <1>8 DEF Pop
  <2>2. CASE u = t
    <3>1. queue'[u] = Tail(queue[u]) /\ wpc'[u] = "popped" /\ wpc[u] = "woken"
      BY <1>1, <2>1, <2>2
    <3>2. Len(queue'[u]) = Len(queue[u]) - 1
      BY <1>5, <2>1, <2>2, <3>1, TailOf, Zenon
    <3> QED
      BY <1>2, <1>5, <1>6, <2>1, <3>1, <3>2 DEF Due
  <2>3. CASE u # t
    <3>1. queue'[u] = queue[u] /\ wpc'[u] = wpc[u]
      BY <1>1, <2>1, <2>3
    <3> QED
      BY <1>2, <1>6, <2>1, <3>1, Zenon DEF Due
  <2> QED
    BY <2>2, <2>3
<1>9. CASE \/ Start(t) \/ Register(t) \/ CloseAgain(t)
           \/ \E l \in Conns \X Fds \X {t} : Process(t, l) \/ Close(t, l)
  <2>1. queue' = queue /\ pipe' = pipe
    BY <1>9, Zenon DEF Start, Register, CloseAgain, Process, Close, server
  <2>2. wpc'[u] = "woken" <=> wpc[u] = "woken"
    BY <1>1, <1>4, <1>9, Zenon DEF Start, Register, CloseAgain, Process, Close, server
  <2> QED
    BY <1>2, <1>6, <2>1, <2>2 DEF Due
<1> QED
  BY <1>7, <1>8, <1>9 DEF Worker

\* A step of the clients, or none, changes nothing of this.
LEMMA IdleBytes == ASSUME ByteInv, TypeInv', UNCHANGED server PROVE ByteInv'
BY DEF ByteInv, Over, Due, server

\* Every step keeps the balance of bytes and connections.
LEMMA ByteStep == ByteInv /\ [Next]_vars => ByteInv'
<1> SUFFICES ASSUME ByteInv, [Next]_vars PROVE ByteInv'
  OBVIOUS
<1>1. TypeInv'
  BY TypeStep DEF ByteInv
<1>2. ASSUME NEW c \in Conns, Client(c) PROVE ByteInv'
  BY <1>1, <1>2, IdleBytes DEF Client, Connect, Send, Leave
<1>3. CASE UNCHANGED vars
  BY <1>1, <1>3, IdleBytes DEF vars
<1> QED
  BY <1>2, <1>3, DispatcherBytes, WorkerBytes DEF Next

\* The queues and pipes are empty at first.
LEMMA InitBytes == Init => ByteInv
<1> SUFFICES ASSUME Init PROVE ByteInv
  OBVIOUS
<1>1. TypeInv
  BY InitType
<1>2. ASSUME NEW t \in Threads PROVE Len(queue[t]) = Due(t)
  BY DEF Init, Due
<1> QED
  BY <1>1, <1>2 DEF ByteInv, Over, Init

\* The balance, in every state.
THEOREM ByteInvHolds == Spec => []ByteInv
BY InitBytes, ByteStep, PTL DEF Spec

\* With the balance, a worker that has read a byte and a dispatcher that has
\* pushed find the queue as they expect it.
LEMMA BytesSuffice == ByteInv => QueueNotEmpty
<1> SUFFICES ASSUME ByteInv PROVE QueueNotEmpty
  OBVIOUS
<1>1. TypeOK /\ Handed /\ Over
  BY DEF ByteInv, TypeInv
<1>2. ASSUME NEW t \in Threads, dpc # "over", wpc[t] = "woken" \/ (dpc = "notify" /\ last = t)
      PROVE  queue[t] # <<>>
  <2>1. Len(queue[t]) = Due(t) /\ pipe[t] \in Nat
    BY <1>1, <1>2 DEF ByteInv, TypeOK
  <2>2. Len(queue[t]) > 0
    BY <1>2, <2>1 DEF Due
  <2> QED
    BY <2>2
<1>3. ASSUME NEW t \in Threads, wpc[t] = "woken" PROVE dpc # "over"
  BY <1>1, <1>3 DEF Over
<1> QED
  BY <1>1, <1>2, <1>3 DEF QueueNotEmpty, Handed

\* cq_pop never returns an item that is not there, and the CHECK of cq_push
\* outside of the lock never fails.
THEOREM QueueNotEmptyHolds == Spec => []QueueNotEmpty
BY ByteInvHolds, BytesSuffice, PTL

-----------------------------------------------------------------------------
(* A connection is held in one place *)

Kinds == {"item", "queue", "mine", "link"}

\* Where an item can be: with the dispatcher, at a place of a worker's queue, in
\* the hands of a worker that has popped it, or among its registered links.
Holds(k, t, i, x) ==
  \/ k = "item" /\ t = 0 /\ i = 0 /\ dpc = "push" /\ x = item
  \/ k = "queue" /\ i \in DOMAIN queue[t] /\ x = queue[t][i]
  \/ k = "mine" /\ i = 0 /\ wpc[t] = "popped" /\ x = mine[t]
  \/ k = "link" /\ i = 0 /\ <<x[1], x[2], t>> \in links

InHand(x) == \E k \in Kinds, t \in Threads, i \in Nat : Holds(k, t, i, x)

\* It is at one of these at a time,
Once ==
  \A x \in Items, k, l \in Kinds, t, u \in Threads, i, j \in Nat :
    Holds(k, t, i, x) /\ Holds(l, u, j, x) => k = l /\ t = u /\ i = j

\* and at one of them just while its descriptor is open for its connection.
Exact == \A x \in Items : InHand(x) <=> file[x[2]] = x[1]

HoldInv == TypeInv /\ (dpc # "over" => Once /\ Exact)

\* The dispatcher is at the place of the first worker.
LEMMA ZeroThread == 0 \in Threads /\ 0 \in Nat
BY Numbers DEF Threads

\* A step that moves no item and opens or closes no descriptor.
LEMMA SameHold ==
  ASSUME HoldInv, TypeInv',
         dpc' # "over" =>
           /\ dpc # "over" /\ file' = file /\ queue' = queue /\ links' = links
           /\ (dpc' = "push" <=> dpc = "push") /\ (dpc = "push" => item' = item)
           /\ \A t \in Threads : /\ wpc'[t] = "popped" <=> wpc[t] = "popped"
                                 /\ wpc[t] = "popped" => mine'[t] = mine[t]
  PROVE  HoldInv'
<1>1. SUFFICES ASSUME dpc' # "over" PROVE Once' /\ Exact'
  BY DEF HoldInv
<1>2. Once /\ Exact
  BY <1>1 DEF HoldInv
<1>3. ASSUME NEW k \in Kinds, NEW t \in Threads, NEW i \in Nat, NEW x \in Items
      PROVE  Holds(k, t, i, x)' <=> Holds(k, t, i, x)
  BY <1>1 DEF Holds
<1>4. Once'
  BY <1>2, <1>3 DEF Once
<1>5. Exact'
  BY <1>1, <1>2, <1>3, Zenon DEF Exact, InHand
<1> QED
  BY <1>4, <1>5

\* accept opens a descriptor that no item has, and the item is the dispatcher's.
LEMMA AcceptHold ==
  ASSUME HoldInv, TypeInv', NEW c \in Conns, Accept(c)
  PROVE  HoldInv'
<1> DEFINE g == Min({f \in Fds : file[f] = 0})
<1>1. g \in Fds /\ file[g] = 0
  BY AcceptFree DEF Accept
<1>2. /\ file' = [file EXCEPT ![g] = c]
      /\ item' = <<c, g>> /\ dpc = "loop" /\ dpc' = "push"
      /\ queue' = queue /\ wpc' = wpc /\ mine' = mine /\ links' = links
  BY DEF Accept
<1> HIDE DEF g
<1>3. Once /\ Exact /\ file \in [Fds -> 0..MaxConns]
  BY <1>2 DEF HoldInv, TypeInv, TypeOK
<1>4. ASSUME NEW k \in Kinds, NEW t \in Threads, NEW i \in Nat, NEW x \in Items
      PROVE  Holds(k, t, i, x)' <=>
               \/ k = "item" /\ t = 0 /\ i = 0 /\ x = <<c, g>>
               \/ k # "item" /\ Holds(k, t, i, x)
  BY <1>2, Zenon DEF Holds
<1>5. ASSUME NEW x \in Items PROVE ~(InHand(x) /\ x = <<c, g>>)
  <2>1. CASE x = <<c, g>>
    <3>1. x[1] = c /\ x[2] = g /\ c # 0
      BY <2>1, Numbers DEF Conns
    <3> QED
      BY <1>1, <1>3, <3>1 DEF Exact
  <2> QED
    BY <2>1
<1>6. Once'
  <2> SUFFICES ASSUME NEW x \in Items, NEW k \in Kinds, NEW l \in Kinds,
                      NEW t \in Threads, NEW u \in Threads, NEW i \in Nat, NEW j \in Nat,
                      Holds(k, t, i, x)', Holds(l, u, j, x)'
               PROVE  k = l /\ t = u /\ i = j
    BY DEF Once
  <2>1. CASE x = <<c, g>>
    <3>1. ~Holds(k, t, i, x) /\ ~Holds(l, u, j, x)
      BY <1>5, <2>1, Zenon DEF InHand
    <3> QED
      BY <1>4, <3>1
  <2>2. CASE x # <<c, g>>
    <3>1. Holds(k, t, i, x) /\ Holds(l, u, j, x)
      BY <1>4, <2>2
    <3> QED
      BY <1>3, <3>1, Zenon DEF Once
  <2> QED
    BY <2>1, <2>2
<1>7. Exact'
  <2> SUFFICES ASSUME NEW x \in Items PROVE InHand(x)' <=> file'[x[2]] = x[1]
    BY DEF Exact
  <2>1. CASE x = <<c, g>>
    <3>1. Holds("item", 0, 0, x)'
      BY <1>4, <2>1, ZeroThread DEF Kinds
    <3>2. InHand(x)'
      BY <3>1, ZeroThread DEF InHand, Kinds
    <3>3. file'[x[2]] = x[1]
      BY <1>1, <1>2, <1>3, <2>1
    <3> QED
      BY <3>2, <3>3
  <2>2. CASE x # <<c, g>>
    <3>1. ASSUME NEW k \in Kinds, NEW t \in Threads, NEW i \in Nat
          PROVE  Holds(k, t, i, x)' <=> Holds(k, t, i, x)
      <4>1. k = "item" => ~Holds(k, t, i, x)
        BY <1>2 DEF Holds
      <4> QED
        BY <1>4, <2>2, <4>1
    <3>2. InHand(x)' <=> InHand(x)
      BY <3>1 DEF InHand
    <3>3. x[1] \in Conns /\ x[2] \in Fds /\ x = <<x[1], x[2]>>
      BY DEF Items
    <3>4. CASE x[2] = g
      <4>1. file'[x[2]] = c /\ file[x[2]] = 0 /\ x[1] # c /\ x[1] # 0
        BY <1>1, <1>2, <1>3, <2>2, <3>3, <3>4, Numbers DEF Conns
      <4> QED
        BY <1>3, <3>2, <4>1 DEF Exact
    <3>5. CASE x[2] # g
      <4>1. file'[x[2]] = file[x[2]]
        BY <1>2, <1>3, <3>3, <3>5
      <4> QED
        BY <1>3, <3>2, <4>1 DEF Exact
    <3> QED
      BY <3>4, <3>5
  <2> QED
    BY <2>1, <2>2
<1> QED
  BY <1>6, <1>7 DEF HoldInv

\* cq_push: from the dispatcher to the end of a queue.
LEMMA PushHold ==
  ASSUME HoldInv, TypeInv', Push
  PROVE  HoldInv'
<1>1. /\ dpc = "push" /\ dpc' = "notify"
      /\ queue' = [queue EXCEPT ![NextThread] = Append(@, item)]
      /\ file' = file /\ wpc' = wpc /\ mine' = mine /\ links' = links
  BY DEF Push
<1>2. /\ Once /\ Exact /\ queue \in [Threads -> Seq(Items)] /\ item \in Items
      /\ last \in -1..T - 1
  BY <1>1 DEF HoldInv, TypeInv, TypeOK, Handed
<1>3. PICK n \in Threads : n = NextThread
  BY <1>2, NextThreadType
<1>4. PICK e \in Nat : queue[n] \in Seq(Items) /\ e = Len(queue[n]) + 1
  BY <1>2
<1>5. /\ queue'[n] = Append(queue[n], item)
      /\ \A t \in Threads \ {n} : queue'[t] = queue[t]
  BY <1>1, <1>2, <1>3
<1>6. /\ DOMAIN queue'[n] = DOMAIN queue[n] \cup {e}
      /\ e \notin DOMAIN queue[n]
      /\ queue'[n][e] = item
      /\ \A i \in DOMAIN queue[n] : queue'[n][i] = queue[n][i]
  BY <1>4, <1>5
<1>7. ASSUME NEW k \in Kinds, NEW t \in Threads, NEW i \in Nat, NEW x \in Items
      PROVE  Holds(k, t, i, x)' <=>
               \/ k # "item" /\ Holds(k, t, i, x)
               \/ k = "queue" /\ t = n /\ i = e /\ Holds("item", 0, 0, x)
  <2>1. Holds("item", 0, 0, x) <=> x = item
    BY <1>1 DEF Holds
  <2>2. CASE k = "queue" /\ t = n
    BY <1>6, <2>1, <2>2 DEF Holds
  <2>3. CASE ~(k = "queue" /\ t = n)
    BY <1>1, <1>5, <2>3, Zenon DEF Holds
  <2> QED
    BY <2>2, <2>3
<1>8. \A x \in Items : Holds("item", 0, 0, x)
        => \A k \in Kinds, t \in Threads, i \in Nat : Holds(k, t, i, x) => k = "item"
  BY <1>2, ZeroThread DEF Once, Kinds
<1>9. Once'
  <2> SUFFICES ASSUME NEW x \in Items, NEW k \in Kinds, NEW l \in Kinds,
                      NEW t \in Threads, NEW u \in Threads, NEW i \in Nat, NEW j \in Nat,
                      Holds(k, t, i, x)', Holds(l, u, j, x)'
               PROVE  k = l /\ t = u /\ i = j
    BY DEF Once
  <2>1. CASE Holds("item", 0, 0, x)
    BY <1>7, <1>8, <2>1
  <2>2. CASE ~Holds("item", 0, 0, x)
    <3>1. Holds(k, t, i, x) /\ Holds(l, u, j, x)
      BY <1>7, <2>2
    <3> QED
      BY <1>2, <3>1, Zenon DEF Once
  <2> QED
    BY <2>1, <2>2
<1>10. Exact'
  <2> SUFFICES ASSUME NEW x \in Items PROVE InHand(x)' <=> InHand(x)
    BY <1>1, <1>2 DEF Exact
  <2>1. ASSUME NEW k \in Kinds, NEW t \in Threads, NEW i \in Nat, Holds(k, t, i, x)
        PROVE  InHand(x)'
    <3>1. CASE k = "item"
      <4>1. Holds("item", 0, 0, x)
        BY <2>1, <3>1 DEF Holds
      <4>2. Holds("queue", n, e, x)'
        BY <1>4, <1>7, <4>1 DEF Kinds
      <4> QED
        BY <1>4, <4>2 DEF InHand, Kinds
    <3>2. CASE k # "item"
      BY <1>7, <2>1, <3>2 DEF InHand
    <3> QED
      BY <3>1, <3>2
  <2>2. ASSUME NEW k \in Kinds, NEW t \in Threads, NEW i \in Nat, Holds(k, t, i, x)'
        PROVE  InHand(x)
    BY <1>7, <2>2, ZeroThread DEF InHand, Kinds
  <2> QED
    BY <2>1, <2>2 DEF InHand
<1> QED
  BY <1>9, <1>10 DEF HoldInv

\* cq_pop: from the head of a queue into the hands of its worker.
LEMMA PopHold ==
  ASSUME HoldInv, TypeInv', NEW w \in Threads, Pop(w)
  PROVE  HoldInv'
<1>1. /\ wpc[w] = "woken" /\ queue[w] # <<>>
      /\ mine' = [mine EXCEPT ![w] = Head(queue[w])]
      /\ queue' = [queue EXCEPT ![w] = Tail(@)]
      /\ wpc' = [wpc EXCEPT ![w] = "popped"]
      /\ dpc' = dpc /\ item' = item /\ file' = file /\ links' = links
  BY DEF Pop
<1>2. SUFFICES ASSUME dpc # "over" PROVE Once' /\ Exact'
  BY <1>1 DEF HoldInv
<1>3. /\ Once /\ Exact /\ queue \in [Threads -> Seq(Items)]
      /\ mine \in [Threads -> Items \cup {None}]
      /\ wpc \in [Threads -> {"start", "loop", "woken", "popped", "closing", "over"}]
  BY <1>2 DEF HoldInv, TypeInv, TypeOK
<1>4. queue[w] \in Seq(Items)
  BY <1>3
<1>5. /\ queue'[w] = Tail(queue[w]) /\ mine'[w] = Head(queue[w]) /\ wpc'[w] = "popped"
      /\ \A t \in Threads \ {w} : queue'[t] = queue[t] /\ mine'[t] = mine[t] /\ wpc'[t] = wpc[t]
  BY <1>1, <1>3
<1>6. /\ 1 \in DOMAIN queue[w] /\ mine'[w] = queue[w][1]
      /\ \A i \in Nat : i \in DOMAIN queue'[w] <=> i # 0 /\ i + 1 \in DOMAIN queue[w]
      /\ \A i \in DOMAIN queue'[w] : queue'[w][i] = queue[w][i + 1]
  <2>1. /\ 1 \in DOMAIN queue[w] /\ Head(queue[w]) = queue[w][1]
        /\ \A i \in Nat : i \in DOMAIN Tail(queue[w]) <=> i # 0 /\ i + 1 \in DOMAIN queue[w]
        /\ \A i \in DOMAIN Tail(queue[w]) : Tail(queue[w])[i] = queue[w][i + 1]
    BY <1>1, <1>4, TailOf
  <2> QED
    BY <1>5, <2>1, Zenon
<1>7. \A i \in Nat : i \in DOMAIN queue[w] => i # 0
  BY <1>4
<1>8. ASSUME NEW k \in Kinds, NEW t \in Threads, NEW i \in Nat, NEW x \in Items
      PROVE  Holds(k, t, i, x)' <=>
               \/ k = "queue" /\ t = w /\ i # 0 /\ Holds("queue", w, i + 1, x)
               \/ k = "mine" /\ t = w /\ i = 0 /\ Holds("queue", w, 1, x)
               \/ ~(k = "queue" /\ t = w) /\ Holds(k, t, i, x)
  <2>1. Holds("queue", w, 1, x) <=> x = queue[w][1]
    BY <1>6 DEF Holds
  <2>2. CASE k = "queue" /\ t = w
    <3>1. Holds(k, t, i, x)' <=> i \in DOMAIN queue'[w] /\ x = queue'[w][i]
      BY <2>2 DEF Holds
    <3>2. Holds("queue", w, i + 1, x) <=> i + 1 \in DOMAIN queue[w] /\ x = queue[w][i + 1]
      BY DEF Holds
    <3> QED
      BY <1>6, <2>2, <3>1, <3>2, Zenon
  <2>3. CASE k = "mine" /\ t = w
    <3>1. Holds(k, t, i, x)' <=> i = 0 /\ x = queue[w][1]
      BY <1>5, <1>6, <2>3, Zenon DEF Holds
    <3>2. ~Holds(k, t, i, x)
      BY <1>1, <2>3 DEF Holds
    <3> QED
      BY <2>1, <2>3, <3>1, <3>2, Zenon
  <2>4. CASE ~(k = "queue" /\ t = w) /\ ~(k = "mine" /\ t = w)
    BY <1>1, <1>5, <2>4, Zenon DEF Holds
  <2> QED
    BY <2>2, <2>3, <2>4, Zenon
<1>9. Once'
  <2> SUFFICES ASSUME NEW x \in Items, NEW k \in Kinds, NEW l \in Kinds,
                      NEW t \in Threads, NEW u \in Threads, NEW i \in Nat, NEW j \in Nat,
                      Holds(k, t, i, x)', Holds(l, u, j, x)'
               PROVE  k = l /\ t = u /\ i = j
    BY DEF Once
  \* Where an item is after the pop, and where it was before it.
  <2> DEFINE Was(a, b, m, p, q, r) ==
               \/ a = "queue" /\ b = w /\ m # 0 /\ p = "queue" /\ q = w /\ r = m + 1
               \/ a = "mine" /\ b = w /\ m = 0 /\ p = "queue" /\ q = w /\ r = 1
               \/ ~(a = "queue" /\ b = w) /\ p = a /\ q = b /\ r = m
  <2>1. PICK k1 \in Kinds, t1 \in Threads, i1 \in Nat :
          Holds(k1, t1, i1, x) /\ Was(k, t, i, k1, t1, i1)
    BY <1>8 DEF Kinds
  <2>2. PICK l1 \in Kinds, u1 \in Threads, j1 \in Nat :
          Holds(l1, u1, j1, x) /\ Was(l, u, j, l1, u1, j1)
    BY <1>8 DEF Kinds
  <2>3. k1 = l1 /\ t1 = u1 /\ i1 = j1
    BY <1>3, <2>1, <2>2, Zenon DEF Once
  <2> QED
    BY <2>1, <2>2, <2>3
<1>10. Exact'
  <2> SUFFICES ASSUME NEW x \in Items PROVE InHand(x)' <=> InHand(x)
    BY <1>1, <1>3, Zenon DEF Exact
  <2>1. ASSUME NEW k \in Kinds, NEW t \in Threads, NEW i \in Nat, Holds(k, t, i, x)
        PROVE  InHand(x)'
    <3>1. CASE k = "queue" /\ t = w /\ i = 1
      <4>1. Holds("mine", w, 0, x)'
        BY <1>8, <2>1, <3>1 DEF Kinds
      <4> QED
        BY <4>1 DEF InHand, Kinds
    <3>2. CASE k = "queue" /\ t = w /\ i # 1
      <4>1. i # 0
        BY <1>7, <2>1, <3>2 DEF Holds
      <4>2. PICK m \in Nat : m # 0 /\ m + 1 = i
        BY <3>2, <4>1
      <4>3. Holds("queue", w, m, x)'
        BY <1>8, <2>1, <3>2, <4>2 DEF Kinds
      <4> QED
        BY <4>3 DEF InHand, Kinds
    <3>3. CASE ~(k = "queue" /\ t = w)
      BY <1>8, <2>1, <3>3 DEF InHand
    <3> QED
      BY <3>1, <3>2, <3>3
  <2>2. ASSUME NEW k \in Kinds, NEW t \in Threads, NEW i \in Nat, Holds(k, t, i, x)'
        PROVE  InHand(x)
    BY <1>8, <2>2 DEF InHand, Kinds
  <2> QED
    BY <2>1, <2>2 DEF InHand
<1> QED
  BY <1>9, <1>10

\* register_conn: from the hands of a worker to its links.
LEMMA RegisterHold ==
  ASSUME HoldInv, TypeInv', NEW w \in Threads, Register(w)
  PROVE  HoldInv'
<1>1. /\ wpc[w] = "popped"
      /\ links' = links \cup {<<mine[w][1], mine[w][2], w>>}
      /\ mine' = [mine EXCEPT ![w] = None]
      /\ wpc' = [wpc EXCEPT ![w] = "loop"]
      /\ dpc' = dpc /\ item' = item /\ file' = file /\ queue' = queue
  BY DEF Register
<1>2. SUFFICES ASSUME dpc # "over" PROVE Once' /\ Exact'
  BY <1>1 DEF HoldInv
<1>3. /\ Once /\ Exact /\ mine[w] \in Items
      /\ mine \in [Threads -> Items \cup {None}]
      /\ wpc \in [Threads -> {"start", "loop", "woken", "popped", "closing", "over"}]
  BY <1>1, <1>2, Zenon DEF HoldInv, TypeInv, TypeOK, Handed
<1>4. /\ wpc'[w] = "loop"
      /\ \A t \in Threads \ {w} : mine'[t] = mine[t] /\ wpc'[t] = wpc[t]
  BY <1>1, <1>3
<1>5. ASSUME NEW t \in Threads, NEW x \in Items
      PROVE  <<x[1], x[2], t>> = <<mine[w][1], mine[w][2], w>> <=> t = w /\ x = mine[w]
  BY <1>3 DEF Items
<1>6. ASSUME NEW k \in Kinds, NEW t \in Threads, NEW i \in Nat, NEW x \in Items
      PROVE  Holds(k, t, i, x)' <=>
               \/ k = "link" /\ t = w /\ i = 0 /\ Holds("mine", w, 0, x)
               \/ ~(k = "mine" /\ t = w) /\ Holds(k, t, i, x)
  <2>1. Holds("mine", w, 0, x) <=> x = mine[w]
    BY <1>1 DEF Holds
  <2>2. CASE k = "link"
    <3>1. <<x[1], x[2], t>> \in links' <=> <<x[1], x[2], t>> \in links \/ (t = w /\ x = mine[w])
      BY <1>1, <1>5
    <3> QED
      BY <2>1, <2>2, <3>1, Zenon DEF Holds
  <2>3. CASE k = "mine"
    BY <1>4, <2>3, Zenon DEF Holds
  <2>4. CASE k # "link" /\ k # "mine"
    BY <1>1, <2>4, Zenon DEF Holds
  <2> QED
    BY <2>2, <2>3, <2>4
<1>7. Once'
  <2> SUFFICES ASSUME NEW x \in Items, NEW k \in Kinds, NEW l \in Kinds,
                      NEW t \in Threads, NEW u \in Threads, NEW i \in Nat, NEW j \in Nat,
                      Holds(k, t, i, x)', Holds(l, u, j, x)'
               PROVE  k = l /\ t = u /\ i = j
    BY DEF Once
  <2>1. CASE Holds("mine", w, 0, x)
    <3>1. ASSUME NEW a \in Kinds, NEW b \in Threads, NEW m \in Nat, Holds(a, b, m, x)
          PROVE  a = "mine" /\ b = w
      BY <1>3, <2>1, <3>1 DEF Once, Kinds
    <3> QED
      BY <1>6, <3>1
  <2>2. CASE ~Holds("mine", w, 0, x)
    <3>1. Holds(k, t, i, x) /\ Holds(l, u, j, x)
      BY <1>6, <2>2
    <3> QED
      BY <1>3, <3>1, Zenon DEF Once
  <2> QED
    BY <2>1, <2>2
<1>8. Exact'
  <2> SUFFICES ASSUME NEW x \in Items PROVE InHand(x)' <=> InHand(x)
    BY <1>1, <1>3, Zenon DEF Exact
  <2>1. ASSUME NEW k \in Kinds, NEW t \in Threads, NEW i \in Nat, Holds(k, t, i, x)
        PROVE  InHand(x)'
    <3>1. CASE k = "mine" /\ t = w
      <4>1. i = 0
        BY <2>1, <3>1 DEF Holds
      <4>2. Holds("link", w, 0, x)'
        BY <1>6, <2>1, <3>1, <4>1 DEF Kinds
      <4> QED
        BY <4>2 DEF InHand, Kinds
    <3>2. CASE ~(k = "mine" /\ t = w)
      BY <1>6, <2>1, <3>2 DEF InHand
    <3> QED
      BY <3>1, <3>2
  <2>2. ASSUME NEW k \in Kinds, NEW t \in Threads, NEW i \in Nat, Holds(k, t, i, x)'
        PROVE  InHand(x)
    BY <1>6, <2>2 DEF InHand, Kinds
  <2> QED
    BY <2>1, <2>2 DEF InHand
<1> QED
  BY <1>7, <1>8

\* Link::close: the link was the only place, and its descriptor is closed.
LEMMA CloseHold ==
  ASSUME HoldInv, TypeInv', NEW w \in Threads, NEW z \in Conns \X Fds \X {w}, Close(w, z)
  PROVE  HoldInv'
<1>1. /\ wpc[w] = "loop" /\ z \in links
      /\ links' = links \ {z}
      /\ file' = [file EXCEPT ![z[2]] = 0]
      /\ mine' = [mine EXCEPT ![w] = <<z[1], z[2]>>]
      /\ wpc' = [wpc EXCEPT ![w] = "closing"]
      /\ dpc' = dpc /\ item' = item /\ queue' = queue
  BY DEF Close
<1>2. SUFFICES ASSUME dpc # "over" PROVE Once' /\ Exact'
  BY <1>1 DEF HoldInv
<1>3. /\ Once /\ Exact /\ file \in [Fds -> 0..MaxConns]
      /\ mine \in [Threads -> Items \cup {None}]
      /\ wpc \in [Threads -> {"start", "loop", "woken", "popped", "closing", "over"}]
  BY <1>2, Zenon DEF HoldInv, TypeInv, TypeOK
<1>4. PICK y \in Items : y[1] = z[1] /\ y[2] = z[2] /\ z = <<y[1], y[2], w>>
  <2>1. <<z[1], z[2]>> \in Items /\ z = <<z[1], z[2], w>>
    BY DEF Items
  <2> QED
    BY <2>1
<1>5. Holds("link", w, 0, y)
  BY <1>1, <1>4 DEF Holds
<1>6. /\ wpc'[w] = "closing"
      /\ \A t \in Threads \ {w} : mine'[t] = mine[t] /\ wpc'[t] = wpc[t]
  BY <1>1, <1>3
<1>7. ASSUME NEW t \in Threads, NEW x \in Items
      PROVE  <<x[1], x[2], t>> = z <=> t = w /\ x = y
  BY <1>4 DEF Items
<1>8. ASSUME NEW k \in Kinds, NEW t \in Threads, NEW i \in Nat, NEW x \in Items
      PROVE  Holds(k, t, i, x)' <=> Holds(k, t, i, x) /\ x # y
  <2>1. x = y /\ Holds(k, t, i, x) => k = "link" /\ t = w /\ i = 0
    BY <1>3, <1>5 DEF Once, Kinds
  <2>2. CASE k = "link"
    <3>1. <<x[1], x[2], t>> \in links' <=> <<x[1], x[2], t>> \in links /\ ~(t = w /\ x = y)
      BY <1>1, <1>7, Zenon
    <3> QED
      BY <2>1, <2>2, <3>1, Zenon DEF Holds
  <2>3. CASE k = "mine"
    BY <1>1, <1>6, <2>1, <2>3, Zenon DEF Holds
  <2>4. CASE k # "link" /\ k # "mine"
    BY <1>1, <2>1, <2>4, Zenon DEF Holds
  <2> QED
    BY <2>2, <2>3, <2>4
<1>9. Once'
  BY <1>3, <1>8 DEF Once
<1>10. Exact'
  <2> SUFFICES ASSUME NEW x \in Items PROVE InHand(x)' <=> file'[x[2]] = x[1]
    BY Zenon DEF Exact
  <2>1. InHand(x)' <=> InHand(x) /\ x # y
    BY <1>8 DEF InHand
  <2>2. x[1] \in Conns /\ x[2] \in Fds /\ x[1] # 0 /\ (x = y <=> x[1] = y[1] /\ x[2] = y[2])
    BY Numbers DEF Items, Conns
  <2>3. y[2] \in Fds /\ file[y[2]] = y[1]
    <3>1. InHand(y)
      BY <1>5 DEF InHand, Kinds
    <3> QED
      BY <1>3, <3>1, Zenon DEF Exact, Items
  <2>4. CASE x[2] = y[2]
    <3>1. file'[x[2]] = 0
      BY <1>1, <1>3, <1>4, <2>3, <2>4
    <3>2. InHand(x) => x = y
      BY <1>3, <2>2, <2>3, <2>4, Zenon DEF Exact
    <3> QED
      BY <2>1, <2>2, <3>1, <3>2, Zenon
  <2>5. CASE x[2] # y[2]
    <3>1. file'[x[2]] = file[x[2]]
      BY <1>1, <1>3, <1>4, <2>2, <2>5
    <3>2. x # y
      BY <2>5
    <3> QED
      BY <1>3, <2>1, <3>1, <3>2, Zenon DEF Exact
  <2> QED
    BY <2>4, <2>5, Zenon
<1> QED
  BY <1>9, <1>10

\* The destructor of Link: nothing is open under the descriptor, or the process
\* is over.
LEMMA CloseAgainHold ==
  ASSUME HoldInv, TypeInv', NEW w \in Threads, CloseAgain(w)
  PROVE  HoldInv'
<1>1. SUFFICES ASSUME dpc' # "over" PROVE HoldInv'
  BY DEF HoldInv
<1>2. /\ wpc[w] = "closing" /\ file[mine[w][2]] = 0
      /\ file' = [file EXCEPT ![mine[w][2]] = 0]
      /\ mine' = [mine EXCEPT ![w] = None]
      /\ wpc' = [wpc EXCEPT ![w] = "loop"]
      /\ dpc' = dpc /\ item' = item /\ queue' = queue /\ links' = links
  BY <1>1 DEF CloseAgain
<1>3. /\ mine[w] \in Items /\ file \in [Fds -> 0..MaxConns]
      /\ mine \in [Threads -> Items \cup {None}]
      /\ wpc \in [Threads -> {"start", "loop", "woken", "popped", "closing", "over"}]
  BY <1>2, Zenon DEF HoldInv, TypeInv, TypeOK, Handed
<1>4. mine[w][2] \in Fds
  BY <1>3 DEF Items
<1>5. file' = file
  BY <1>2, <1>3, <1>4
<1>6. \A t \in Threads : /\ wpc'[t] = "popped" <=> wpc[t] = "popped"
                         /\ wpc[t] = "popped" => mine'[t] = mine[t]
  BY <1>2, <1>3
<1> QED
  BY <1>1, <1>2, <1>5, <1>6, SameHold

\* Every step keeps every connection in one place.
LEMMA HoldStep == HoldInv /\ [Next]_vars => HoldInv'
<1> SUFFICES ASSUME HoldInv, [Next]_vars PROVE HoldInv'
  OBVIOUS
<1>0. TypeInv' /\ TypeOK
  BY TypeStep DEF HoldInv, TypeInv
<1>1. CASE Dispatcher
  <2>1. CASE Ready
    BY <1>0, <2>1, SameHold DEF Ready
  <2>2. CASE Notify
    BY <1>0, <2>2, SameHold DEF Notify
  <2> QED
    BY <1>0, <1>1, <2>1, <2>2, PushHold, AcceptHold, Zenon DEF Dispatcher
<1>2. ASSUME NEW t \in Threads, Worker(t) PROVE HoldInv'
  <2>1. CASE Start(t)
    BY <1>0, <2>1, SameHold, Zenon DEF Start, TypeOK
  <2>2. CASE Wake(t)
    BY <1>0, <2>2, SameHold, Zenon DEF Wake, TypeOK
  <2>3. ASSUME NEW l \in Conns \X Fds \X {t}, Process(t, l) PROVE HoldInv'
    BY <1>0, <2>3, SameHold, Zenon DEF Process, server
  <2> QED
    BY <1>0, <1>2, <2>1, <2>2, <2>3, PopHold, RegisterHold, CloseAgainHold, CloseHold, Zenon
    DEF Worker
<1>3. ASSUME UNCHANGED server PROVE HoldInv'
  BY <1>0, <1>3, SameHold DEF server
<1>4. ASSUME NEW c \in Conns, Client(c) PROVE HoldInv'
  BY <1>3, <1>4 DEF Client, Connect, Send, Leave
<1>5. CASE UNCHANGED vars
  BY <1>3, <1>5 DEF vars
<1> QED
  BY <1>1, <1>2, <1>4, <1>5 DEF Next

\* No connection is there at first.
LEMMA InitHold == Init => HoldInv
<1> SUFFICES ASSUME Init PROVE HoldInv
  OBVIOUS
<1>1. TypeInv
  BY InitType
<1>2. ASSUME NEW k \in Kinds, NEW t \in Threads, NEW i \in Nat, NEW x \in Items
      PROVE  ~Holds(k, t, i, x)
  BY DEF Init, Holds
<1>3. Once
  BY <1>2 DEF Once
<1>4. ASSUME NEW x \in Items PROVE file[x[2]] # x[1]
  BY Numbers DEF Init, Items, Conns
<1>5. Exact
  BY <1>2, <1>4, Zenon DEF Exact, InHand
<1> QED
  BY <1>1, <1>3, <1>5 DEF HoldInv

\* The places of the connections, in every state.
THEOREM HoldInvHolds == Spec => []HoldInv
BY InitHold, HoldStep, PTL DEF Spec

\* What the threads hold, place by place.
LEMMA HeldPlaces ==
  ASSUME NEW x
  PROVE  x \in Held <=>
           \/ dpc = "push" /\ x = item
           \/ \E t \in Threads : \E i \in DOMAIN queue[t] : x = queue[t][i]
           \/ \E t \in Threads : wpc[t] = "popped" /\ x = mine[t]
           \/ \E l \in links : x = <<l[1], l[2]>>
<1> DEFINE A == IF dpc = "push" THEN {item} ELSE {}
           B == UNION {{queue[t][i] : i \in DOMAIN queue[t]} : t \in Threads}
           C == {mine[t] : t \in {u \in Threads : wpc[u] = "popped"}}
           D == {<<l[1], l[2]>> : l \in links}
<1>0. Held = A \cup B \cup C \cup D
  BY DEF Held
<1>1. x \in A <=> dpc = "push" /\ x = item
  OBVIOUS
<1>2. x \in B <=> \E t \in Threads : \E i \in DOMAIN queue[t] : x = queue[t][i]
  OBVIOUS
<1>3. x \in C <=> \E t \in Threads : wpc[t] = "popped" /\ x = mine[t]
  OBVIOUS
<1>4. x \in D <=> \E l \in links : x = <<l[1], l[2]>>
  OBVIOUS
<1> HIDE DEF A, B, C, D
<1> QED
  BY <1>0, <1>1, <1>2, <1>3, <1>4, Zenon

\* The places make up what the threads hold.
LEMMA HoldSuffices == HoldInv => HeldIsOpen
<1> SUFFICES ASSUME HoldInv, dpc # "over"
             PROVE  Held = {<<file[f], f>> : f \in {g \in Fds : file[g] # 0}}
  BY DEF HeldIsOpen, foreign
<1>1. /\ Exact /\ TypeOK /\ Handed /\ file \in [Fds -> 0..MaxConns]
      /\ queue \in [Threads -> Seq(Items)] /\ links \subseteq Conns \X Fds \X Threads
  BY Zenon DEF HoldInv, TypeInv, TypeOK
<1>2. ASSUME NEW x \in Held PROVE x \in Items /\ InHand(x)
  <2>1. CASE dpc = "push" /\ x = item
    <3>1. x \in Items /\ Holds("item", 0, 0, x)
      BY <1>1, <2>1, Zenon DEF Handed, Holds
    <3> QED
      BY <3>1, ZeroThread DEF InHand, Kinds
  <2>2. ASSUME NEW t \in Threads, NEW i \in DOMAIN queue[t], x = queue[t][i]
        PROVE  x \in Items /\ InHand(x)
    <3>1. i \in Nat /\ x \in Items
      BY <1>1, <2>2
    <3>2. Holds("queue", t, i, x)
      BY <2>2 DEF Holds
    <3> QED
      BY <3>1, <3>2 DEF InHand, Kinds
  <2>3. ASSUME NEW t \in Threads, wpc[t] = "popped", x = mine[t]
        PROVE  x \in Items /\ InHand(x)
    <3>1. x \in Items /\ Holds("mine", t, 0, x)
      BY <1>1, <2>3, Zenon DEF Handed, Holds
    <3> QED
      BY <3>1 DEF InHand, Kinds
  <2>4. ASSUME NEW l \in links, x = <<l[1], l[2]>>
        PROVE  x \in Items /\ InHand(x)
    <3>1. /\ l[1] \in Conns /\ l[2] \in Fds /\ l[3] \in Threads
          /\ l = <<l[1], l[2], l[3]>> /\ x[1] = l[1] /\ x[2] = l[2]
      BY <1>1, <2>4
    <3>2. x \in Items
      BY <2>4, <3>1 DEF Items
    <3>3. Holds("link", l[3], 0, x)
      BY <2>4, <3>1 DEF Holds
    <3> QED
      BY <3>1, <3>2, <3>3 DEF InHand, Kinds
  <2> QED
    BY <2>1, <2>2, <2>3, <2>4, HeldPlaces, Zenon
<1>3. ASSUME NEW x \in Items, InHand(x) PROVE x \in Held
  <2>1. PICK k \in Kinds, t \in Threads, i \in Nat : Holds(k, t, i, x)
    BY <1>3 DEF InHand
  <2>2. x = <<x[1], x[2]>>
    BY DEF Items
  <2>3. CASE k = "item"
    BY <2>1, <2>3, HeldPlaces, Zenon DEF Holds
  <2>4. CASE k = "queue"
    BY <2>1, <2>4, HeldPlaces, Zenon DEF Holds
  <2>5. CASE k = "mine"
    BY <2>1, <2>5, HeldPlaces, Zenon DEF Holds
  <2>6. CASE k = "link"
    <3>1. PICK l \in links : l = <<x[1], x[2], t>>
      BY <2>1, <2>6 DEF Holds
    <3>2. x = <<l[1], l[2]>>
      BY <2>2, <3>1
    <3> QED
      BY <3>2, HeldPlaces, Zenon
  <2> QED
    BY <2>3, <2>4, <2>5, <2>6 DEF Kinds
<1>4. ASSUME NEW x \in Items
      PROVE  x \in {<<file[f], f>> : f \in {g \in Fds : file[g] # 0}} <=> file[x[2]] = x[1]
  BY Numbers DEF Items, Conns
<1>5. ASSUME NEW f \in Fds, file[f] # 0 PROVE <<file[f], f>> \in Items
  BY <1>1, <1>5, Numbers DEF Items, Conns
<1>6. ASSUME NEW x \in Held
      PROVE  x \in {<<file[f], f>> : f \in {g \in Fds : file[g] # 0}}
  BY <1>1, <1>2, <1>4 DEF Exact
<1>7. ASSUME NEW x \in {<<file[f], f>> : f \in {g \in Fds : file[g] # 0}}
      PROVE  x \in Held
  <2>1. x \in Items
    BY <1>5
  <2> QED
    BY <1>1, <1>3, <1>4, <2>1, Zenon DEF Exact
<1> QED
  BY <1>6, <1>7

\* Until a worker closes a descriptor that is not its own, the connections the
\* threads hold are the open ones: accept, cq_push, cq_pop, register_conn and
\* Link::close lose none and mix up none.
THEOREM HeldIsOpenHolds == Spec => []HeldIsOpen
BY HoldInvHolds, HoldSuffices, PTL
=============================================================================
