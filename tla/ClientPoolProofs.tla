-------------------------- MODULE ClientPoolProofs --------------------------
(***************************************************************************)
(* Proofs about ClientPool, for any number of connections, items and       *)
(* calls: type correctness, and that a call is answered by its own replies *)
(* only, as long as no connection is counted down twice.                   *)
(***************************************************************************)
EXTENDS ClientPool, FiniteSetTheorems, SequenceTheorems, TLAPS

Running == pc \in {"polling", "handling"}

\* A report of poll that is not handled yet is about a live connection of the
\* call, and about an event it asked for unless it is an error.
Reported ==
  \A c \in Conns : revents[c] # {} =>
    /\ pc = "handling" /\ c \in active /\ c \in alive
    /\ \/ "err" \in revents[c]
       \/ /\ revents[c] \subseteq events[c]
          /\ "in" \in revents[c] /\ c \notin broken => in[c] # <<>>

\* A running call waits for one thing per connection, and only on live
\* connections of its own.
Waits ==
  \A c \in Conns :
    /\ events[c] \in {{}, {"in"}, {"out"}}
    /\ Running /\ events[c] # {} => c \in active /\ c \in alive

\* The one request of call n on connection c, or its reply, is on its way.
Carries(c) ==
  \/ Len(out[c]) = 1 /\ out[c][1].n = n /\ in[c] = <<>>
  \/ Len(in[c]) = 1 /\ in[c][1].req.n = n /\ out[c] = <<>>

\* A live connection carries the call's request if the call waits for the
\* reply, and nothing otherwise; any other connection carries nothing.
Wires ==
  \A c \in Conns :
    /\ input[c] = <<>>
    /\ IF Running /\ events[c] = {"in"} /\ c \in alive \ broken
       THEN Carries(c)
       ELSE out[c] = <<>> /\ in[c] = <<>>

\* Replies parsed are the call's own; a connection that is still waited for
\* has none, and between calls there are none.
Parsed ==
  \A c \in Conns :
    /\ pc = "idle" => got[c] = <<>>
    /\ ~twice => \A i \in DOMAIN got[c] : got[c][i].req.n = n

\* m_nActiveConn counts the connections the call waits for.
Counted ==
  Running /\ (~twice \/ rc = "ok") => count = Cardinality(StillWanted)

\* Without an error each connection is waited for or has answered once.
Answered ==
  rc = "ok" /\ pc # "idle" => \A c \in active :
    IF Running /\ events[c] # {} THEN got[c] = <<>> ELSE Len(got[c]) = 1

Inv ==
  /\ TypeOK
  /\ Reported /\ Waits
  /\ ~twice => Wires
  /\ Parsed /\ Counted /\ Answered

-----------------------------------------------------------------------------
(* Sequences, sets and the counter.                                        *)

LEMMA SeqFacts ==
  ASSUME NEW S, NEW s \in Seq(S)
  PROVE  /\ s # <<>> => Head(s) \in S /\ Tail(s) \in Seq(S) /\ Head(s) = s[1]
         /\ \A t \in Seq(S) : s \o t \in Seq(S)
         /\ \A x \in S : Append(s, x) \in Seq(S) /\ Append(s, x) # <<>>
         /\ s = <<>> => \A t \in Seq(S) : s \o t = t
         /\ s = <<>> => \A x \in S : Append(s, x) = <<x>> /\ Len(Append(s, x)) = 1
                                     /\ Append(s, x)[1] = x
         /\ Len(s) = 1 => Tail(s) = <<>>
<1>1. s # <<>> => Head(s) \in S /\ Tail(s) \in Seq(S) /\ Head(s) = s[1]
  OBVIOUS
<1>2. \A t \in Seq(S) : s \o t \in Seq(S)
  OBVIOUS
<1>3. ASSUME NEW x \in S PROVE Append(s, x) \in Seq(S) /\ Append(s, x) # <<>>
  <2>1. Append(s, x) \in Seq(S) /\ Len(Append(s, x)) = Len(s) + 1 /\ Len(s) \in Nat
    OBVIOUS
  <2> QED
    BY <2>1
<1>4. s = <<>> => \A t \in Seq(S) : s \o t = t
  OBVIOUS
<1>5. s = <<>> => \A x \in S : Append(s, x) = <<x>> /\ Len(Append(s, x)) = 1
                              /\ Append(s, x)[1] = x
  OBVIOUS
<1>6. ASSUME Len(s) = 1 PROVE Tail(s) = <<>>
  <2>1. Tail(s) \in Seq(S) /\ Len(Tail(s)) = 0
    BY <1>1, <1>6
  <2> QED
    BY <2>1, EmptySeq, Zenon
<1> QED
  BY <1>1, <1>2, <1>3, <1>4, <1>5, <1>6

LEMMA NonEmptyConcat ==
  ASSUME NEW S, NEW s \in Seq(S), NEW t \in Seq(S), t # <<>>
  PROVE  s \o t # <<>>
<1>1. PICK k \in Nat : k = Len(s)
  OBVIOUS
<1>2. PICK m \in Nat : m = Len(t) /\ m # 0
  BY EmptySeq
<1>3. Len(s \o t) = k + m
  BY <1>1, <1>2
<1>4. k + m # 0
  BY <1>2
<1> QED
  BY <1>2, <1>3, <1>4

LEMMA SmallModulo ==
  ASSUME NEW w \in Nat, NEW k \in 0..(w - 1)
  PROVE  k % w = k
  OBVIOUS

LEMMA ConnsFinite == IsFiniteSet(Conns) /\ Cardinality(Conns) = N
<1>1. N \in Nat
  BY ClientAssumption
<1> QED
  BY <1>1, FS_Interval DEF Conns

LEMMA FewConns ==
  ASSUME NEW S, S \subseteq Conns
  PROVE  /\ IsFiniteSet(S) /\ Cardinality(S) \in 0..(Wrap - 1)
         /\ Cardinality(S) = 0 => S = {}
         /\ \A c \in S : /\ Cardinality(S \ {c}) = Cardinality(S) - 1
                         /\ (Cardinality(S) - 1) % Wrap = Cardinality(S) - 1
<1>1. IsFiniteSet(S) /\ Cardinality(S) <= N
  BY ConnsFinite, FS_Subset
<1>2. Cardinality(S) \in Nat
  BY <1>1, FS_CardinalityType
<1>3. N \in Nat /\ Wrap \in Nat /\ Wrap > N
  BY ClientAssumption
<1>4. Cardinality(S) \in 0..(Wrap - 1)
  BY <1>1, <1>2, <1>3
<1>5. Cardinality(S) = 0 => S = {}
  BY <1>1, FS_EmptySet
<1>6. ASSUME NEW c \in S
      PROVE  /\ Cardinality(S \ {c}) = Cardinality(S) - 1
             /\ (Cardinality(S) - 1) % Wrap = Cardinality(S) - 1
  <2>1. Cardinality(S \ {c}) = Cardinality(S) - 1
    BY <1>1, FS_RemoveElement
  <2>2. Cardinality(S) # 0
    BY <1>5, <1>6
  <2>3. Cardinality(S) - 1 \in 0..(Wrap - 1)
    BY <1>2, <1>3, <1>4, <2>2
  <2>4. PICK k \in 0..(Wrap - 1) : k = Cardinality(S) - 1
    BY <2>3
  <2>5. k % Wrap = k
    BY <1>3, SmallModulo
  <2> QED
    BY <2>1, <2>4, <2>5
<1> QED
  BY <1>1, <1>4, <1>5, <1>6

LEMMA DecrementType ==
  ASSUME count \in 0..(Wrap - 1)
  PROVE  Decrement \in 0..(Wrap - 1)
<1>1. Wrap \in Nat /\ Wrap > 0 /\ count - 1 \in Int
  BY ClientAssumption
<1> QED
  BY <1>1 DEF Decrement

\* The end of a turn.
LEMMA TurnFacts ==
  ASSUME TypeOK, NEW c \in Conns, TurnOver(c)
  PROVE  /\ revents' = [revents EXCEPT ![c] = {}]
         /\ revents' \in [Conns -> SUBSET {"in", "out", "err"}]
         /\ UNCHANGED <<n, op, active, faults>>
         /\ pc' \in {"handling", "polling", "returned"}
         /\ \A d \in Conns : revents'[d] # {} => pc' = "handling"
         /\ pc' = "returned" => count' = 0
<1>1. revents' = [revents EXCEPT ![c] = {}]
  BY DEF TurnOver
<1>2. revents' \in [Conns -> SUBSET {"in", "out", "err"}]
  BY <1>1 DEF TypeOK
<1>3. ASSUME NEW d \in Conns, revents'[d] # {} PROVE pc' = "handling"
  <2>1. revents' # [e \in Conns |-> {}]
    BY <1>3
  <2> QED
    BY <2>1 DEF TurnOver
<1>4. pc' \in {"handling", "polling", "returned"}
  BY DEF TurnOver
<1>5. pc' = "returned" => count' = 0
  BY DEF TurnOver
<1> QED
  BY <1>1, <1>2, <1>3, <1>4, <1>5 DEF TurnOver

LEMMA InitInv == Init => Inv
<1> SUFFICES ASSUME Init PROVE Inv
  OBVIOUS
<1>1. /\ 0 \in 0..(Wrap - 1) /\ 0 \in 0..MaxCalls /\ 0 \in 0..MaxItems
      /\ 0 \in 0..MaxFaults
  BY ClientAssumption
<1>2. /\ out \in [Conns -> Seq(Requests)] /\ in \in [Conns -> Seq(Replies)]
      /\ input \in [Conns -> Seq(Replies)] /\ got \in [Conns -> Seq(Replies)]
  BY DEF Init
<1>3. /\ buf \in [Conns -> 0..MaxItems] /\ events \in [Conns -> SUBSET {"in", "out"}]
      /\ revents \in [Conns -> SUBSET {"in", "out", "err"}]
  BY <1>1 DEF Init
<1>4. TypeOK
  BY <1>1, <1>2, <1>3, Zenon DEF Init, TypeOK, Codes, Ops
<1> QED
  BY <1>4 DEF Init, Inv, Reported, Waits, Wires, Parsed, Counted, Answered, Running

-----------------------------------------------------------------------------
(* The proxies and time.                                                   *)

\* Steps that leave the call alone.
LEMMA CallUnchanged ==
  ASSUME Inv, UNCHANGED <<alive, call, twice>>
  PROVE  Waits' /\ Parsed' /\ Counted' /\ Answered'
<1>1. UNCHANGED <<alive, pc, n, events, active, count, got, rc, twice>>
  BY DEF call
<1>2. Waits'
  BY <1>1 DEF Inv, Waits, Running
<1>3. Parsed'
  BY <1>1 DEF Inv, Parsed
<1>4. Counted'
  BY <1>1 DEF Inv, Counted, Running, StillWanted
<1>5. Answered'
  BY <1>1 DEF Inv, Answered, Running
<1> QED
  BY <1>2, <1>3, <1>4, <1>5

LEMMA ServeInv ==
  ASSUME Inv, NEW c \in Conns, NEW hit \in BOOLEAN, Serve(c, hit)
  PROVE  Inv'
<1>1. PICK r : r = Head(out[c])
  OBVIOUS
<1>2. PICK a : a = [req |-> r, hit |-> hit]
  BY Zenon
<1>3. /\ out \in [Conns -> Seq(Requests)] /\ in \in [Conns -> Seq(Replies)]
      /\ out[c] \in Seq(Requests) /\ in[c] \in Seq(Replies)
  BY DEF Inv, TypeOK
<1>4. /\ out[c] # <<>> /\ out' = [out EXCEPT ![c] = Tail(out[c])]
      /\ in' = [in EXCEPT ![c] = Append(in[c], a)]
  BY <1>1, <1>2, <1>3 DEF Serve
<1>5. UNCHANGED <<up, alive, waiting, broken, input, call, faults, twice>>
  BY DEF Serve
<1>6. UNCHANGED <<pc, n, op, buf, events, revents, active, count, got, rc>>
  BY <1>5 DEF call
<1>7. /\ r \in Requests /\ Tail(out[c]) \in Seq(Requests) /\ a \in Replies
      /\ r = out[c][1]
  BY <1>1, <1>2, <1>3, <1>4, SeqFacts DEF Replies
<1>8. out' \in [Conns -> Seq(Requests)] /\ in' \in [Conns -> Seq(Replies)]
  BY <1>3, <1>4, <1>7, SeqFacts
<1>9. TypeOK'
  BY <1>5, <1>6, <1>8 DEF Inv, TypeOK
<1>10. \A d \in Conns : in'[d] = <<>> => in[d] = <<>>
  <2>1. Append(in[c], a) # <<>>
    BY <1>3, <1>7, SeqFacts
  <2> QED
    BY <1>3, <1>4, <2>1
<1>11. Reported'
  BY <1>5, <1>6, <1>10 DEF Inv, Reported
<1>12. ASSUME ~twice PROVE Wires'
  <2> SUFFICES ASSUME NEW d \in Conns
               PROVE  /\ input'[d] = <<>>
                      /\ IF Running' /\ events'[d] = {"in"} /\ d \in alive' \ broken'
                         THEN Carries(d)'
                         ELSE out'[d] = <<>> /\ in'[d] = <<>>
    BY DEF Wires
  <2>1. /\ input[d] = <<>>
        /\ IF Running /\ events[d] = {"in"} /\ d \in alive \ broken
           THEN Carries(d) ELSE out[d] = <<>> /\ in[d] = <<>>
    BY <1>12 DEF Inv, Wires
  <2>2. CASE d # c
    <3>1. out'[d] = out[d] /\ in'[d] = in[d]
      BY <1>3, <1>4, <2>2
    <3> QED
      BY <1>5, <1>6, <2>1, <3>1 DEF Running, Carries
  <2>3. CASE d = c
    <3>1. Running /\ events[c] = {"in"} /\ c \in alive \ broken /\ Carries(c)
      BY <1>4, <2>1, <2>3
    <3>2. Len(out[c]) = 1 /\ out[c][1].n = n /\ in[c] = <<>>
      BY <1>4, <3>1 DEF Carries
    <3>3. Tail(out[c]) = <<>>
      BY <1>3, <3>2, SeqFacts
    <3>4. out'[c] = <<>> /\ in'[c] = <<a>>
      BY <1>3, <1>4, <1>7, <3>2, <3>3, SeqFacts
    <3>5. Carries(c)'
      BY <1>2, <1>6, <1>7, <3>2, <3>4 DEF Carries
    <3> QED
      BY <1>5, <1>6, <2>1, <2>3, <3>1, <3>5 DEF Running
  <2> QED
    BY <2>2, <2>3
<1> QED
  BY <1>5, <1>9, <1>11, <1>12, CallUnchanged DEF Inv

LEMMA ResetInv ==
  ASSUME Inv, NEW c \in Conns, NEW goes \in BOOLEAN, Reset(c, goes)
  PROVE  Inv'
<1>1. /\ broken' = broken \cup ({c} \cap alive) /\ up' \in {up, up \ {c}}
      /\ out' = [out EXCEPT ![c] = <<>>] /\ in' = [in EXCEPT ![c] = <<>>]
      /\ faults < MaxFaults /\ faults' = faults + 1
      /\ UNCHANGED <<alive, waiting, input, call, twice>>
  BY DEF Reset
<1>2. UNCHANGED <<pc, n, op, buf, events, revents, active, count, got, rc>>
  BY <1>1 DEF call
<1>3. out' \in [Conns -> Seq(Requests)] /\ in' \in [Conns -> Seq(Replies)]
  BY <1>1 DEF Inv, TypeOK
<1>4. faults' \in 0..MaxFaults
  <2>1. faults \in 0..MaxFaults /\ MaxFaults \in Nat
    BY ClientAssumption DEF Inv, TypeOK
  <2> QED
    BY <1>1, <2>1
<1>5. TypeOK'
  BY <1>1, <1>2, <1>3, <1>4 DEF Inv, TypeOK
<1>6. \A d \in Conns : d # c => out'[d] = out[d] /\ in'[d] = in[d]
  BY <1>1 DEF Inv, TypeOK
<1>7. out'[c] = <<>> /\ in'[c] = <<>> /\ (c \in alive => c \in broken')
  BY <1>1 DEF Inv, TypeOK
<1>8. \A d \in Conns : d \notin broken' => d \notin broken
  BY <1>1
<1>9. Reported'
  <2> SUFFICES ASSUME NEW d \in Conns, revents'[d] # {}
               PROVE  /\ pc' = "handling" /\ d \in active' /\ d \in alive'
                      /\ \/ "err" \in revents'[d]
                         \/ /\ revents'[d] \subseteq events'[d]
                            /\ "in" \in revents'[d] /\ d \notin broken' => in'[d] # <<>>
    BY DEF Reported
  <2>1. /\ pc = "handling" /\ d \in active /\ d \in alive
        /\ \/ "err" \in revents[d]
           \/ /\ revents[d] \subseteq events[d]
              /\ "in" \in revents[d] /\ d \notin broken => in[d] # <<>>
    BY <1>2 DEF Inv, Reported
  <2> QED
    BY <1>1, <1>2, <1>6, <1>7, <1>8, <2>1
<1>10. ASSUME ~twice PROVE Wires'
  <2> SUFFICES ASSUME NEW d \in Conns
               PROVE  /\ input'[d] = <<>>
                      /\ IF Running' /\ events'[d] = {"in"} /\ d \in alive' \ broken'
                         THEN Carries(d)'
                         ELSE out'[d] = <<>> /\ in'[d] = <<>>
    BY DEF Wires
  <2>1. /\ input[d] = <<>>
        /\ IF Running /\ events[d] = {"in"} /\ d \in alive \ broken
           THEN Carries(d) ELSE out[d] = <<>> /\ in[d] = <<>>
    BY <1>10 DEF Inv, Wires
  <2>2. CASE d # c
    <3>1. d \in broken' <=> d \in broken
      BY <1>1, <2>2
    <3> QED
      BY <1>1, <1>2, <1>6, <2>1, <2>2, <3>1 DEF Running, Carries
  <2>3. CASE d = c
    BY <1>1, <1>7, <2>1, <2>3
  <2> QED
    BY <2>2, <2>3
<1> QED
  BY <1>1, <1>5, <1>9, <1>10, CallUnchanged DEF Inv

\* A proxy comes back, or the time to wait before a new attempt is over.
LEMMA BackInv ==
  ASSUME Inv, NEW c \in Conns, Return(c) \/ RetryTime(c)
  PROVE  Inv'
<1>1. /\ up' \in {up, up \cup {c}} /\ waiting' \in {waiting, waiting \ {c}}
      /\ UNCHANGED <<alive, broken, out, in, input, call, faults, twice>>
  BY DEF Return, RetryTime
<1>2. UNCHANGED <<pc, n, op, buf, events, revents, active, count, got, rc>>
  BY <1>1 DEF call
<1>3. TypeOK'
  BY <1>1, <1>2 DEF Inv, TypeOK
<1>4. Reported' /\ (~twice => Wires')
  BY <1>1, <1>2 DEF Inv, Reported, Wires, Running, Carries
<1> QED
  BY <1>1, <1>3, <1>4, CallUnchanged DEF Inv

-----------------------------------------------------------------------------
(* The start and the end of a call.                                        *)

LEMMA DispatchInv ==
  ASSUME Inv, NEW o \in Ops, NEW to \in Routes(o), NEW can \in SUBSET Conns,
         Dispatch(o, to, can)
  PROVE  Inv'
<1> DEFINE wanted == {to[i] : i \in DOMAIN to} \ {0}
           trying == (wanted \ alive) \ waiting
           fresh  == trying \cap can
           used   == wanted \cap (alive \cup fresh)
<1>1. wanted \subseteq Conns
  <2>1. Target(o) \subseteq Conns
    BY ClientAssumption DEF Target
  <2>2. PICK k \in 1..MaxItems : to \in [1..k -> Target(o) \cup {0}]
    BY DEF Routes
  <2> QED
    BY <2>1, <2>2
<1>2. /\ pc = "idle" /\ n < MaxCalls /\ n' = n + 1 /\ op' = o
      /\ alive' = alive \cup fresh /\ waiting' = waiting \cup (trying \ can)
      /\ buf' \in [Conns -> 0..MaxItems]
      /\ UNCHANGED <<up, broken, out, in, input, revents, got, faults, twice>>
  BY DEF Dispatch
<1>3. /\ events' = [c \in Conns |-> IF c \in used THEN {"out"} ELSE {}]
      /\ active' = used /\ count' = Cardinality(used)
  BY DEF Dispatch
<1>4. \/ pc' = "polling" /\ rc' = "ok"
      \/ used = {} /\ pc' = "returned" /\ rc' \in {"key", "server"}
  BY DEF Dispatch
<1>5. alive' \subseteq Conns /\ waiting' \subseteq Conns /\ used \subseteq alive'
      /\ used \subseteq Conns
  BY <1>1, <1>2 DEF Inv, TypeOK
<1> HIDE DEF wanted, trying, fresh, used
<1>6. TypeOK'
  <2>1. n' \in 0..MaxCalls
    BY <1>2, ClientAssumption DEF Inv, TypeOK
  <2>2. count' \in 0..(Wrap - 1)
    BY <1>3, <1>5, FewConns
  <2>3. events' \in [Conns -> SUBSET {"in", "out"}] /\ active' \subseteq Conns
    BY <1>3, <1>5
  <2>4. rc' \in Codes /\ pc' \in {"idle", "polling", "handling", "returned"}
    BY <1>4 DEF Codes
  <2> QED
    BY <1>2, <1>5, <2>1, <2>2, <2>3, <2>4 DEF Inv, TypeOK
<1>7. Reported'
  BY <1>2 DEF Inv, Reported
<1>8. Waits'
  BY <1>3, <1>5 DEF Waits
<1>9. ASSUME ~twice PROVE Wires'
  <2>1. \A c \in Conns : input[c] = <<>> /\ out[c] = <<>> /\ in[c] = <<>>
    BY <1>2, <1>9 DEF Inv, Wires, Running
  <2>2. \A c \in Conns : events'[c] # {"in"}
    BY <1>3
  <2> QED
    BY <1>2, <2>1, <2>2 DEF Wires
<1>10. \A c \in Conns : got'[c] = <<>>
  BY <1>2 DEF Inv, Parsed
<1>11. Parsed'
  BY <1>10 DEF Parsed
<1>12. StillWanted' = used
  BY <1>3, <1>5 DEF StillWanted
<1>13. Counted'
  BY <1>3, <1>12 DEF Counted
<1>14. Answered'
  BY <1>3, <1>4, <1>5, <1>10 DEF Answered, Running
<1>15. ~twice' => ~twice
  BY <1>2
<1> QED
  BY <1>6, <1>7, <1>8, <1>9, <1>11, <1>13, <1>14, <1>15 DEF Inv

LEMMA PollInv ==
  ASSUME Inv, Poll
  PROVE  Inv'
<1>1. /\ pc = "polling" /\ pc' = "handling"
      /\ revents' = [c \in Conns |-> IF c \in active THEN Ready(c) ELSE {}]
      /\ UNCHANGED <<sockets, n, op, buf, events, active, count, got, rc, faults, twice>>
  BY DEF Poll
<1>2. UNCHANGED <<up, alive, waiting, broken, out, in, input>>
  BY <1>1 DEF sockets
<1>3. \A c \in Conns : Ready(c) \in SUBSET {"in", "out", "err"}
  BY DEF Ready
<1>4. TypeOK'
  BY <1>1, <1>2, <1>3 DEF Inv, TypeOK
<1>5. Reported'
  <2> SUFFICES ASSUME NEW c \in Conns, revents'[c] # {}
               PROVE  /\ c \in active /\ c \in alive
                      /\ \/ "err" \in revents'[c]
                         \/ /\ revents'[c] \subseteq events[c]
                            /\ "in" \in revents'[c] /\ c \notin broken => in[c] # <<>>
    BY <1>1, <1>2 DEF Reported
  <2>1. c \in active /\ revents'[c] = Ready(c)
    BY <1>1
  <2> QED
    BY <2>1 DEF Ready
<1>6. Running /\ Running'
  BY <1>1 DEF Running
<1>7. Waits' /\ (~twice => Wires')
  BY <1>1, <1>2, <1>6 DEF Inv, Waits, Wires, Carries
<1>8. Parsed' /\ Answered'
  BY <1>1, <1>6 DEF Inv, Parsed, Answered
<1>9. Counted'
  BY <1>1, <1>6 DEF Inv, Counted, StillWanted
<1> QED
  BY <1>1, <1>4, <1>5, <1>7, <1>8, <1>9 DEF Inv

\* markDead keeps the types, and leaves nothing on what it closes.
LEMMA MarkDeadFacts ==
  ASSUME TypeOK, NEW cs, cs \subseteq Conns, MarkDead(cs)
  PROVE  /\ alive' = alive \ cs /\ broken' = broken \ cs
         /\ UNCHANGED <<up, waiting, input>>
         /\ out' \in [Conns -> Seq(Requests)] /\ in' \in [Conns -> Seq(Replies)]
         /\ \A c \in cs : out'[c] = <<>> /\ in'[c] = <<>>
         /\ \A c \in Conns \ cs : out'[c] = out[c] /\ in'[c] = in[c]
  BY DEF MarkDead, TypeOK

LEMMA GiveUpInv ==
  ASSUME Inv, NEW code \in {"timeout", "poll"}, GiveUp(code)
  PROVE  Inv'
<1>1. /\ pc = "polling" /\ pc' = "returned" /\ rc' = code /\ MarkDead(StillWanted)
      /\ UNCHANGED <<n, op, buf, events, revents, active, count, got, faults, twice>>
  BY DEF GiveUp
<1>2. StillWanted \subseteq Conns /\ TypeOK
  BY DEF StillWanted, Inv, TypeOK
<1>3. /\ alive' = alive \ StillWanted /\ broken' = broken \ StillWanted
      /\ UNCHANGED <<up, waiting, input>>
      /\ out' \in [Conns -> Seq(Requests)] /\ in' \in [Conns -> Seq(Replies)]
      /\ \A c \in StillWanted : out'[c] = <<>> /\ in'[c] = <<>>
      /\ \A c \in Conns \ StillWanted : out'[c] = out[c] /\ in'[c] = in[c]
  BY <1>1, <1>2, MarkDeadFacts
<1>4. TypeOK'
  BY <1>1, <1>3 DEF Inv, TypeOK, Codes
<1>5. Reported'
  BY <1>1 DEF Inv, Reported
<1>6. Running /\ ~Running'
  BY <1>1 DEF Running
<1>7. Waits' /\ Counted'
  BY <1>1, <1>6 DEF Inv, Waits, Counted
<1>8. ASSUME ~twice PROVE Wires'
  <2>1. ASSUME NEW c \in Conns PROVE input[c] = <<>> /\ out'[c] = <<>> /\ in'[c] = <<>>
    <3>1. /\ input[c] = <<>>
          /\ events[c] # {} => c \in StillWanted
          /\ events[c] = {} => out[c] = <<>> /\ in[c] = <<>>
      BY <1>6, <1>8 DEF Inv, Wires, Waits, StillWanted
    <3> QED
      BY <1>3, <3>1
  <2> QED
    BY <1>3, <1>6, <2>1 DEF Wires
<1>9. Parsed' /\ Answered'
  BY <1>1 DEF Inv, Parsed, Answered
<1> QED
  BY <1>1, <1>4, <1>5, <1>7, <1>8, <1>9 DEF Inv

LEMMA DestroyInv ==
  ASSUME Inv, Destroy
  PROVE  Inv'
<1>1. /\ pc = "returned" /\ pc' = "idle"
      /\ buf' = [c \in Conns |-> 0] /\ got' = [c \in Conns |-> <<>>]
      /\ events' = [c \in Conns |-> {}] /\ active' = {} /\ count' = 0
      /\ op' = "get" /\ rc' = "ok" /\ UNCHANGED <<sockets, n, revents, faults, twice>>
  BY DEF Destroy
<1>2. UNCHANGED <<up, alive, waiting, broken, out, in, input>>
  BY <1>1 DEF sockets
<1>3. 0 \in 0..(Wrap - 1) /\ 0 \in 0..MaxItems
  BY ClientAssumption
<1>4. buf' \in [Conns -> 0..MaxItems] /\ got' \in [Conns -> Seq(Replies)]
      /\ events' \in [Conns -> SUBSET {"in", "out"}]
  BY <1>1, <1>3
<1>5. TypeOK'
  BY <1>1, <1>2, <1>3, <1>4 DEF Inv, TypeOK, Codes, Ops
<1>6. ~Running /\ ~Running'
  BY <1>1 DEF Running
<1>7. Reported'
  BY <1>1 DEF Inv, Reported
<1>8. Waits' /\ Counted' /\ Answered' /\ Parsed'
  BY <1>1, <1>6 DEF Waits, Counted, Answered, Parsed
<1>9. ~twice => Wires'
  BY <1>2, <1>6 DEF Inv, Wires
<1> QED
  BY <1>1, <1>5, <1>7, <1>8, <1>9 DEF Inv

-----------------------------------------------------------------------------
(* The turns of waitPoll.                                                  *)

\* A connection whose turn it is belongs to the call, and is waited for unless
\* poll reported an error.
LEMMA TurnOf ==
  ASSUME Inv, NEW c \in Conns, revents[c] # {}
  PROVE  /\ Running /\ c \in active /\ c \in alive
         /\ events[c] # {} => c \in StillWanted
         /\ revents[c] = {"out"} => events[c] = {"out"}
         /\ revents[c] = {"in"} => events[c] = {"in"} /\ (c \notin broken => in[c] # <<>>)
  BY DEF Inv, Reported, Waits, Running, StillWanted

\* A connection that is still waited for is counted, and counted down once.
LEMMA CountDown ==
  ASSUME Inv, Running, ~twice \/ rc = "ok", NEW c \in StillWanted
  PROVE  /\ count # 0
         /\ Decrement = Cardinality(StillWanted \ {c})
         /\ Decrement = 0 => StillWanted \ {c} = {}
<1>1. StillWanted \subseteq Conns /\ StillWanted \ {c} \subseteq Conns
  BY DEF StillWanted, Inv, TypeOK
<1>2. count = Cardinality(StillWanted)
  BY DEF Inv, Counted
<1>3. /\ Cardinality(StillWanted \ {c}) = count - 1
      /\ (count - 1) % Wrap = count - 1 /\ count # 0
  BY <1>1, <1>2, FewConns, Zenon
<1>4. Decrement = Cardinality(StillWanted \ {c})
  BY <1>3 DEF Decrement
<1> QED
  BY <1>1, <1>3, <1>4, FewConns

LEMMA DropInv ==
  ASSUME Inv, NEW c \in Conns, NEW code \in {"conn", "send", "recv"},
         revents[c] # {}, Drop(c, code)
  PROVE  Inv'
<1>1. /\ MarkDead({c}) /\ TurnOver(c) /\ rc' = code /\ count' = Decrement
      /\ events' = [events EXCEPT ![c] = {}] /\ UNCHANGED <<buf, got>>
  BY DEF Drop
<1>2. twice' = (twice \/ events[c] = {})
  BY DEF Drop
<1>3. /\ alive' = alive \ {c} /\ broken' = broken \ {c} /\ UNCHANGED <<up, waiting, input>>
      /\ out' \in [Conns -> Seq(Requests)] /\ in' \in [Conns -> Seq(Replies)]
      /\ out'[c] = <<>> /\ in'[c] = <<>>
      /\ \A d \in Conns \ {c} : out'[d] = out[d] /\ in'[d] = in[d]
  BY <1>1, MarkDeadFacts DEF Inv
<1>4. /\ revents' = [revents EXCEPT ![c] = {}]
      /\ revents' \in [Conns -> SUBSET {"in", "out", "err"}]
      /\ UNCHANGED <<n, op, active, faults>>
      /\ pc' \in {"handling", "polling", "returned"}
      /\ \A d \in Conns : revents'[d] # {} => pc' = "handling"
      /\ pc' = "returned" => count' = 0
  BY <1>1, TurnFacts DEF Inv
<1>5. /\ events'[c] = {} /\ revents'[c] = {}
      /\ \A d \in Conns \ {c} : events'[d] = events[d] /\ revents'[d] = revents[d]
      /\ events' \in [Conns -> SUBSET {"in", "out"}]
  BY <1>1, <1>4 DEF Inv, TypeOK
<1>6. TypeOK'
  <2>1. twice' \in BOOLEAN
    BY <1>2, Zenon DEF Inv, TypeOK
  <2>2. count' \in 0..(Wrap - 1)
    BY <1>1, DecrementType DEF Inv, TypeOK
  <2> QED
    BY <1>1, <1>3, <1>4, <1>5, <2>1, <2>2 DEF Inv, TypeOK, Codes
<1>7. Running /\ c \in active /\ c \in alive /\ (events[c] # {} => c \in StillWanted)
  BY TurnOf
<1>8. Reported'
  BY <1>3, <1>4, <1>5, Zenon DEF Inv, Reported
<1>9. Waits'
  BY <1>3, <1>4, <1>5, <1>7, Zenon DEF Inv, Waits
<1>10. ~twice' => ~twice /\ events[c] # {}
  BY <1>2, Zenon
<1>11. StillWanted' = StillWanted \ {c}
  BY <1>4, <1>5 DEF StillWanted, Inv, TypeOK
<1>12. ASSUME ~twice'
       PROVE  count' = Cardinality(StillWanted') /\ (count' = 0 => StillWanted' = {})
  BY <1>1, <1>7, <1>10, <1>11, <1>12, CountDown
<1>13. Counted'
  BY <1>1, <1>12 DEF Counted
<1>14. ASSUME ~twice' PROVE Wires'
  <2>1. ASSUME NEW d \in Conns \ {c}, ~Running' PROVE events[d] = {}
    <3>1. StillWanted' = {}
      BY <1>4, <1>12, <1>14, <2>1 DEF Running
    <3> QED
      BY <1>7, <1>11, <2>1, <3>1 DEF Inv, Waits, StillWanted
  <2>2. ASSUME NEW d \in Conns \ {c}
        PROVE  /\ input[d] = <<>>
               /\ IF Running' /\ events'[d] = {"in"} /\ d \in alive' \ broken'
                  THEN Carries(d)' ELSE out'[d] = <<>> /\ in'[d] = <<>>
    <3>1. /\ input[d] = <<>>
          /\ IF events[d] = {"in"} /\ d \in alive \ broken
             THEN Carries(d) ELSE out[d] = <<>> /\ in[d] = <<>>
      BY <1>7, <1>10, <1>14 DEF Inv, Wires
    <3>2. Carries(d)' <=> Carries(d)
      BY <1>3, <1>4 DEF Carries
    <3> QED
      BY <1>3, <1>5, <2>1, <3>1, <3>2, Zenon
  <2>3. input[c] = <<>>
    BY <1>10, <1>14 DEF Inv, Wires
  <2> QED
    BY <1>3, <1>5, <2>2, <2>3 DEF Wires
<1>15. Parsed' /\ Answered'
  BY <1>1, <1>4, <1>10 DEF Inv, Parsed, Answered
<1> QED
  BY <1>6, <1>8, <1>9, <1>13, <1>14, <1>15 DEF Inv

LEMMA HandleOutInv ==
  ASSUME Inv, NEW c \in Conns, HandleOut(c), c \notin broken
  PROVE  Inv'
<1>1. PICK r : r = [n |-> n, op |-> op, item |-> buf[c]]
  BY Zenon
<1>2. /\ revents[c] = {"out"} /\ TurnOver(c)
      /\ out' = [out EXCEPT ![c] = Append(out[c], r)]
      /\ buf' = [buf EXCEPT ![c] = 0] /\ events' = [events EXCEPT ![c] = {"in"}]
      /\ UNCHANGED <<up, alive, waiting, broken, in, input, count, got, rc, twice>>
  BY <1>1 DEF HandleOut, Inv, TypeOK
<1>3. /\ revents' = [revents EXCEPT ![c] = {}]
      /\ revents' \in [Conns -> SUBSET {"in", "out", "err"}]
      /\ UNCHANGED <<n, op, active, faults>>
      /\ pc' \in {"handling", "polling", "returned"}
      /\ \A d \in Conns : revents'[d] # {} => pc' = "handling"
      /\ pc' = "returned" => count' = 0
  BY <1>2, TurnFacts DEF Inv
<1>4. Running /\ c \in active /\ c \in alive /\ events[c] = {"out"} /\ c \in StillWanted
  BY <1>2, TurnOf, Zenon
<1>5. /\ events'[c] = {"in"} /\ revents'[c] = {}
      /\ \A d \in Conns \ {c} : /\ events'[d] = events[d] /\ revents'[d] = revents[d]
                                /\ out'[d] = out[d]
      /\ events' \in [Conns -> SUBSET {"in", "out"}]
  BY <1>2, <1>3 DEF Inv, TypeOK
<1>6. r \in Requests
  BY <1>1 DEF Inv, TypeOK, Requests
<1>7. TypeOK'
  <2>1. 0 \in 0..MaxItems
    BY ClientAssumption
  <2>2. buf' \in [Conns -> 0..MaxItems]
    BY <1>2, <2>1 DEF Inv, TypeOK
  <2>3. out' \in [Conns -> Seq(Requests)]
    BY <1>2, <1>6, SeqFacts DEF Inv, TypeOK
  <2> QED
    BY <1>2, <1>3, <1>5, <2>2, <2>3 DEF Inv, TypeOK
<1>8. Reported'
  BY <1>2, <1>3, <1>5 DEF Inv, Reported
<1>9. Waits'
  BY <1>2, <1>3, <1>4, <1>5 DEF Inv, Waits
<1>10. ~twice \/ rc = "ok" => Running'
  BY <1>2, <1>3, <1>4, CountDown, Zenon DEF Running
<1>11. ASSUME ~twice PROVE Wires'
  <2>1. ASSUME NEW d \in Conns \ {c}
        PROVE  /\ input[d] = <<>>
               /\ IF Running' /\ events'[d] = {"in"} /\ d \in alive' \ broken'
                  THEN Carries(d)' ELSE out'[d] = <<>> /\ in'[d] = <<>>
    <3>1. /\ input[d] = <<>>
          /\ IF events[d] = {"in"} /\ d \in alive \ broken
             THEN Carries(d) ELSE out[d] = <<>> /\ in[d] = <<>>
      BY <1>4, <1>11 DEF Inv, Wires
    <3> QED
      BY <1>2, <1>3, <1>5, <1>10, <1>11, <3>1 DEF Carries
  <2>2. input[c] = <<>> /\ out[c] = <<>> /\ in[c] = <<>>
    BY <1>4, <1>11 DEF Inv, Wires
  <2>3. out'[c] = Append(out[c], r) /\ out[c] \in Seq(Requests)
    BY <1>2 DEF Inv, TypeOK
  <2>4. Len(out'[c]) = 1 /\ out'[c][1] = r
    BY <1>6, <2>2, <2>3, SeqFacts
  <2>5. Carries(c)'
    BY <1>1, <1>2, <1>3, <2>2, <2>4 DEF Carries
  <2> QED
    BY <1>2, <1>4, <1>5, <1>10, <1>11, <2>1, <2>2, <2>5 DEF Wires
<1>12. StillWanted' = StillWanted
  BY <1>3, <1>4, <1>5, Zenon DEF StillWanted, Inv, TypeOK
<1>13. Counted'
  BY <1>2, <1>4, <1>12, Zenon DEF Inv, Counted
<1>14. Parsed'
  BY <1>2, <1>3, Zenon DEF Inv, Parsed
<1>15. Answered'
  <2> SUFFICES ASSUME rc = "ok", NEW d \in active
               PROVE  IF Running' /\ events'[d] # {} THEN got[d] = <<>> ELSE Len(got[d]) = 1
    BY <1>2, <1>3 DEF Answered
  <2>1. IF events[d] # {} THEN got[d] = <<>> ELSE Len(got[d]) = 1
    BY <1>4 DEF Inv, Answered, Running
  <2>2. d \in Conns
    BY DEF Inv, TypeOK
  <2> QED
    BY <1>4, <1>5, <1>10, <2>1, <2>2
<1> QED
  BY <1>2, <1>7, <1>8, <1>9, <1>11, <1>13, <1>14, <1>15, Zenon DEF Inv

LEMMA HandleInInv ==
  ASSUME Inv, NEW c \in Conns, HandleIn(c), c \notin broken
  PROVE  Inv'
<1>1. PICK rd : rd = input[c] \o in[c]
  BY Zenon
<1>2. /\ revents[c] = {"in"} /\ TurnOver(c)
      /\ in' = [in EXCEPT ![c] = <<>>] /\ input' = [input EXCEPT ![c] = Tail(rd)]
      /\ got' = [got EXCEPT ![c] = Append(got[c], Head(rd))]
      /\ events' = [events EXCEPT ![c] = {}] /\ count' = Decrement
      /\ UNCHANGED <<up, alive, waiting, broken, out, buf, rc, twice>>
  BY <1>1, Zenon DEF HandleIn, Inv, TypeOK
<1>3. /\ revents' = [revents EXCEPT ![c] = {}]
      /\ revents' \in [Conns -> SUBSET {"in", "out", "err"}]
      /\ UNCHANGED <<n, op, active, faults>>
      /\ pc' \in {"handling", "polling", "returned"}
      /\ \A d \in Conns : revents'[d] # {} => pc' = "handling"
      /\ pc' = "returned" => count' = 0
  BY <1>2, TurnFacts DEF Inv
<1>4. /\ Running /\ c \in active /\ c \in alive /\ events[c] = {"in"}
      /\ c \in StillWanted /\ in[c] # <<>>
  BY <1>2, TurnOf, Zenon
<1>5. /\ events'[c] = {} /\ revents'[c] = {} /\ in'[c] = <<>>
      /\ input'[c] = Tail(rd) /\ got'[c] = Append(got[c], Head(rd))
      /\ \A d \in Conns \ {c} : /\ events'[d] = events[d] /\ revents'[d] = revents[d]
                                /\ in'[d] = in[d] /\ input'[d] = input[d]
                                /\ got'[d] = got[d]
      /\ events' \in [Conns -> SUBSET {"in", "out"}]
  BY <1>2, <1>3 DEF Inv, TypeOK
<1>6. /\ input[c] \in Seq(Replies) /\ in[c] \in Seq(Replies) /\ got[c] \in Seq(Replies)
  BY DEF Inv, TypeOK
<1>7. Head(rd) \in Replies /\ Tail(rd) \in Seq(Replies) /\ Append(got[c], Head(rd)) \in Seq(Replies)
  <2>1. rd \in Seq(Replies)
    BY <1>1, <1>6
  <2>2. rd # <<>>
    BY <1>1, <1>4, <1>6, NonEmptyConcat
  <2>3. Head(rd) \in Replies /\ Tail(rd) \in Seq(Replies)
    BY <2>1, <2>2, SeqFacts
  <2> QED
    BY <1>6, <2>3, SeqFacts
<1>8. TypeOK'
  <2>1. count' \in 0..(Wrap - 1)
    BY <1>2, DecrementType DEF Inv, TypeOK
  <2>2. /\ in' \in [Conns -> Seq(Replies)] /\ input' \in [Conns -> Seq(Replies)]
        /\ got' \in [Conns -> Seq(Replies)]
    BY <1>2, <1>7 DEF Inv, TypeOK
  <2> QED
    BY <1>2, <1>3, <1>5, <2>1, <2>2 DEF Inv, TypeOK
<1>9. Reported'
  BY <1>2, <1>3, <1>5 DEF Inv, Reported
<1>10. Waits'
  BY <1>2, <1>3, <1>4, <1>5, Zenon DEF Inv, Waits
<1>11. StillWanted' = StillWanted \ {c}
  BY <1>3, <1>5 DEF StillWanted, Inv, TypeOK
<1>12. ASSUME ~twice \/ rc = "ok"
       PROVE  count' = Cardinality(StillWanted') /\ (count' = 0 => StillWanted' = {})
  BY <1>2, <1>4, <1>11, <1>12, CountDown, Zenon
<1>13. Counted'
  BY <1>2, <1>12 DEF Counted
<1>14. ASSUME ~twice \/ rc = "ok", NEW d \in Conns \ {c}, ~Running' PROVE events[d] = {}
  <2>1. StillWanted' = {}
    BY <1>3, <1>12, <1>14 DEF Running
  <2> QED
    BY <1>4, <1>11, <1>14, <2>1 DEF Inv, Waits, StillWanted
<1>15. ASSUME ~twice
       PROVE  Tail(rd) = <<>> /\ Head(rd).req.n = n /\ out[c] = <<>>
  <2>1. input[c] = <<>> /\ Carries(c)
    BY <1>4, <1>15 DEF Inv, Wires
  <2>2. Len(in[c]) = 1 /\ in[c][1].req.n = n /\ out[c] = <<>>
    BY <1>4, <2>1 DEF Carries
  <2>3. rd = in[c]
    BY <1>1, <1>6, <2>1, SeqFacts
  <2> QED
    BY <1>4, <1>6, <2>2, <2>3, SeqFacts, Zenon
<1>16. ASSUME ~twice PROVE Wires'
  <2>1. ASSUME NEW d \in Conns \ {c}
        PROVE  /\ input'[d] = <<>>
               /\ IF Running' /\ events'[d] = {"in"} /\ d \in alive' \ broken'
                  THEN Carries(d)' ELSE out'[d] = <<>> /\ in'[d] = <<>>
    <3>1. /\ input[d] = <<>>
          /\ IF events[d] = {"in"} /\ d \in alive \ broken
             THEN Carries(d) ELSE out[d] = <<>> /\ in[d] = <<>>
      BY <1>4, <1>16 DEF Inv, Wires
    <3>2. Carries(d)' <=> Carries(d)
      BY <1>2, <1>3, <1>5 DEF Carries
    <3> QED
      BY <1>2, <1>5, <1>14, <1>16, <3>1, <3>2, Zenon
  <2> QED
    BY <1>2, <1>5, <1>15, <1>16, <2>1, Zenon DEF Wires
<1>17. Parsed'
  <2> SUFFICES ASSUME NEW d \in Conns, ~twice, NEW i \in DOMAIN got'[d]
               PROVE  got'[d][i].req.n = n
    BY <1>2, <1>3 DEF Parsed
  <2>1. CASE d # c
    BY <1>5, <2>1 DEF Inv, Parsed
  <2>2. CASE d = c
    <3>1. /\ DOMAIN got[c] = 1..Len(got[c]) /\ Len(got[c]) \in Nat
          /\ DOMAIN got'[c] = 1..(Len(got[c]) + 1)
          /\ \A j \in 1..Len(got[c]) : got'[c][j] = got[c][j]
          /\ got'[c][Len(got[c]) + 1] = Head(rd)
      BY <1>5, <1>6, <1>7
    <3>2. CASE i = Len(got[c]) + 1
      BY <1>15, <2>2, <3>1, <3>2
    <3>3. CASE i \in 1..Len(got[c])
      BY <2>2, <3>1, <3>3 DEF Inv, Parsed
    <3> QED
      BY <2>2, <3>1, <3>2, <3>3
  <2> QED
    BY <2>1, <2>2
<1>18. Answered'
  <2> SUFFICES ASSUME rc = "ok", NEW d \in active
               PROVE  IF Running' /\ events'[d] # {} THEN got'[d] = <<>> ELSE Len(got'[d]) = 1
    BY <1>2, <1>3 DEF Answered
  <2>1. d \in Conns /\ (IF events[d] # {} THEN got[d] = <<>> ELSE Len(got[d]) = 1)
    BY <1>4 DEF Inv, TypeOK, Answered, Running
  <2>2. CASE d = c
    <3>1. got[c] = <<>>
      BY <1>4, <2>1, <2>2
    <3>2. Len(Append(got[c], Head(rd))) = 1
      BY <1>6, <1>7, <3>1, SeqFacts
    <3> QED
      BY <1>5, <2>2, <3>2, Zenon
  <2>3. CASE d # c
    BY <1>5, <1>14, <2>1, <2>3
  <2> QED
    BY <2>2, <2>3
<1> QED
  BY <1>2, <1>8, <1>9, <1>10, <1>13, <1>16, <1>17, <1>18 DEF Inv

-----------------------------------------------------------------------------
(* The theorems.                                                           *)

LEMMA NextInv == Inv /\ [Next]_vars => Inv'
<1> SUFFICES ASSUME Inv, [Next]_vars PROVE Inv'
  OBVIOUS
<1>1. CASE Call
  BY <1>1, DispatchInv DEF Call
<1>2. CASE Poll
  BY <1>2, PollInv
<1>3. CASE Timeout \/ PollError
  BY <1>3, GiveUpInv DEF Timeout, PollError
<1>4. ASSUME NEW c \in Conns, HandleError(c) PROVE Inv'
  BY <1>4, DropInv DEF HandleError
<1>5. ASSUME NEW c \in Conns, HandleOut(c) PROVE Inv'
  <2>1. CASE c \in broken
    BY <1>5, <2>1, DropInv DEF HandleOut
  <2> QED
    BY <1>5, <2>1, HandleOutInv
<1>6. ASSUME NEW c \in Conns, HandleIn(c) PROVE Inv'
  <2>1. CASE c \in broken
    BY <1>6, <2>1, DropInv, Zenon DEF HandleIn
  <2> QED
    BY <1>6, <2>1, HandleInInv
<1>7. CASE Destroy
  BY <1>7, DestroyInv
<1>8. CASE Environment
  BY <1>8, ServeInv, ResetInv, BackInv DEF Environment
<1>9. CASE UNCHANGED vars
  BY <1>9, Zenon DEF vars, sockets, call, Inv, TypeOK, Reported, Waits, Wires, Carries, Parsed,
              Counted, Answered, Running, StillWanted
<1> QED
  BY <1>1, <1>2, <1>3, <1>4, <1>5, <1>6, <1>7, <1>8, <1>9, Zenon DEF Next, Wait

LEMMA InvHolds == Spec => []Inv
  BY InitInv, NextInv, PTL DEF Spec

\* The pool keeps its types whatever the proxies do; in particular
\* m_nActiveConn, counted down once too often, wraps and stays a value of its
\* unsigned type.
THEOREM PoolTypeCorrect == Spec => []TypeOK
<1>1. Inv => TypeOK
  BY DEF Inv
<1> QED
  BY <1>1, InvHolds, PTL

\* Between calls no live connection carries anything, so the next call reads
\* its own replies (markDeadAll after a timeout, markDeadConn after an error).
THEOREM QuietBetweenCallsHolds == Spec => []QuietBetweenCalls
<1>1. Inv => QuietBetweenCalls
  <2> SUFFICES ASSUME Inv, pc = "idle", ~twice, NEW c \in alive \ broken
               PROVE  Outstanding(c) = 0
    BY DEF QuietBetweenCalls
  <2>1. out[c] = <<>> /\ in[c] = <<>> /\ input[c] = <<>>
    BY DEF Inv, TypeOK, Wires, Running
  <2> QED
    BY <2>1 DEF Outstanding
<1> QED
  BY <1>1, InvHolds, PTL

\* What collectRetrievalResult and collectMessageResult hand out answers the
\* call that asked.
THEOREM OwnRepliesHolds == Spec => []OwnReplies
<1>1. Inv => OwnReplies
  <2> SUFFICES ASSUME Inv, ~twice, NEW r \in Results PROVE r.req.n = n
    BY DEF OwnReplies
  <2>1. PICK c \in active : \E i \in DOMAIN got[c] : r = got[c][i]
    BY DEF Results
  <2> QED
    BY <2>1 DEF Inv, TypeOK, Parsed
<1> QED
  BY <1>1, InvHolds, PTL

\* RET_OK means that each connection of the call answered exactly once, even
\* after connections were counted down twice.
THEOREM OkIsAnsweredHolds == Spec => []OkIsAnswered
<1>1. Inv => OkIsAnswered
  BY DEF Inv, Answered, OkIsAnswered, Running
<1> QED
  BY <1>1, InvHolds, PTL
=============================================================================
