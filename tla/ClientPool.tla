----------------------------- MODULE ClientPool -----------------------------
(***************************************************************************)
(* The client library libckv in its protobuf build: a Client sends the     *)
(* items of a get or set over the pool's connections (dispatch), waits     *)
(* for the replies with poll (waitPoll), hands them to its caller          *)
(* (collect) and is cleaned up by it (destroy...Result).  The proxies at   *)
(* the other end answer late or never, reset a connection at any moment    *)
(* (Link::accept sets SO_LINGER to zero, so every close is a reset), go    *)
(* down and come back.                                                     *)
(*                                                                         *)
(* A request is the call and the item it was built from; keys and values   *)
(* are left out.  Requests and replies are sent and read whole, failover   *)
(* is off, as in every caller.  poll reports what it found when it         *)
(* returned: a connection can break between the report and the send or     *)
(* recv it leads to.                                                       *)
(***************************************************************************)
EXTENDS Integers, Sequences, FiniteSets

CONSTANTS
  N,         \* connections of the pool, 1..N, in the order of m_activeConns
  GetFrom,   \* connections a get may choose (m_nGetFromWhichReplica)
  SetTo,     \* connections a set may choose (m_nSetToWhichReplica)
  Wrap,      \* m_nActiveConn counts modulo 2^32
  MaxItems,  \* bound: items of a call
  MaxCalls,  \* bound: calls
  MaxFaults  \* bound: resets and breakdowns

Conns == 1..N
Ops == {"get", "set"}
Codes == {"ok", "key", "server", "poll", "timeout", "conn", "send", "recv"}

ASSUME ClientAssumption ==
  /\ N \in Nat
  /\ GetFrom \in (SUBSET Conns) \ {{}}
  /\ SetTo \in (SUBSET Conns) \ {{}}
  /\ Wrap \in Nat /\ Wrap > N
  /\ MaxItems \in Nat
  /\ MaxCalls \in Nat
  /\ MaxFaults \in Nat

VARIABLES
  up,       \* proxies that accept connections
  alive,    \* m_alive
  waiting,  \* dead connections whose m_deadUntil has not come
  broken,   \* sockets that were reset and not closed yet
  out,      \* requests on their way, per connection
  in,       \* replies on their way
  input,    \* replies read and not parsed (Connection::input)
  pc,       \* "idle", "polling", "handling" or "returned"
  n,        \* calls made
  op,       \* the operation of the current call
  buf,      \* write_buf: the item to send
  events,   \* pollfd.events: what the call waits for
  revents,  \* pollfd.revents not handled yet
  active,   \* m_activeConns
  count,    \* m_nActiveConn
  got,      \* replies parsed in this call
  rc,       \* ret_code
  faults,
  twice     \* history: a connection was taken off m_nActiveConn twice

sockets == <<up, alive, waiting, broken, out, in, input>>
call == <<pc, n, op, buf, events, revents, active, count, got, rc>>
vars == <<sockets, call, faults, twice>>

Requests == [n : 0..MaxCalls, op : Ops, item : 0..MaxItems]
Replies == [req : Requests, hit : BOOLEAN]

TypeOK ==
  /\ up \subseteq Conns /\ alive \subseteq Conns
  /\ waiting \subseteq Conns /\ broken \subseteq Conns
  /\ out \in [Conns -> Seq(Requests)]
  /\ in \in [Conns -> Seq(Replies)]
  /\ input \in [Conns -> Seq(Replies)]
  /\ pc \in {"idle", "polling", "handling", "returned"}
  /\ n \in 0..MaxCalls
  /\ op \in Ops
  /\ buf \in [Conns -> 0..MaxItems]
  /\ events \in [Conns -> SUBSET {"in", "out"}]
  /\ revents \in [Conns -> SUBSET {"in", "out", "err"}]
  /\ active \subseteq Conns
  /\ count \in 0..Wrap - 1
  /\ got \in [Conns -> Seq(Replies)]
  /\ rc \in Codes
  /\ faults \in 0..MaxFaults
  /\ twice \in BOOLEAN

Init ==
  /\ up = Conns /\ alive = {} /\ waiting = {} /\ broken = {}
  /\ out = [c \in Conns |-> <<>>]
  /\ in = [c \in Conns |-> <<>>]
  /\ input = [c \in Conns |-> <<>>]
  /\ pc = "idle" /\ n = 0 /\ op = "get" /\ rc = "ok"
  /\ buf = [c \in Conns |-> 0]
  /\ events = [c \in Conns |-> {}]
  /\ revents = [c \in Conns |-> {}]
  /\ active = {} /\ count = 0
  /\ got = [c \in Conns |-> <<>>]
  /\ faults = 0 /\ twice = FALSE

-----------------------------------------------------------------------------
(* dispatchRetrieval and dispatchStorage *)

Target(o) == IF o = "get" THEN GetFrom ELSE SetTo

\* Which of a connection's items ends up in write_buf: setBufGet is called for
\* the first one only, setBufPut for each, and the last one stays.
Buffered(o, items, i) ==
  i \in items /\ \A j \in items : IF o = "get" THEN i <= j ELSE j <= i

\* dispatch...: item i goes to connection to[i], 0 if its key is not valid.
\* getServerConnReplica tries to reconnect a dead one (tryReconnect) unless it
\* failed lately; `can' are the attempts that succeed.  Items whose connection
\* stays dead are left out.
Dispatch(o, to, can) ==
  LET wanted == {to[i] : i \in DOMAIN to} \ {0}
      trying == (wanted \ alive) \ waiting
      fresh  == trying \cap can
      used   == wanted \cap (alive \cup fresh)
      Items(c) == {i \in DOMAIN to : to[i] = c}
  IN /\ pc = "idle" /\ n < MaxCalls
     /\ can \subseteq trying \cap up
     /\ alive' = alive \cup fresh
     /\ waiting' = waiting \cup (trying \ can)
     /\ n' = n + 1 /\ op' = o
     /\ buf' \in {b \in [Conns -> 0..MaxItems] : \A c \in Conns :
                   IF c \in used THEN Buffered(o, Items(c), b[c]) ELSE b[c] = 0}
     /\ events' = [c \in Conns |-> IF c \in used THEN {"out"} ELSE {}]
     /\ active' = used
     /\ count' = Cardinality(used)
     /\ IF used # {}
          THEN pc' = "polling" /\ rc' = "ok"
          ELSE /\ pc' = "returned"
               /\ rc' = IF \E i \in DOMAIN to : to[i] = 0 THEN "key" ELSE "server"
     /\ UNCHANGED <<up, broken, out, in, input, revents, got, faults, twice>>

-----------------------------------------------------------------------------
(* waitPoll *)

\* What poll reports of a connection; closed sockets (fd -1) are skipped, an
\* error is reported whatever events asks for.
Ready(c) ==
  IF c \notin alive THEN {}
  ELSE IF c \in broken THEN {"err"}
  ELSE (events[c] \cap {"out"}) \cup (IF in[c] # <<>> THEN events[c] \cap {"in"} ELSE {})

Poll ==
  /\ pc = "polling"
  /\ \E c \in active : Ready(c) # {}
  /\ revents' = [c \in Conns |-> IF c \in active THEN Ready(c) ELSE {}]
  /\ pc' = "handling"
  /\ UNCHANGED <<sockets, n, op, buf, events, active, count, got, rc, faults, twice>>

\* Seeded fault: the socket stays open.
MarkDeadKeepsSocket(cs) ==
  /\ alive' = alive \ cs
  /\ broken' = broken \ cs
  /\ UNCHANGED <<up, waiting, out, in, input>>

\* markDead closes the socket; what was on its way on it is gone.
MarkDead(cs) ==
  /\ alive' = alive \ cs
  /\ broken' = broken \ cs
  /\ out' = [c \in Conns |-> IF c \in cs THEN <<>> ELSE out[c]]
  /\ in' = [c \in Conns |-> IF c \in cs THEN <<>> ELSE in[c]]
  /\ UNCHANGED <<up, waiting, input>>

\* markDeadAll: the connections the call still waits for.  Seeded fault: only
\* the ones it has not sent to.
NotSent == {c \in active : "out" \in events[c]}
StillWanted == {c \in active : events[c] # {}}

\* poll returned 0 (nothing happened for m_pollTimeout) or -1.
GiveUp(code) ==
  /\ pc = "polling"
  /\ code = "timeout" => \A c \in active : Ready(c) = {}
  /\ MarkDead(StillWanted)
  /\ rc' = code
  /\ pc' = "returned"
  /\ UNCHANGED <<n, op, buf, events, revents, active, count, got, faults, twice>>

\* NoTimeout is a seeded fault: poll waits for ever.
NoTimeout == FALSE /\ GiveUp("timeout")
Timeout == GiveUp("timeout")
PollError == GiveUp("poll")

\* c's turn in the loop over the pollfds.
Turn(c) ==
  /\ pc = "handling"
  /\ \A d \in Conns : revents[d] # {} => c <= d

\* The end of c's turn: the loop goes on, polls again or is over.
TurnOver(c) ==
  /\ revents' = [revents EXCEPT ![c] = {}]
  /\ pc' = IF revents' # [d \in Conns |-> {}] THEN "handling"
           ELSE IF count' = 0 THEN "returned" ELSE "polling"
  /\ UNCHANGED <<n, op, active, faults>>

\* m_nActiveConn is unsigned; SignedDecrement is a seeded fault.
SignedDecrement == count - 1
Decrement == (count - 1) % Wrap

\* Seeded fault: the error is not recorded.
DropSilently(c, code) ==
  /\ MarkDead({c})
  /\ events' = [events EXCEPT ![c] = {}]
  /\ count' = Decrement
  /\ twice' = (twice \/ events[c] = {})
  /\ TurnOver(c)
  /\ UNCHANGED <<buf, got, rc>>

\* markDeadConn.  POLLERR is reported even if c has answered already and was
\* counted down then.
Drop(c, code) ==
  /\ MarkDead({c})
  /\ rc' = code
  /\ events' = [events EXCEPT ![c] = {}]
  /\ count' = Decrement
  /\ twice' = (twice \/ events[c] = {})
  /\ TurnOver(c)
  /\ UNCHANGED <<buf, got>>

HandleError(c) ==
  /\ Turn(c) /\ "err" \in revents[c]
  /\ Drop(c, "conn")

\* send_msg.
HandleOut(c) ==
  /\ Turn(c) /\ revents[c] = {"out"}
  /\ IF c \in broken THEN Drop(c, "send")
     ELSE /\ out' = [out EXCEPT ![c] = Append(@, [n |-> n, op |-> op, item |-> buf[c]])]
          /\ buf' = [buf EXCEPT ![c] = 0]
          /\ events' = [events EXCEPT ![c] = {"in"}]
          /\ UNCHANGED <<up, alive, waiting, broken, in, input, count, got, rc, twice>>
          /\ TurnOver(c)

\* recv_msg reads all there is, parse_resp takes one reply and never finds the
\* buffer incomplete.
HandleIn(c) ==
  /\ Turn(c) /\ revents[c] = {"in"}
  /\ IF c \in broken THEN Drop(c, "recv")
     ELSE LET read == input[c] \o in[c] IN
          /\ in' = [in EXCEPT ![c] = <<>>]
          /\ input' = [input EXCEPT ![c] = Tail(read)]
          /\ got' = [got EXCEPT ![c] = Append(@, Head(read))]
          /\ events' = [events EXCEPT ![c] = {}]
          /\ count' = Decrement
          /\ UNCHANGED <<up, alive, waiting, broken, out, buf, rc, twice>>
          /\ TurnOver(c)

\* collectRetrievalResult, collectMessageResult: the replies of the call's kind
\* (parse_resp files a reply by its own type, and a failed get nowhere).
Results == {r \in UNION {{got[c][i] : i \in DOMAIN got[c]} : c \in active} :
              r.hit /\ r.req.op = op}

\* destroyRetrievalResult, destroyMessageResult: reset.  input is not cleared.
Destroy ==
  /\ pc = "returned"
  /\ pc' = "idle"
  /\ buf' = [c \in Conns |-> 0]
  /\ got' = [c \in Conns |-> <<>>]
  /\ events' = [c \in Conns |-> {}]
  /\ active' = {} /\ count' = 0
  /\ op' = "get" /\ rc' = "ok"
  /\ UNCHANGED <<sockets, n, revents, faults, twice>>

-----------------------------------------------------------------------------
(* The proxies and time *)

Serve(c, hit) ==
  /\ out[c] # <<>>
  /\ Head(out[c]).op = "set" => hit
  /\ out' = [out EXCEPT ![c] = Tail(@)]
  /\ in' = [in EXCEPT ![c] = Append(@, [req |-> Head(out[c]), hit |-> hit])]
  /\ UNCHANGED <<up, alive, waiting, broken, input, call, faults, twice>>

\* The proxy closes its end, or exits.
Reset(c, goes) ==
  /\ faults < MaxFaults
  /\ goes \/ c \in alive \ broken
  /\ goes => c \in up
  /\ faults' = faults + 1
  /\ up' = IF goes THEN up \ {c} ELSE up
  /\ broken' = broken \cup ({c} \cap alive)
  /\ out' = [out EXCEPT ![c] = <<>>]
  /\ in' = [in EXCEPT ![c] = <<>>]
  /\ UNCHANGED <<alive, waiting, input, call, twice>>

Return(c) ==
  /\ c \notin up
  /\ up' = up \cup {c}
  /\ UNCHANGED <<alive, waiting, broken, out, in, input, call, faults, twice>>

\* m_retryTimeout is over.
RetryTime(c) ==
  /\ c \in waiting
  /\ waiting' = waiting \ {c}
  /\ UNCHANGED <<up, alive, broken, out, in, input, call, faults, twice>>

-----------------------------------------------------------------------------
\* The connections of a call's items, 0 for a key that is not valid.
Routes(o) == UNION {[1..k -> Target(o) \cup {0}] : k \in 1..MaxItems}

Call == \E o \in Ops : \E to \in Routes(o), can \in SUBSET Conns : Dispatch(o, to, can)

Wait ==
  \/ Poll \/ Timeout
  \/ \E c \in Conns : HandleError(c) \/ HandleOut(c) \/ HandleIn(c)

Environment ==
  \E c \in Conns :
    \/ \E hit \in BOOLEAN : Serve(c, hit)
    \/ \E goes \in BOOLEAN : Reset(c, goes)
    \/ Return(c)
    \/ RetryTime(c)

Next == Call \/ Wait \/ PollError \/ Destroy \/ Environment

Spec == Init /\ [][Next]_vars
\* The caller's thread runs, and poll returns after m_pollTimeout at the latest.
FairSpec == Spec /\ WF_vars(Wait)

-----------------------------------------------------------------------------
(* Properties *)

Outstanding(c) == Len(out[c]) + Len(in[c]) + Len(input[c])

\* Between calls a live connection carries nothing: no request the proxy has
\* yet to answer, no reply on its way or left in input, so that the next call
\* on it reads its own reply.  waitPoll keeps this by closing what it gives up
\* (markDeadAll, markDeadConn), as long as no connection was counted twice.
QuietBetweenCalls ==
  pc = "idle" /\ ~twice => \A c \in alive \ broken : Outstanding(c) = 0

\* What a call hands to its caller answers a request of this very call, never
\* one of an earlier call that timed out or failed (collectRetrievalResult and
\* collectMessageResult return whatever the connections parsed).
OwnReplies ==
  pc = "returned" /\ ~twice => \A r \in Results : r.req.n = n

\* RET_OK means that every connection the call used has answered exactly once.
OkIsAnswered ==
  pc = "returned" /\ rc = "ok" => \A c \in active : Len(got[c]) = 1

\* The same as OwnReplies, whatever the connections do: "MUST reset all active
\* TCP connections after timeout" (ConnectionPool::waitPoll) is there to keep
\* late replies from the next call.
NoLateReplies == pc = "returned" => \A r \in Results : r.req.n = n

\* Every call returns, whatever the proxies do: poll times out.
EveryCallReturns == pc \in {"polling", "handling"} ~> pc = "returned"
=============================================================================
