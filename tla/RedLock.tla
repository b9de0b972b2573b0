------------------------------ MODULE RedLock -------------------------------
(***************************************************************************)
(* CRedLock (redlock-cpp): a lock kept on several redis servers.  A client *)
(* sets a key with a value of its own and a time to live on one server     *)
(* after the other, and holds the lock if a majority took it in time; if   *)
(* not it takes the key back everywhere and tries again, at most           *)
(* m_retryCount times.  ContinueLock also replaces the value its object    *)
(* set before.  Clients share nothing but the servers.                     *)
(*                                                                         *)
(* One resource is modelled; keys of redis do not influence each other.    *)
(* Time passes in ticks and is kept relative: how long a key has left, how *)
(* old an attempt is.  The servers' clocks run at the speed of the         *)
(* clients'.  Local variables of a call are reset when it returns.         *)
(***************************************************************************)
EXTENDS Integers, FiniteSets

CONSTANTS
  Clients,   \* CRedLock objects
  Continuing,\* the ones whose program calls ContinueLock (CLockExample), not Lock
  N,         \* redis servers, 1..N, in the order of AddServerUrl
  Ttl,       \* time to live of a key, in ticks
  Drift,     \* ttl * m_clockDriftFactor + 2 ms, in ticks
  Second,    \* ticks in a second
  Retries,   \* m_retryCount
  MaxCalls,  \* bound: calls each client makes
  NoVal      \* no value

Servers == 1..N
\* The values of GetUniqueLockId: a new one in every call.
Vals == Clients \X Nat

ASSUME RedLockAssumption ==
  /\ N \in Nat \ {0}
  /\ Ttl \in Nat
  /\ Drift \in Nat
  /\ Second \in Nat \ {0}
  /\ Retries \in Nat \ {0}
  /\ MaxCalls \in [Clients -> Nat]
  /\ Continuing \subseteq Clients
  /\ NoVal \notin Vals

Phases == {"idle", "locking", "undoing", "waiting", "held", "releasing"}

VARIABLES
  clock,   \* ticks since the second began
  key,     \* the value set on each server
  left,    \* the time it has left
  pc,      \* where each client is in its call
  calls,   \* calls each client has made
  next,    \* the next server of the loop
  got,     \* the servers that answered OK (n counts them)
  age,     \* ticks since the attempt began, at most Ttl
  secs,    \* seconds that began since, by time(NULL), at most Ttl
  old,     \* m_continueLock.m_val
  retry,   \* retryCount
  valid    \* what is left of m_validityTime

vars == <<clock, key, left, pc, calls, next, got, age, secs, old, retry, valid>>

Init ==
  /\ clock = 0
  /\ key = [s \in Servers |-> NoVal]
  /\ left = [s \in Servers |-> 0]
  /\ pc = [c \in Clients |-> "idle"]
  /\ calls = [c \in Clients |-> 0]
  /\ next = [c \in Clients |-> 1]
  /\ got = [c \in Clients |-> {}]
  /\ age = [c \in Clients |-> 0]
  /\ secs = [c \in Clients |-> 0]
  /\ old = [c \in Clients |-> NoVal]
  /\ retry = [c \in Clients |-> 0]
  /\ valid = [c \in Clients |-> 0]

\* The value of the current call.
Val(c) == <<c, calls[c]>>
\* m_quoRum.  Seeded fault: half of the servers are enough.
HalfQuorum == N \div 2
Quorum == N \div 2 + 1

-----------------------------------------------------------------------------
\* An attempt begins: n = 0, startTime.
Attempt(c) ==
  /\ pc' = [pc EXCEPT ![c] = "locking"]
  /\ next' = [next EXCEPT ![c] = 1]
  /\ got' = [got EXCEPT ![c] = {}]
  /\ age' = [age EXCEPT ![c] = 0]
  /\ secs' = [secs EXCEPT ![c] = 0]

\* Lock or ContinueLock is called: Lock when the client holds nothing,
\* ContinueLock also while it holds the lock.
Call(c) ==
  /\ pc[c] = "idle" \/ (c \in Continuing /\ pc[c] = "held")
  /\ calls[c] < MaxCalls[c]
  /\ calls' = [calls EXCEPT ![c] = @ + 1]
  /\ old' = IF c \in Continuing /\ old[c] = NoVal
            THEN [old EXCEPT ![c] = <<c, calls[c] + 1>>] ELSE old
  /\ retry' = [retry EXCEPT ![c] = Retries]
  /\ valid' = [valid EXCEPT ![c] = 0]
  /\ Attempt(c)
  /\ UNCHANGED <<clock, key, left>>

\* set nx: the key is set if the server has none; the script of ContinueLock
\* first deletes it if its value is the one this object set before.
Settable(c, s) == key[s] = NoVal \/ (c \in Continuing /\ key[s] = old[c])

\* LockInstance and ContinueLockInstance on the next server.  The command may
\* not reach the server, or its answer may not come back: neither counts.
LockInstance(c) ==
  LET s == next[c] IN
  /\ pc[c] = "locking"
  /\ s \in Servers
  /\ next' = [next EXCEPT ![c] = s + 1]
  /\ \/ /\ Settable(c, s)
        /\ key' = [key EXCEPT ![s] = Val(c)]
        /\ left' = [left EXCEPT ![s] = Ttl]
        /\ got' \in {[got EXCEPT ![c] = @ \cup {s}], got}
     \/ UNCHANGED <<key, left, got>>
  /\ UNCHANGED <<clock, pc, calls, age, secs, old, retry, valid>>

\* m_validityTime: the time an attempt took is counted in whole seconds.
Validity(c) == Ttl - secs[c] * Second - Drift

\* The loop over the servers is over.
Decide(c) ==
  /\ pc[c] = "locking"
  /\ next[c] \notin Servers
  /\ old' = IF c \in Continuing THEN [old EXCEPT ![c] = Val(c)] ELSE old
  /\ next' = [next EXCEPT ![c] = 1]
  /\ \/ /\ Cardinality(got[c]) >= Quorum
        /\ Validity(c) > 0
        /\ pc' = [pc EXCEPT ![c] = "held"]
        /\ valid' = [valid EXCEPT ![c] = Validity(c)]
        /\ retry' = [retry EXCEPT ![c] = 0]
        /\ UNCHANGED got
     \/ /\ Cardinality(got[c]) < Quorum \/ Validity(c) <= 0
        /\ pc' = [pc EXCEPT ![c] = "undoing"]
        /\ got' = [got EXCEPT ![c] = {}]
        /\ UNCHANGED <<retry, valid>>
  /\ UNCHANGED <<clock, key, left, calls, age, secs>>

\* The script of UnlockInstance deletes the key if it has the caller's value.
\* Seeded fault: it deletes it in any case.
DeletableAlways(c, s) == TRUE
Deletable(c, s) == key[s] = Val(c)

\* UnlockInstance on the next server; the command may not reach it.
UnlockInstance(c) ==
  LET s == next[c] IN
  /\ pc[c] \in {"undoing", "releasing"}
  /\ s \in Servers
  /\ next' = [next EXCEPT ![c] = s + 1]
  /\ \/ /\ Deletable(c, s)
        /\ key' = [key EXCEPT ![s] = NoVal]
        /\ left' = [left EXCEPT ![s] = 0]
     \/ UNCHANGED <<key, left>>
  /\ UNCHANGED <<clock, pc, calls, got, age, secs, old, retry, valid>>

\* Unlock is done, in an attempt that failed or on the caller's request.
Unlocked(c) ==
  /\ pc[c] \in {"undoing", "releasing"}
  /\ next[c] \notin Servers
  /\ pc' = [pc EXCEPT ![c] = IF @ = "releasing" THEN "idle" ELSE "waiting"]
  /\ next' = [next EXCEPT ![c] = 1]
  /\ age' = [age EXCEPT ![c] = 0]
  /\ secs' = [secs EXCEPT ![c] = 0]
  /\ UNCHANGED <<clock, key, left, calls, got, old, retry, valid>>

\* Whether another attempt follows.  Seeded fault: one too many.
OnceMore(c) == retry[c] > 0
TriesLeft(c) == retry[c] > 1

\* The delay is over: retryCount--; the next attempt, or Lock returns false.
Retry(c) ==
  /\ pc[c] = "waiting"
  /\ retry' = [retry EXCEPT ![c] = @ - 1]
  /\ \/ TriesLeft(c) /\ Attempt(c)
     \/ /\ ~TriesLeft(c)
        /\ pc' = [pc EXCEPT ![c] = "idle"]
        /\ UNCHANGED <<next, got, age, secs>>
  /\ UNCHANGED <<clock, key, left, calls, old, valid>>

\* The caller of a lock it holds calls Unlock.
Release(c) ==
  /\ pc[c] = "held"
  /\ pc' = [pc EXCEPT ![c] = "releasing"]
  /\ got' = [got EXCEPT ![c] = {}]
  /\ valid' = [valid EXCEPT ![c] = 0]
  /\ UNCHANGED <<clock, key, left, calls, next, age, secs, old, retry>>

\* A tick: redis drops the keys whose time is over, attempts and locks grow
\* older.
Timed == {c \in Clients : pc[c] \in {"locking", "held"}}
Older(t, d) == IF t + d < Ttl THEN t + d ELSE Ttl
Tick ==
  LET newSecond == IF clock + 1 = Second THEN 1 ELSE 0 IN
  /\ clock' = (clock + 1) % Second
  /\ key' = [s \in Servers |-> IF left[s] > 1 THEN key[s] ELSE NoVal]
  /\ left' = [s \in Servers |-> IF left[s] > 1 THEN left[s] - 1 ELSE 0]
  /\ age' = [c \in Clients |-> IF c \in Timed THEN Older(age[c], 1) ELSE age[c]]
  /\ secs' = [c \in Clients |-> IF c \in Timed THEN Older(secs[c], newSecond) ELSE secs[c]]
  /\ valid' = [c \in Clients |-> IF valid[c] > 0 THEN valid[c] - 1 ELSE 0]
  /\ UNCHANGED <<pc, calls, next, got, old, retry>>

Next ==
  \/ Tick
  \/ \E c \in Clients :
       \/ Call(c) \/ LockInstance(c) \/ Decide(c) \/ UnlockInstance(c)
       \/ Unlocked(c) \/ Retry(c) \/ Release(c)

Spec == Init /\ [][Next]_vars

-----------------------------------------------------------------------------
(* Properties.                                                             *)

\* Types of the state.
TypeOK ==
  /\ clock \in 0..(Second - 1)
  /\ key \in [Servers -> Vals \cup {NoVal}]
  /\ left \in [Servers -> Nat]
  /\ pc \in [Clients -> Phases]
  /\ calls \in [Clients -> Nat]
  /\ next \in [Clients -> Nat]
  /\ got \in [Clients -> SUBSET Servers]
  /\ age \in [Clients -> Nat]
  /\ secs \in [Clients -> Nat]
  /\ old \in [Clients -> Vals \cup {NoVal}]
  /\ retry \in [Clients -> Nat]
  /\ valid \in [Clients -> Nat]

\* A client that got the lock and has not called Unlock, while less than the
\* time to live has passed since the attempt that got it began.
Holds(c) == pc[c] = "held" /\ age[c] < Ttl

\* Two clients do not hold the lock at the same time, whatever commands and
\* answers are lost and however slow the calls are: the majorities of two calls
\* of Lock have a server in common.
MutualExclusion == \A c, d \in Clients : Holds(c) /\ Holds(d) => c = d

\* Every server that counted for a lock keeps its key as long as the lock is
\* held: neither the retries nor the Unlock of another client remove it.
HeldOnServers == \A c \in Clients : Holds(c) => \A s \in got[c] : key[s] = Val(c)

\* The lock is held on a majority of the servers as long as m_validityTime says.
ValidAsClaimed ==
  \A c \in Clients : pc[c] = "held" /\ valid[c] > 0 =>
    Cardinality({s \in Servers : key[s] = Val(c)}) >= Quorum
=============================================================================
