------------------------------- MODULE ZkLock -------------------------------
(***************************************************************************)
(* ZooKeeper::Lock and Unlock (co_zk.cpp): a read-write lock made of the   *)
(* sequential, ephemeral children of a znode, and how the proxy uses it    *)
(* for a set in mode ms/strong/zk (msg.cpp).  The znode is created by the  *)
(* first who needs it and deleted by the last who leaves.                  *)
(*                                                                         *)
(* One path is modelled; paths do not influence each other.  Each action   *)
(* is one call of the ZooKeeper library, which is atomic at the server.    *)
(* DeleteIfExists is two, Exists and delete, and has the effect of one of  *)
(* them: it is one action.  An error code becomes an exception that nobody *)
(* catches.  Sequence numbers stay below 10^8, where the 8 digits Lock     *)
(* keeps of its own equal the 10 it compares them with.                    *)
(***************************************************************************)
EXTENDS Integers, FiniteSets

CONSTANTS
  Procs,     \* processes, each with one session
  Uses,      \* what each may do: "r", "w" (Lock, work, Unlock), "set" (the proxy)
  CanCrash,  \* the ones that may crash
  CanLapse,  \* the ones whose session may expire while they run
  MaxCalls,  \* bound: locks each takes
  None       \* no child

ASSUME ZkLockAssumption ==
  /\ Uses \in [Procs -> SUBSET {"r", "w", "set"}]
  /\ CanCrash \subseteq Procs /\ CanLapse \subseteq Procs
  /\ MaxCalls \in [Procs -> Nat]

\* The name of a child: /r or /w and the sequence number.
Names == [kind : {"r", "w"}, seq : Nat]

VARIABLES
  znode,    \* whether the znode of the path exists
  next,     \* its next sequence number
  children, \* its children: name and owner
  live,     \* sessions that have not ended
  pc,       \* the next library call of each process
  use,      \* what it takes the lock for
  mine,     \* req_id, lock_id: the name of the child it created
  awaited,  \* the child Lock is waiting for
  alone,    \* Unlock saw at most one child
  again,    \* this is the Unlock of rsp_recv
  calls     \* locks taken

vars == <<znode, next, children, live, pc, use, mine, awaited, alone, again, calls>>

Stages == {"idle", "prepare", "guid", "enqueue", "list", "wait", "held", "remove",
           "parent", "forget", "served", "failed", "crashed"}

TypeOK ==
  /\ znode \in BOOLEAN
  /\ next \in Nat
  /\ children \subseteq [name : Names, owner : Procs]
  /\ live \subseteq Procs
  /\ pc \in [Procs -> Stages]
  /\ use \in [Procs -> {"r", "w", "set"}]
  /\ mine \in [Procs -> Names \cup {None}]
  /\ awaited \in [Procs -> Names \cup {None}]
  /\ alone \in [Procs -> BOOLEAN]
  /\ again \in [Procs -> BOOLEAN]
  /\ calls \in [Procs -> Nat]

Init ==
  /\ znode = FALSE /\ next = 0 /\ children = {}
  /\ live = Procs
  /\ pc = [p \in Procs |-> "idle"]
  /\ use = [p \in Procs |-> "w"]
  /\ mine = [p \in Procs |-> None]
  /\ awaited = [p \in Procs |-> None]
  /\ alone = [p \in Procs |-> FALSE]
  /\ again = [p \in Procs |-> FALSE]
  /\ calls = [p \in Procs |-> 0]

-----------------------------------------------------------------------------
(* Library calls *)

At(p, s) == pc[p] = s /\ p \in live
Goto(p, s) == pc' = [pc EXCEPT ![p] = s]

Start(p, u) ==
  /\ At(p, "idle") /\ calls[p] < MaxCalls[p]
  /\ calls' = [calls EXCEPT ![p] = @ + 1]
  /\ use' = [use EXCEPT ![p] = u]
  /\ Goto(p, IF u = "set" THEN "prepare" ELSE "guid")
  /\ UNCHANGED <<znode, next, children, live, mine, awaited, alone, again>>

\* CreateIfNotExists(path): req_recv's own, then the one in Lock.
CreatePath(p) ==
  /\ At(p, "prepare") \/ At(p, "guid")
  /\ znode' = TRUE
  /\ Goto(p, IF pc[p] = "prepare" THEN "guid" ELSE "enqueue")
  /\ UNCHANGED <<next, children, live, use, mine, awaited, alone, again, calls>>

\* Seeded fault: the name handed back is the one asked for, without a number.
EnqueueNameAsked(p) ==
  /\ At(p, "enqueue") /\ znode
  /\ mine' = [mine EXCEPT ![p] = [kind |-> "w"]]
  /\ children' = children \cup
       {[name |-> [kind |-> IF use[p] = "r" THEN "r" ELSE "w", seq |-> next], owner |-> p]}
  /\ next' = next + 1
  /\ Goto(p, "list")
  /\ UNCHANGED <<znode, live, use, awaited, alone, again, calls>>

\* The child of a lock request.
Enqueue(p) ==
  LET name == [kind |-> IF use[p] = "r" THEN "r" ELSE "w", seq |-> next] IN
  /\ At(p, "enqueue") /\ znode
  /\ mine' = [mine EXCEPT ![p] = name]
  /\ children' = children \cup {[name |-> name, owner |-> p]}
  /\ next' = next + 1
  /\ Goto(p, "list")
  /\ UNCHANGED <<znode, live, use, awaited, alone, again, calls>>

\* Seeded faults: a writer passes over readers too; a request waits for itself.
AheadWriters(p) == {n \in {x.name : x \in children} :
  /\ Cardinality(children) > 1
  /\ n.kind = "w"
  /\ n.seq < mine[p].seq}
AheadOrSelf(p) == {n \in {x.name : x \in children} :
  /\ Cardinality(children) > 1
  /\ mine[p].kind = "r" => n.kind # "r"
  /\ n.seq <= mine[p].seq}

\* The children Lock waits for: the ones before its own, but a reader passes
\* over readers.
Ahead(p) == {n \in {x.name : x \in children} :
  /\ Cardinality(children) > 1
  /\ mine[p].kind = "r" => n.kind # "r"
  /\ n.seq < mine[p].seq}

\* GetChildren in Lock: the first child ahead in the server's order, or the lock.
List(p) ==
  /\ At(p, "list") /\ znode
  /\ \/ /\ Ahead(p) = {}
        /\ Goto(p, "held")
        /\ UNCHANGED awaited
     \/ \E n \in Ahead(p) :
          /\ Goto(p, "wait")
          /\ awaited' = [awaited EXCEPT ![p] = n]
  /\ UNCHANGED <<znode, next, children, live, use, mine, alone, again, calls>>

\* Exists, asked over and over, says no: list again.
Gone(p) ==
  /\ At(p, "wait")
  /\ \A x \in children : x.name # awaited[p]
  /\ Goto(p, "list")
  /\ awaited' = [awaited EXCEPT ![p] = None]
  /\ UNCHANGED <<znode, next, children, live, use, mine, alone, again, calls>>

\* GetChildren in Unlock.
ListToUnlock(p, stage) ==
  /\ At(p, stage) /\ znode
  /\ alone' = [alone EXCEPT ![p] = Cardinality(children) <= 1]
  /\ again' = [again EXCEPT ![p] = stage = "served"]
  /\ Goto(p, "remove")
  /\ UNCHANGED <<znode, next, children, live, use, mine, awaited, calls>>

\* The proxy unlocks in req_recv, right after it got the lock, and once more
\* with the same name in rsp_recv.
Unlock(p) == ListToUnlock(p, "held")
UnlockAgain(p) == ListToUnlock(p, "served")

\* The end of Unlock: back to req_recv, or the end of the call.
Unlocked(p) ==
  IF use[p] = "set" /\ ~again[p]
  THEN Goto(p, "forget") /\ UNCHANGED <<use, mine, again>>
  ELSE /\ Goto(p, "idle")
       /\ use' = [use EXCEPT ![p] = "w"]
       /\ mine' = [mine EXCEPT ![p] = None]
       /\ again' = [again EXCEPT ![p] = FALSE]

\* Seeded fault: the name is cut off wrongly and names no child.
RemoveNothing(p) ==
  /\ At(p, "remove")
  /\ IF alone[p] THEN Goto(p, "parent") /\ UNCHANGED <<use, mine, again>> ELSE Unlocked(p)
  /\ alone' = [alone EXCEPT ![p] = FALSE]
  /\ UNCHANGED <<znode, next, children, live, awaited, calls>>

\* DeleteIfExists(path): whoever's child has that name by now.
Remove(p) ==
  /\ At(p, "remove")
  /\ children' = {x \in children : x.name # mine[p]}
  /\ IF alone[p] THEN Goto(p, "parent") /\ UNCHANGED <<use, mine, again>> ELSE Unlocked(p)
  /\ alone' = [alone EXCEPT ![p] = FALSE]
  /\ UNCHANGED <<znode, next, live, awaited, calls>>

\* DeleteIfExists(key), in Unlock and in req_recv after it.  The znode that is
\* made next numbers its children from 0 again.
RemovePath(p) ==
  /\ children = {}
  /\ znode' = FALSE /\ next' = 0
  /\ \/ At(p, "parent") /\ Unlocked(p)
     \/ At(p, "forget") /\ Goto(p, "served") /\ UNCHANGED <<use, mine, again>>
  /\ UNCHANGED <<children, live, awaited, alone, calls>>

\* The local variables of a process that ends.
Forget(p) ==
  /\ use' = [use EXCEPT ![p] = "w"]
  /\ awaited' = [awaited EXCEPT ![p] = None]
  /\ alone' = [alone EXCEPT ![p] = FALSE]
  /\ again' = [again EXCEPT ![p] = FALSE]

\* The error codes: no parent for the child (ZNONODE), no znode to list
\* (ZNONODE), children in a znode to delete (ZNOTEMPTY), an expired session.
\* The exception ends the process.
Throw(p) ==
  /\ \/ pc[p] \in {"enqueue", "list", "held", "served"} /\ ~znode
     \/ pc[p] \in {"parent", "forget"} /\ children # {}
     \/ pc[p] \notin {"idle", "failed", "crashed"} /\ p \notin live
  /\ Goto(p, "failed") /\ Forget(p)
  /\ UNCHANGED <<znode, next, children, live, mine, calls>>

-----------------------------------------------------------------------------
(* Processes and sessions *)

Crash(p) ==
  /\ p \in CanCrash /\ pc[p] \notin {"failed", "crashed"}
  /\ Goto(p, "crashed") /\ Forget(p)
  /\ UNCHANGED <<znode, next, children, live, mine, calls>>

\* The server ends the session of a process that is gone, or has been out of
\* touch for too long, and deletes its ephemeral children.
EndSession(p) ==
  /\ p \in live
  /\ pc[p] \in {"failed", "crashed"} \/ p \in CanLapse
  /\ live' = live \ {p}
  /\ children' = {x \in children : x.owner # p}
  /\ UNCHANGED <<znode, next, pc, use, mine, awaited, alone, again, calls>>

Step(p) ==
  \/ CreatePath(p) \/ Enqueue(p) \/ List(p) \/ Gone(p)
  \/ Unlock(p) \/ UnlockAgain(p) \/ Remove(p) \/ RemovePath(p) \/ Throw(p)

Next ==
  \E p \in Procs : \/ \E u \in Uses[p] : Start(p, u)
                   \/ Step(p) \/ Crash(p) \/ EndSession(p)

Spec == Init /\ [][Next]_vars

\* Processes run until they return or throw, and sessions of dead processes end.
Fairness == \A p \in Procs :
  /\ WF_vars(Step(p))
  /\ WF_vars(pc[p] \in {"failed", "crashed"} /\ EndSession(p))
FairSpec == Spec /\ Fairness

-----------------------------------------------------------------------------
(* Properties *)

Owns(p) == [name |-> mine[p], owner |-> p] \in children
\* From the return of Lock to the deletion in the Unlock that belongs to it.
Holding(p) == pc[p] = "held" \/ (pc[p] = "remove" /\ ~again[p])

\* Of two processes that hold the lock, and whose children are still there, both
\* are readers: whatever Lock saw when it listed the children, the znode being
\* deleted and made anew and other processes failing or crashing included.
Exclusive ==
  \A p, q \in Procs :
    p # q /\ Holding(p) /\ Holding(q) /\ Owns(p) /\ Owns(q) => use[p] = "r" /\ use[q] = "r"

\* An exception of Lock or Unlock leaves no child behind for which others
\* would wait until the session ends.
FailedLeavesNothing ==
  \A p \in Procs : pc[p] = "failed" => ~Owns(p)

\* Every process that waits in Lock gets the lock or an exception, even if the
\* ones before it crash: their children are ephemeral.
EveryLockReturns == []<>(\A p \in Procs : pc[p] \notin {"list", "wait"})

\* Unlock deletes a child of its own only.  This does not hold for the second
\* Unlock of a proxy (rsp_recv).
DeletesItsOwn ==
  [][\A p \in Procs : Remove(p) => \A x \in children \ children' : x.owner = p]_vars

\* A set is carried out under its lock ("Acquire lock on the key in M-S",
\* req_recv).  This does not hold: req_recv gives the lock back itself.
SetUnderLock == \A p \in Procs : pc[p] = "served" => Owns(p)
=============================================================================
