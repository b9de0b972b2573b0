---------------------------- MODULE ZkLockProofs ----------------------------
(***************************************************************************)
(* The lock of co_zk.cpp excludes, and one that fails leaves no child, for *)
(* any processes, uses, crashes and sessions that end.                     *)
(***************************************************************************)
EXTENDS ZkLock, FiniteSetTheorems, TLAPS

-----------------------------------------------------------------------------
(* Types *)

\* Every library call keeps the types.
LEMMA TypeStep == TypeOK /\ [Next]_vars => TypeOK'
<1> SUFFICES ASSUME TypeOK, [Next]_vars PROVE TypeOK'
  OBVIOUS
<1> USE DEF At, Goto, Stages
<1>1. ASSUME NEW p \in Procs, NEW u \in Uses[p], Start(p, u) PROVE TypeOK'
  <2>1. u \in {"r", "w", "set"}
    BY ZkLockAssumption
  <2> QED
    BY <1>1, <2>1 DEF Start, TypeOK
<1>2. ASSUME NEW p \in Procs, CreatePath(p) PROVE TypeOK'
  BY <1>2 DEF CreatePath, TypeOK
<1>3. ASSUME NEW p \in Procs, Enqueue(p) PROVE TypeOK'
  <2> DEFINE name == [kind |-> IF use[p] = "r" THEN "r" ELSE "w", seq |-> next]
  <2>1. name \in Names
    BY DEF Names, TypeOK
  <2>2. /\ mine' = [mine EXCEPT ![p] = name]
        /\ children' = children \cup {[name |-> name, owner |-> p]}
    BY <1>3 DEF Enqueue
  <2> HIDE DEF name
  <2> QED
    BY <1>3, <2>1, <2>2 DEF Enqueue, TypeOK
<1>4. ASSUME NEW p \in Procs, List(p) PROVE TypeOK'
  <2>1. Ahead(p) \subseteq Names
    BY DEF Ahead, TypeOK
  <2> QED
    BY <1>4, <2>1 DEF List, TypeOK
<1>5. ASSUME NEW p \in Procs, Gone(p) PROVE TypeOK'
  BY <1>5 DEF Gone, TypeOK
<1>6. ASSUME NEW p \in Procs, NEW s, ListToUnlock(p, s) PROVE TypeOK'
  BY <1>6 DEF ListToUnlock, TypeOK
<1>7. ASSUME NEW p \in Procs, Remove(p) PROVE TypeOK'
  <2>1. children' \subseteq [name : Names, owner : Procs]
    BY <1>7 DEF Remove, TypeOK
  <2>2. alone' \in [Procs -> BOOLEAN] /\ UNCHANGED <<znode, next, live, awaited, calls>>
    BY <1>7, Zenon DEF Remove, TypeOK
  <2>3. Unlocked(p) \/ (Goto(p, "parent") /\ UNCHANGED <<use, mine, again>>)
    BY <1>7, Zenon DEF Remove
  <2>4. pc' \in [Procs -> Stages]
    BY <2>3 DEF Unlocked, Goto, Stages, TypeOK
  <2>5. /\ use' \in [Procs -> {"r", "w", "set"}]
        /\ mine' \in [Procs -> Names \cup {None}] /\ again' \in [Procs -> BOOLEAN]
    BY <2>3, Zenon DEF Unlocked, TypeOK
  <2> QED
    BY <2>1, <2>2, <2>4, <2>5, Zenon DEF TypeOK
<1>8. ASSUME NEW p \in Procs, RemovePath(p) PROVE TypeOK'
  BY <1>8, Zenon DEF RemovePath, Unlocked, TypeOK
<1>9. ASSUME NEW p \in Procs, Throw(p) PROVE TypeOK'
  BY <1>9 DEF Throw, Forget, TypeOK
<1>10. ASSUME NEW p \in Procs, Crash(p) PROVE TypeOK'
  BY <1>10 DEF Crash, Forget, TypeOK
<1>11. ASSUME NEW p \in Procs, EndSession(p) PROVE TypeOK'
  BY <1>11 DEF EndSession, TypeOK
<1>12. CASE UNCHANGED vars
  BY <1>12 DEF vars, TypeOK
<1> QED
  BY <1>1, <1>2, <1>3, <1>4, <1>5, <1>6, <1>7, <1>8, <1>9, <1>10, <1>11, <1>12
  DEF Next, Step, Unlock, UnlockAgain

\* The processes start with types.
LEMMA InitType == Init => TypeOK
<1> SUFFICES ASSUME Init PROVE TypeOK
  OBVIOUS
<1>1. znode \in BOOLEAN /\ children \subseteq [name : Names, owner : Procs] /\ live \subseteq Procs
  BY Zenon DEF Init
<1>2. /\ pc \in [Procs -> Stages]
      /\ use \in [Procs -> {"r", "w", "set"}]
  BY DEF Init, Stages
<1>3. /\ mine \in [Procs -> Names \cup {None}]
      /\ awaited \in [Procs -> Names \cup {None}]
  BY DEF Init
<1>4. alone \in [Procs -> BOOLEAN] /\ again \in [Procs -> BOOLEAN]
  BY DEF Init
<1>5. next \in Nat /\ calls \in [Procs -> Nat]
  BY DEF Init
<1> QED
  BY <1>1, <1>2, <1>3, <1>4, <1>5 DEF TypeOK

\* The variables of Lock, Unlock and the znode keep their types.
THEOREM TypeCorrect == Spec => []TypeOK
BY InitType, TypeStep, PTL DEF Spec

-----------------------------------------------------------------------------
(* The children of the znode *)

\* A finite set with two members has more than one.
LEMMA TwoMembers ==
  ASSUME NEW S, IsFiniteSet(S), NEW x \in S, NEW y \in S, x # y
  PROVE  Cardinality(S) > 1
<1>1. Cardinality({x}) = 1 /\ IsFiniteSet({x})
  BY FS_Singleton, Zenon
<1>2. Cardinality({x} \cup {y}) = 2
  BY <1>1, FS_AddElement
<1>3. {x} \cup {y} \in SUBSET S
  OBVIOUS
<1>4. Cardinality({x} \cup {y}) <= Cardinality(S)
  BY <1>3, FS_Subset
<1>5. Cardinality(S) \in Nat
  BY FS_CardinalityType
<1> QED
  BY <1>2, <1>4, <1>5

\* The numbers of the children are different and below the next one; a znode
\* that is not there has no children and will number from 0.
Numbered ==
  /\ IsFiniteSet(children)
  /\ \A x \in children : x.name.seq < next
  /\ \A x, y \in children : x.name.seq = y.name.seq => x = y
  /\ ~znode => children = {} /\ next = 0

\* The children of a process go with its session.
Ephemeral == \A x \in children : x.owner \in live

\* Numbers are given out once in the life of a znode.
LEMMA NumberedStep == TypeOK /\ Numbered /\ [Next]_vars => Numbered'
<1> SUFFICES ASSUME TypeOK, Numbered, [Next]_vars PROVE Numbered'
  OBVIOUS
<1>1. ASSUME children' \subseteq children, next' = next, znode' = znode \/ znode' = TRUE
      PROVE Numbered'
  <2>1. IsFiniteSet(children')
    BY <1>1, FS_Subset DEF Numbered
  <2> QED
    BY <1>1, <2>1 DEF Numbered
<1>2. ASSUME NEW p \in Procs, Enqueue(p) PROVE Numbered'
  <2> DEFINE name == [kind |-> IF use[p] = "r" THEN "r" ELSE "w", seq |-> next]
             child == [name |-> name, owner |-> p]
  <2>1. child.name.seq = next
    OBVIOUS
  <2>2. children' = children \cup {child} /\ next' = next + 1 /\ znode /\ znode' = znode
    BY <1>2 DEF Enqueue
  <2> HIDE DEF child
  <2>3. IsFiniteSet(children')
    BY <2>2, FS_AddElement DEF Numbered
  <2>4. next \in Nat /\ \A x \in children : x.name.seq \in Nat
    BY DEF TypeOK, Names
  <2> QED
    BY <2>1, <2>2, <2>3, <2>4 DEF Numbered
<1>3. ASSUME NEW p \in Procs, RemovePath(p) PROVE Numbered'
  BY <1>3, FS_EmptySet DEF RemovePath, Numbered
<1>4. ASSUME NEW p \in Procs, CreatePath(p) PROVE Numbered'
  BY <1>4, <1>1 DEF CreatePath
<1>5. ASSUME NEW p \in Procs, Remove(p) \/ EndSession(p) PROVE Numbered'
  BY <1>5, <1>1, Zenon DEF Remove, EndSession
<1>6. ASSUME NEW p \in Procs, NEW u \in Uses[p], Start(p, u) PROVE Numbered'
  BY <1>6, <1>1 DEF Start
<1>7. ASSUME NEW p \in Procs, List(p) \/ Gone(p) \/ Unlock(p) \/ UnlockAgain(p)
      PROVE Numbered'
  BY <1>7, <1>1, Zenon DEF List, Gone, Unlock, UnlockAgain, ListToUnlock
<1>8. ASSUME NEW p \in Procs, Throw(p) \/ Crash(p) PROVE Numbered'
  BY <1>8, <1>1, Zenon DEF Throw, Crash
<1>9. CASE UNCHANGED vars
  BY <1>9, <1>1 DEF vars
<1> QED
  BY <1>2, <1>3, <1>4, <1>5, <1>6, <1>7, <1>8, <1>9 DEF Next, Step

-----------------------------------------------------------------------------
(* What a process knows of its child *)

\* It is of the kind its caller asked for,
Marked(p) ==
  pc[p] \in {"list", "wait"} \/ Holding(p) => (mine[p].kind = "r" => use[p] = "r")

\* is, as long as it is there, behind none that Lock would wait for, from the
\* return of Lock on: the ones before it are readers, if it is one itself,
First(p) ==
  Holding(p) /\ Owns(p) =>
    \A y \in children :
      y.name.seq < mine[p].seq => mine[p].kind = "r" /\ y.name.kind = "r"

\* and is gone once the Unlock that belongs to it has deleted it.
Released(p) ==
  pc[p] \in {"parent", "forget", "served", "failed"} \/ (pc[p] = "remove" /\ again[p])
    => ~Owns(p)

ZkInv ==
  /\ TypeOK /\ Numbered /\ Ephemeral
  /\ \A p \in Procs : Marked(p) /\ First(p) /\ Released(p)

\* A step of another process: it deletes children, or adds one of its own with
\* the next number.
LEMMA OthersKeep ==
  ASSUME ZkInv, NEW q \in Procs,
         pc'[q] = pc[q], use'[q] = use[q], mine'[q] = mine[q], again'[q] = again[q],
         \A x \in children' : x \in children \/ (x.owner # q /\ x.name.seq = next)
  PROVE  Marked(q)' /\ First(q)' /\ Released(q)'
<1>1. Marked(q) /\ First(q) /\ Released(q)
  BY DEF ZkInv
<1>2. Owns(q)' => Owns(q)
  BY DEF Owns
<1>3. Holding(q)' <=> Holding(q)
  BY DEF Holding
<1>4. Marked(q)'
  BY <1>1, <1>3 DEF Marked
<1>5. Released(q)'
  BY <1>1, <1>2 DEF Released
<1>6. ASSUME Holding(q)', Owns(q)', NEW y \in children', y.name.seq < mine'[q].seq
      PROVE  mine'[q].kind = "r" /\ y.name.kind = "r"
  <2>1. mine[q].seq < next /\ mine[q].seq \in Nat /\ next \in Nat
    <3>1. [name |-> mine[q], owner |-> q] \in children
      BY <1>2, <1>6 DEF Owns
    <3> QED
      BY <3>1 DEF ZkInv, Numbered, TypeOK, Names
  <2>2. y \in children
    BY <1>6, <2>1
  <2> QED
    BY <1>1, <1>2, <1>3, <1>6, <2>2 DEF First
<1> QED
  BY <1>4, <1>5, <1>6 DEF First

\* A step that leaves the children, or takes some away.
LEMMA FewerKeep ==
  ASSUME ZkInv, NEW q \in Procs,
         pc'[q] = pc[q], use'[q] = use[q], mine'[q] = mine[q], again'[q] = again[q],
         children' \subseteq children
  PROVE  Marked(q)' /\ First(q)' /\ Released(q)'
BY OthersKeep

\* A process whose next call is not in Lock after the child was made, nor in
\* Unlock, has nothing to know of its child.
LEMMA Elsewhere ==
  ASSUME NEW p \in Procs, pc'[p] \in {"idle", "prepare", "guid", "enqueue", "crashed"}
  PROVE  Marked(p)' /\ First(p)' /\ Released(p)'
BY DEF Marked, First, Released, Holding

\* One whose child is gone has only to know that.
LEMMA WithoutChild ==
  ASSUME NEW p \in Procs, pc'[p] \in {"parent", "forget", "served", "failed"}, ~Owns(p)'
  PROVE  Marked(p)' /\ First(p)' /\ Released(p)'
BY DEF Marked, First, Released, Holding

\* The step of one process, put together from what it does to itself and to the
\* children.
LEMMA OneStep ==
  ASSUME ZkInv, [Next]_vars, NEW p \in Procs,
         Marked(p)' /\ First(p)' /\ Released(p)', Ephemeral',
         \A q \in Procs \ {p} :
           pc'[q] = pc[q] /\ use'[q] = use[q] /\ mine'[q] = mine[q] /\ again'[q] = again[q],
         \A x \in children' : x \in children \/ (x.owner = p /\ x.name.seq = next)
  PROVE  ZkInv'
<1>1. TypeOK' /\ Numbered'
  BY TypeStep, NumberedStep DEF ZkInv
<1>2. ASSUME NEW q \in Procs PROVE Marked(q)' /\ First(q)' /\ Released(q)'
  <2>1. CASE q = p
    BY <2>1
  <2>2. CASE q # p
    <3>1. \A x \in children' : x \in children \/ (x.owner # q /\ x.name.seq = next)
      BY <2>2
    <3> QED
      BY <2>2, <3>1, OthersKeep
  <2> QED
    BY <2>1, <2>2
<1> QED
  BY <1>1, <1>2 DEF ZkInv

\* The child of Lock is the last one, and of the kind of the caller.
LEMMA EnqueueStep ==
  ASSUME ZkInv, [Next]_vars, NEW p \in Procs, Enqueue(p)
  PROVE  ZkInv'
<1> DEFINE name == [kind |-> IF use[p] = "r" THEN "r" ELSE "w", seq |-> next]
           child == [name |-> name, owner |-> p]
<1>1. /\ p \in live /\ live' = live
      /\ mine' = [mine EXCEPT ![p] = name]
      /\ children' = children \cup {child}
      /\ pc' = [pc EXCEPT ![p] = "list"]
      /\ use' = use /\ again' = again
  BY DEF Enqueue, At, Goto
<1>2. TypeOK
  BY DEF ZkInv
<1>4. mine'[p] = name /\ pc'[p] = "list"
  BY <1>1, <1>2 DEF TypeOK
<1>5. name.kind = "r" => use[p] = "r"
  OBVIOUS
<1>6. child.owner = p /\ child.name.seq = next
  OBVIOUS
<1> HIDE DEF name, child
<1>7. Marked(p)' /\ First(p)' /\ Released(p)'
  BY <1>1, <1>4, <1>5 DEF Marked, First, Released, Holding
<1>8. Ephemeral'
  BY <1>1, <1>6 DEF Ephemeral, ZkInv
<1>9. \A q \in Procs \ {p} :
        pc'[q] = pc[q] /\ use'[q] = use[q] /\ mine'[q] = mine[q] /\ again'[q] = again[q]
  BY <1>1, <1>2 DEF TypeOK
<1>10. \A x \in children' : x \in children \/ (x.owner = p /\ x.name.seq = next)
  BY <1>1, <1>6
<1> QED
  BY <1>7, <1>8, <1>9, <1>10, OneStep

\* GetChildren in Lock: when none is ahead, the child of the process is first.
LEMMA ListStep ==
  ASSUME ZkInv, [Next]_vars, NEW p \in Procs, List(p)
  PROVE  ZkInv'
<1>1. /\ children' = children /\ live' = live
      /\ mine' = mine /\ use' = use /\ again' = again
      /\ pc[p] = "list"
      /\ \/ Ahead(p) = {} /\ pc' = [pc EXCEPT ![p] = "held"]
         \/ pc' = [pc EXCEPT ![p] = "wait"]
  BY DEF List, At, Goto
<1>2. TypeOK /\ Marked(p)
  BY DEF ZkInv
<1>3. \A q \in Procs \ {p} : pc'[q] = pc[q]
  BY <1>1, <1>2 DEF TypeOK
<1>4. Ephemeral'
  BY <1>1 DEF ZkInv, Ephemeral
<1>5. Marked(p)'
  BY <1>1, <1>2 DEF Marked
<1>6. CASE pc' = [pc EXCEPT ![p] = "wait"]
  <2>1. pc'[p] = "wait"
    BY <1>6, <1>2 DEF TypeOK
  <2>2. First(p)' /\ Released(p)'
    BY <2>1 DEF First, Released, Holding
  <2> QED
    BY <1>1, <1>3, <1>4, <1>5, <2>2, OneStep
<1>7. CASE Ahead(p) = {} /\ pc' = [pc EXCEPT ![p] = "held"]
  <2>1. pc'[p] = "held"
    BY <1>7, <1>2 DEF TypeOK
  <2>2. Released(p)'
    BY <2>1 DEF Released
  <2>3. ASSUME Owns(p), NEW y \in children, y.name.seq < mine[p].seq
        PROVE  mine[p].kind = "r" /\ y.name.kind = "r"
    <3> DEFINE x == [name |-> mine[p], owner |-> p]
    <3>1. x \in children /\ x.name = mine[p]
      BY <2>3 DEF Owns
    <3>2. mine[p] \in Names /\ y.name \in Names
      BY <3>1, <1>2 DEF TypeOK
    <3>3. x # y
      BY <2>3, <3>1, <3>2 DEF Names
    <3>4. Cardinality(children) > 1
      BY <3>1, <3>3, TwoMembers DEF ZkInv, Numbered
    <3>5. ~(mine[p].kind = "r" => y.name.kind # "r")
      BY <1>7, <2>3, <3>4 DEF Ahead
    <3> QED
      BY <3>5
  <2>4. First(p)'
    BY <1>1, <2>3 DEF First, Owns
  <2> QED
    BY <1>1, <1>3, <1>4, <1>5, <2>2, <2>4, OneStep
<1> QED
  BY <1>1, <1>6, <1>7

\* GetChildren in Unlock: in the first one, the child is as it was when Lock
\* returned; in the one of rsp_recv it is gone.
LEMMA ListToUnlockStep ==
  ASSUME ZkInv, [Next]_vars, NEW p \in Procs, Unlock(p) \/ UnlockAgain(p)
  PROVE  ZkInv'
<1>1. PICK s \in {"held", "served"} : ListToUnlock(p, s)
  BY DEF Unlock, UnlockAgain
<1>2. /\ children' = children /\ live' = live /\ mine' = mine /\ use' = use
      /\ pc[p] = s
      /\ pc' = [pc EXCEPT ![p] = "remove"]
      /\ again' = [again EXCEPT ![p] = s = "served"]
  BY <1>1 DEF ListToUnlock, At, Goto
<1>3. TypeOK /\ Marked(p) /\ First(p) /\ Released(p)
  BY DEF ZkInv
<1>4. pc'[p] = "remove" /\ (again'[p] <=> s = "served")
  BY <1>2, <1>3, Zenon DEF TypeOK
<1>5. \A q \in Procs \ {p} : pc'[q] = pc[q] /\ again'[q] = again[q]
  BY <1>2, <1>3 DEF TypeOK
<1>6. Ephemeral'
  BY <1>2 DEF ZkInv, Ephemeral
<1>7. Holding(p)' => Holding(p)
  BY <1>2, <1>4 DEF Holding
<1>8. Owns(p)' <=> Owns(p)
  BY <1>2 DEF Owns
<1>9. Marked(p)' /\ First(p)'
  BY <1>2, <1>3, <1>4, <1>7, <1>8 DEF Marked, First
<1>10. Released(p)'
  BY <1>2, <1>3, <1>4, <1>8 DEF Released
<1> QED
  BY <1>2, <1>5, <1>6, <1>9, <1>10, OneStep

\* DeleteIfExists in Unlock: the child, if it was still there, is gone.
LEMMA RemoveStep ==
  ASSUME ZkInv, [Next]_vars, NEW p \in Procs, Remove(p)
  PROVE  ZkInv'
<1>1. /\ children' = {x \in children : x.name # mine[p]}
      /\ live' = live
  BY DEF Remove
<1>2. TypeOK
  BY DEF ZkInv
<1>3. Ephemeral'
  BY <1>1 DEF ZkInv, Ephemeral
<1>4. \A q \in Procs \ {p} :
        pc'[q] = pc[q] /\ use'[q] = use[q] /\ mine'[q] = mine[q] /\ again'[q] = again[q]
  BY <1>2 DEF Remove, Unlocked, Goto, TypeOK
<1>5. \/ pc'[p] = "idle"
      \/ pc'[p] \in {"parent", "forget"} /\ mine' = mine
  BY <1>2 DEF Remove, Unlocked, Goto, TypeOK
<1>6. Marked(p)' /\ First(p)' /\ Released(p)'
  <2>1. CASE pc'[p] = "idle"
    BY <2>1, Elsewhere
  <2>2. CASE pc'[p] \in {"parent", "forget"} /\ mine' = mine
    <3>1. ~Owns(p)'
      BY <1>1, <2>2 DEF Owns
    <3> QED
      BY <2>2, <3>1, WithoutChild
  <2> QED
    BY <1>5, <2>1, <2>2
<1> QED
  BY <1>1, <1>3, <1>4, <1>6, OneStep, Zenon

\* The deletion of the znode: there are no children.
LEMMA RemovePathStep ==
  ASSUME ZkInv, [Next]_vars, NEW p \in Procs, RemovePath(p)
  PROVE  ZkInv'
<1>1. children = {} /\ children' = {} /\ live' = live
  BY DEF RemovePath
<1>2. TypeOK
  BY DEF ZkInv
<1>3. Ephemeral'
  BY <1>1 DEF Ephemeral
<1>4. \A q \in Procs \ {p} :
        pc'[q] = pc[q] /\ use'[q] = use[q] /\ mine'[q] = mine[q] /\ again'[q] = again[q]
  BY <1>2 DEF RemovePath, Unlocked, Goto, TypeOK
<1>5. pc'[p] \in {"idle", "forget", "served"}
  BY <1>2 DEF RemovePath, Unlocked, Goto, TypeOK
<1>6. ~Owns(p)'
  BY <1>1 DEF Owns
<1>7. Marked(p)' /\ First(p)' /\ Released(p)'
  BY <1>5, <1>6, Elsewhere, WithoutChild
<1> QED
  BY <1>1, <1>3, <1>4, <1>7, OneStep

\* An error code.  No parent for a child: there are no children at all.  Children
\* in a znode to delete: Unlock has deleted its own before.  An expired session:
\* its children went with it.
LEMMA ThrowStep ==
  ASSUME ZkInv, [Next]_vars, NEW p \in Procs, Throw(p)
  PROVE  ZkInv'
<1>1. /\ children' = children /\ live' = live /\ mine' = mine
      /\ pc' = [pc EXCEPT ![p] = "failed"]
      /\ \A q \in Procs \ {p} : use'[q] = use[q] /\ again'[q] = again[q]
  BY DEF Throw, Goto, Forget, ZkInv, TypeOK
<1>2. TypeOK
  BY DEF ZkInv
<1>3. Ephemeral'
  BY <1>1 DEF ZkInv, Ephemeral
<1>4. pc'[p] = "failed" /\ \A q \in Procs \ {p} : pc'[q] = pc[q]
  BY <1>1, <1>2 DEF TypeOK
<1>5. ~Owns(p)
  <2>1. CASE ~znode
    BY <2>1 DEF ZkInv, Numbered, Owns
  <2>2. CASE pc[p] \in {"parent", "forget"}
    BY <2>2 DEF ZkInv, Released
  <2>3. CASE p \notin live
    <3>1. SUFFICES ASSUME Owns(p) PROVE FALSE
      OBVIOUS
    <3>2. [name |-> mine[p], owner |-> p].owner \in live
      BY <3>1 DEF Owns, ZkInv, Ephemeral
    <3> QED
      BY <2>3, <3>2
  <2> QED
    BY <2>1, <2>2, <2>3 DEF Throw
<1>6. ~Owns(p)'
  BY <1>1, <1>5 DEF Owns
<1>7. Marked(p)' /\ First(p)' /\ Released(p)'
  BY <1>4, <1>6, WithoutChild
<1> QED
  BY <1>1, <1>3, <1>4, <1>7, OneStep

\* The other steps change no child but those of a session that ends.
LEMMA OtherSteps ==
  ASSUME ZkInv, [Next]_vars, NEW p \in Procs,
         \/ \E u \in Uses[p] : Start(p, u)
         \/ CreatePath(p) \/ Gone(p) \/ Crash(p) \/ EndSession(p)
  PROVE  ZkInv'
<1> TypeOK
  BY DEF ZkInv
<1>1. ASSUME NEW u \in Uses[p], Start(p, u) PROVE ZkInv'
  <2>1. pc'[p] \in {"prepare", "guid"}
    BY <1>1, Zenon DEF Start, Goto, TypeOK
  <2>2. Marked(p)' /\ First(p)' /\ Released(p)'
    BY <2>1, Elsewhere
  <2>3. Ephemeral' /\ children' = children
    BY <1>1 DEF Start, ZkInv, Ephemeral
  <2>4. \A q \in Procs \ {p} :
          pc'[q] = pc[q] /\ use'[q] = use[q] /\ mine'[q] = mine[q] /\ again'[q] = again[q]
    BY <1>1, Zenon DEF Start, Goto, TypeOK
  <2> QED
    BY <2>2, <2>3, <2>4, OneStep
<1>2. CASE CreatePath(p)
  <2>1. pc'[p] \in {"guid", "enqueue"}
    BY <1>2, Zenon DEF CreatePath, Goto, TypeOK
  <2>2. Marked(p)' /\ First(p)' /\ Released(p)'
    BY <2>1, Elsewhere
  <2>3. Ephemeral' /\ children' = children
    BY <1>2 DEF CreatePath, ZkInv, Ephemeral
  <2>4. \A q \in Procs \ {p} :
          pc'[q] = pc[q] /\ use'[q] = use[q] /\ mine'[q] = mine[q] /\ again'[q] = again[q]
    BY <1>2, Zenon DEF CreatePath, Goto, TypeOK
  <2> QED
    BY <2>2, <2>3, <2>4, OneStep
<1>3. CASE Gone(p)
  <2>1. pc[p] = "wait" /\ pc'[p] = "list" /\ mine' = mine /\ use' = use
    BY <1>3, Zenon DEF Gone, At, Goto, TypeOK
  <2>2. Marked(p)' /\ First(p)' /\ Released(p)'
    BY <2>1, Zenon DEF ZkInv, Marked, First, Released, Holding
  <2>3. Ephemeral' /\ children' = children
    BY <1>3, Zenon DEF Gone, ZkInv, Ephemeral
  <2>4. \A q \in Procs \ {p} :
          pc'[q] = pc[q] /\ use'[q] = use[q] /\ mine'[q] = mine[q] /\ again'[q] = again[q]
    BY <1>3, Zenon DEF Gone, Goto, TypeOK
  <2> QED
    BY <2>2, <2>3, <2>4, OneStep
<1>4. CASE Crash(p)
  <2>1. pc'[p] = "crashed"
    BY <1>4, Zenon DEF Crash, Goto, TypeOK
  <2>2. Marked(p)' /\ First(p)' /\ Released(p)'
    BY <2>1, Elsewhere
  <2>3. Ephemeral' /\ children' = children
    BY <1>4, Zenon DEF Crash, ZkInv, Ephemeral
  <2>4. \A q \in Procs \ {p} :
          pc'[q] = pc[q] /\ use'[q] = use[q] /\ mine'[q] = mine[q] /\ again'[q] = again[q]
    BY <1>4, Zenon DEF Crash, Goto, Forget, TypeOK
  <2> QED
    BY <2>2, <2>3, <2>4, OneStep
<1>5. CASE EndSession(p)
  <2>1. /\ pc' = pc /\ use' = use /\ mine' = mine /\ again' = again
        /\ children' \subseteq children
    BY <1>5 DEF EndSession
  <2>2. Marked(p)' /\ First(p)' /\ Released(p)'
    BY <2>1, FewerKeep
  <2>3. Ephemeral'
    BY <1>5 DEF EndSession, ZkInv, Ephemeral
  <2> QED
    BY <2>1, <2>2, <2>3, OneStep
<1> QED
  BY <1>1, <1>2, <1>3, <1>4, <1>5

\* The invariant holds at first,
LEMMA InitZk == Init => ZkInv
<1> SUFFICES ASSUME Init PROVE ZkInv
  OBVIOUS
<1>1. TypeOK
  BY InitType
<1>2. Numbered /\ Ephemeral
  BY FS_EmptySet DEF Init, Numbered, Ephemeral
<1>3. \A p \in Procs : Marked(p) /\ First(p) /\ Released(p)
  BY DEF Init, Marked, First, Released, Holding
<1> QED
  BY <1>1, <1>2, <1>3 DEF ZkInv

\* and after every step.
LEMMA ZkStep == ZkInv /\ [Next]_vars => ZkInv'
<1> SUFFICES ASSUME ZkInv, [Next]_vars PROVE ZkInv'
  OBVIOUS
<1>1. CASE Next
  <2>1. PICK p \in Procs :
          \/ \E u \in Uses[p] : Start(p, u)
          \/ Step(p) \/ Crash(p) \/ EndSession(p)
    BY <1>1 DEF Next
  <2> QED
    BY <2>1, EnqueueStep, ListStep, ListToUnlockStep, RemoveStep, RemovePathStep,
       ThrowStep, OtherSteps, Zenon DEF Step
<1>2. CASE UNCHANGED vars
  <2>1. /\ pc' = pc /\ use' = use /\ mine' = mine /\ again' = again
        /\ children' = children /\ live' = live
    BY <1>2 DEF vars
  <2>2. TypeOK' /\ Numbered'
    BY TypeStep, NumberedStep DEF ZkInv
  <2>3. Ephemeral'
    BY <2>1 DEF ZkInv, Ephemeral
  <2>4. \A q \in Procs : Marked(q)' /\ First(q)' /\ Released(q)'
    BY <2>1, FewerKeep, Zenon
  <2> QED
    BY <2>2, <2>3, <2>4 DEF ZkInv
<1> QED
  BY <1>1, <1>2

\* The invariant of Lock and Unlock, in every state.
THEOREM ZkInvHolds == Spec => []ZkInv
BY InitZk, ZkStep, PTL DEF Spec

\* Two processes whose calls of Lock have returned, and whose children are still
\* there, are readers both.  Of two children one has the lower number; the other
\* got past it in Lock, or it came later and has the higher number.
LEMMA ZkInvExcludes == ZkInv => Exclusive
<1> SUFFICES ASSUME ZkInv, NEW p \in Procs, NEW q \in Procs, p # q,
                    Holding(p), Holding(q), Owns(p), Owns(q)
             PROVE  use[p] = "r" /\ use[q] = "r"
  BY DEF Exclusive
<1> DEFINE x == [name |-> mine[p], owner |-> p]
           y == [name |-> mine[q], owner |-> q]
<1>1. x \in children /\ y \in children
  BY DEF Owns
<1>2. x.name = mine[p] /\ y.name = mine[q] /\ x.owner = p /\ y.owner = q
  OBVIOUS
<1> HIDE DEF x, y
<1>3. mine[p].seq \in Nat /\ mine[q].seq \in Nat
  BY <1>1, <1>2 DEF ZkInv, TypeOK, Names
<1>4. mine[p].seq # mine[q].seq
  BY <1>1, <1>2, Zenon DEF ZkInv, Numbered
<1>5. Marked(p) /\ First(p) /\ Marked(q) /\ First(q)
  BY DEF ZkInv
<1>6. mine[p].seq < mine[q].seq \/ mine[q].seq < mine[p].seq
  BY <1>3, <1>4
<1>7. mine[p].kind = "r" /\ mine[q].kind = "r"
  BY <1>1, <1>2, <1>5, <1>6 DEF First
<1> QED
  BY <1>5, <1>7, Zenon DEF Marked

\* Mutual exclusion: a writer that holds the lock of a path holds it alone,
\* whatever the others do and however they end.
THEOREM ExclusiveHolds == Spec => []Exclusive
BY ZkInvHolds, ZkInvExcludes, PTL

\* A process that fails in Lock or Unlock leaves no child that others would wait
\* for.
LEMMA ZkInvFailed == ZkInv => FailedLeavesNothing
BY DEF ZkInv, Released, FailedLeavesNothing

\* The exceptions of Lock and Unlock leave nothing behind.
THEOREM FailedLeavesNothingHolds == Spec => []FailedLeavesNothing
BY ZkInvHolds, ZkInvFailed, PTL
=============================================================================
