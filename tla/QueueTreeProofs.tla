-------------------------- MODULE QueueTreeProofs --------------------------
(***************************************************************************)
(* Proofs about QueueTree, for every hierarchy of names, every set of      *)
(* configurations and any number of applications:                          *)
(*   - every reference between queues, applications, the update and the    *)
(*     cleaner is to a queue object that there is (QueueTypes);            *)
(*   - the scheduler finds the queue of every application that it has      *)
(*     accepted (AppsAreFindable);                                         *)
(*   - an update that is done has made the queues what the configuration   *)
(*     says (ConfigurationsApplied), and                                   *)
(*   - what is charged is charged to the whole path of a queue that can be *)
(*     found, and will be given back (ChargesAreReturned), whatever the    *)
(*     cleaner and the updates do meanwhile.                               *)
(* The last two hold as long as the name of a queue is not used again for  *)
(* another one, see ConfigsApart: the cleaner may remove a queue that a    *)
(* configuration has just taken over from a placement rule.                *)
(***************************************************************************)
EXTENDS QueueTree, TLAPS, FiniteSetTheorems

-----------------------------------------------------------------------------
(* NamePath is defined by recursion over the parents.  That there is such  *)
(* a function needs no induction: the names that every set closed under    *)
(* ParentOf has, when it has n, are one.                                   *)

Closed(T) == T \subseteq Names /\ \A m \in T \ {Root} : ParentOf[m] \in T
Above(n) == { m \in Names : \A T \in SUBSET Names : Closed(T) /\ n \in T => m \in T }

(* A queue is one of those above it.                                       *)
LEMMA AboveSelf == \A n \in Names : n \in Above(n)
  BY DEF Above

(* There is nothing above the root.                                        *)
LEMMA AboveRoot == Above(Root) = {Root}
<1>1. Closed({Root})
  BY NamesAssumption DEF Closed
<1>2. Root \in Above(Root)
  BY AboveSelf, NamesAssumption
<1> QED
  BY <1>1, <1>2, NamesAssumption DEF Above

(* What is above a queue is the queue and what is above its parent.        *)
LEMMA AboveUnfold ==
  ASSUME NEW n \in Names, n # Root
  PROVE  Above(n) = {n} \cup Above(ParentOf[n])
<1> DEFINE p == ParentOf[n]
<1>0. p \in Names
  BY NamesAssumption
<1>1. ASSUME NEW m \in Above(p)
      PROVE  m \in Above(n)
  <2> SUFFICES ASSUME NEW T \in SUBSET Names, Closed(T), n \in T
               PROVE  m \in T
    BY <1>1 DEF Above
  <2>1. p \in T
    BY DEF Closed
  <2> QED
    BY <1>1, <2>1 DEF Above
<1>2. ASSUME NEW m \in Above(n), m # n
      PROVE  m \in Above(p)
  <2> SUFFICES ASSUME NEW T \in SUBSET Names, Closed(T), p \in T
               PROVE  m \in T
    BY <1>2 DEF Above
  <2>1. Closed(T \cup {n})
    BY DEF Closed
  <2>2. m \in T \cup {n}
    BY <1>2, <2>1 DEF Above
  <2> QED
    BY <1>2, <2>2
<1> QED
  BY <1>1, <1>2, AboveSelf

(* The recursive definition has a solution, so NamePath is one. *)
LEMMA NamePathUnfold ==
  NamePath = [n \in Names |-> IF n = Root THEN {Root} ELSE {n} \cup NamePath[ParentOf[n]]]
<1> DEFINE step(f) == [n \in Names |-> IF n = Root THEN {Root} ELSE {n} \cup f[ParentOf[n]]]
           f0 == [n \in Names |-> Above(n)]
<1>1. f0 = step(f0)
  BY AboveRoot, AboveUnfold, NamesAssumption
<1>2. \E f : f = step(f)
  BY <1>1
<1>3. NamePath = CHOOSE f : f = step(f)
  BY DEF NamePath
<1> QED
  BY <1>2, <1>3

(* Every name is on its own path. *)
LEMMA OnOwnPath == \A n \in Names : n \in NamePath[n]
  BY NamePathUnfold

-----------------------------------------------------------------------------
(* The inductive invariant.  AddSchedulingApplication relies on a queue    *)
(* that FindQueue has found some steps before (PlacingFound); the cleaner  *)
(* removes by a name of a queue (CleanerNames).                            *)
PlacingFound ==
  /\ placing.phase # "idle" =>
       /\ placing.app \in Apps /\ appState[placing.app] = "cached"
       /\ placing.name \in Names
  /\ placing.phase = "add" => sched[placing.name] # Nil

CleanerNames == cleaner.phase = "idle" \/ cleaner.name \in Names

FindableTypes ==
  /\ DOMAIN sched = Names
  /\ schedApps \in [Names -> SUBSET Apps]
  /\ appState \in [Apps -> {"none", "cached", "accepted", "rejected", "leaving", "gone"}]
  /\ appQueue \in [Apps -> Names \cup {NoName}]
  /\ \A a \in Apps : appState[a] # "none" => appQueue[a] \in Names
  /\ DOMAIN placing = {"phase", "app", "name"}
  /\ DOMAIN cleaner = {"phase", "queue", "name"}

FindableInv == FindableTypes /\ PlacingFound /\ CleanerNames /\ AppsFindable

(* The configuration that is loaded at the start has no applications yet.  *)
LEMMA FindableInit == Init => FindableInv
  BY NamesAssumption
     DEF Init, FindableInv, FindableTypes, PlacingFound, CleanerNames, AppsFindable, Idle, Resting

(* What the scheduler has a queue for, it has one for after the step: the  *)
(* cleaner deletes a full name among short ones.                           *)
SchedKept == DOMAIN sched' = Names /\ \A n \in Names : sched[n] # Nil => sched'[n] # Nil

(* An update and a placement rule add queues to the map of the scheduler,  *)
(* and change what a name refers to, but never take a name out.            *)
LEMMA QueuesAddedKept ==
  ASSUME FindableInv, NEW S, sched' = WithSchedulingQueues(S)
  PROVE  SchedKept /\ \A n \in S \cap Names : GetQueue[n] # Nil => sched'[n] # Nil
  BY DEF WithSchedulingQueues, SchedKept

(* unlinkFromParent and the deletion by the full name take no queue out of *)
(* the map of its parent, where it is known by its short name.             *)
LEMMA NothingDeleted ==
  ASSUME FindableInv, UnlinkSchedulingQueue
  PROVE  SchedKept
<1>1. cleaner.name \in Names
  BY DEF UnlinkSchedulingQueue, FindableInv, CleanerNames
<1>2. \A n \in Names : n # Root => ShortName[n] # cleaner.name
  BY <1>1, NamesAssumption
<1>3. CASE sched' = sched
  BY <1>3 DEF SchedKept, FindableInv, FindableTypes
<1>4. CASE sched' = DeleteKey(ParentOf[cleaner.name], cleaner.name)
  BY <1>2, <1>4 DEF SchedKept, DeleteKey
<1> QED
  BY <1>3, <1>4 DEF UnlinkSchedulingQueue

(* No step takes a queue out of reach of an application that was accepted  *)
(* for it.                                                                 *)
LEMMA FindableNext == FindableInv /\ [Next]_vars => FindableInv'
<1> SUFFICES ASSUME FindableInv, [Next]_vars
             PROVE  FindableInv'
  OBVIOUS
<1> USE DEF FindableInv
(* Most steps leave the scheduler's queues, applications and names alone.  *)
<1>1. ASSUME SchedKept, UNCHANGED <<schedApps, appState, appQueue, placing, cleaner>>
      PROVE  FindableInv'
  BY <1>1 DEF SchedKept, FindableTypes, PlacingFound, CleanerNames, AppsFindable
<1>2. ASSUME UNCHANGED <<sched, schedApps, appState, appQueue, placing, cleaner>>
      PROVE  FindableInv'
  BY <1>1, <1>2 DEF SchedKept, FindableTypes
<1>3. CASE UNCHANGED vars
  BY <1>2, <1>3 DEF vars, appVars
<1>4. ASSUME NEW c \in Configs, StartReload(c)
      PROVE  FindableInv'
  BY <1>2, <1>4 DEF StartReload, appVars
<1>5. CASE UpdateQueue
  BY <1>2, <1>5 DEF UpdateQueue, Continue, Abort, appVars
<1>6. CASE PruneQueues
  BY <1>2, <1>6 DEF PruneQueues, Continue, appVars
<1>7. CASE MarkQueueForRemoval
  BY <1>2, <1>7 DEF MarkQueueForRemoval, Continue, appVars
<1>8. CASE UnlockQueue
  BY <1>2, <1>8 DEF UnlockQueue, Continue, appVars
<1>9. CASE SyncScheduler
  BY <1>1, <1>9, QueuesAddedKept DEF SyncScheduler, appVars
<1>10. ASSUME NEW app \in Apps, NEW n \in Submitted, SubmitApplication(app, n)
       PROVE  FindableInv'
  BY <1>10, NamesAssumption
     DEF SubmitApplication, FindableTypes, PlacingFound, CleanerNames, AppsFindable
<1>11. ASSUME NEW app \in Apps, NEW n \in Placed, PlaceApplication(app, n)
       PROVE  FindableInv'
  BY <1>11, NamesAssumption
     DEF PlaceApplication, Answer, Idle, FindableTypes, PlacingFound, CleanerNames, AppsFindable
<1>12. ASSUME NEW app \in Apps, RefusePlacement(app)
       PROVE  FindableInv'
  BY <1>12 DEF RefusePlacement, Answer, Idle, FindableTypes, PlacingFound, CleanerNames, AppsFindable
<1>13. ASSUME NEW app \in Apps, UseSubmitted(app)
       PROVE  FindableInv'
  BY <1>13 DEF UseSubmitted, appVars, FindableTypes, PlacingFound, CleanerNames, AppsFindable
<1>14. CASE SetQueue
  BY <1>14 DEF SetQueue, FindableTypes, PlacingFound, CleanerNames, AppsFindable
<1>15. CASE FindQueue
  <2> DEFINE n == placing.name
  <2>0. n \in Names /\ placing.app \in Apps /\ placing.phase = "find"
    BY <1>15 DEF FindQueue, PlacingFound
  <2>1. CASE sched' = sched /\ placing' = placing /\ appState' = appState
    BY <1>15, <1>2, <2>1 DEF FindQueue
  <2>2. CASE sched' = sched /\ Answer(placing.app, "rejected")
    BY <1>15, <2>0, <2>2
       DEF FindQueue, Answer, Idle, FindableTypes, PlacingFound, CleanerNames, AppsFindable
  <2>3. CASE /\ SchedKept /\ sched'[n] # Nil
             /\ placing' = [placing EXCEPT !.phase = "add"] /\ UNCHANGED appState
    BY <1>15, <2>0, <2>3
       DEF FindQueue, SchedKept, FindableTypes, PlacingFound, CleanerNames, AppsFindable
  <2>4. ASSUME sched[n] # Nil, sched' = sched
        PROVE  SchedKept /\ sched'[n] # Nil
    BY <2>4 DEF SchedKept, FindableTypes
  <2>5. ASSUME GetQueue[n] # Nil, sched' = WithSchedulingQueues({ m \in Names : n \in NamePath[m] })
        PROVE  SchedKept /\ sched'[n] # Nil
    BY <2>0, <2>5, QueuesAddedKept, OnOwnPath
  <2> QED
    BY <1>15, <2>1, <2>2, <2>3, <2>4, <2>5 DEF FindQueue
<1>16. CASE AddSchedulingApplication
  BY <1>16
     DEF AddSchedulingApplication, Answer, Idle, FindableTypes, PlacingFound, CleanerNames, AppsFindable
<1>17. ASSUME NEW app \in Apps, RemoveSchedulingApplication(app)
       PROVE  FindableInv'
  BY <1>17
     DEF RemoveSchedulingApplication, FindableTypes, PlacingFound, CleanerNames, AppsFindable
<1>18. ASSUME NEW app \in Apps, ChargeQueue(app)
       PROVE  FindableInv'
  BY <1>2, <1>18 DEF ChargeQueue
<1>19. ASSUME NEW app \in Apps, ReleaseQueue(app)
       PROVE  FindableInv'
  BY <1>19
     DEF ReleaseQueue, FindableTypes, PlacingFound, CleanerNames, AppsFindable
<1>20. ASSUME NEW n \in Names, CleanQueue(n)
       PROVE  FindableInv'
  BY <1>20 DEF CleanQueue, appVars, FindableTypes, PlacingFound, CleanerNames, AppsFindable
<1>21. CASE CheckRemoval
  BY <1>21 DEF CheckRemoval, Resting, appVars, FindableTypes, PlacingFound, CleanerNames, AppsFindable
<1>22. CASE UnlinkQueue
  BY <1>22 DEF UnlinkQueue, appVars, FindableTypes, PlacingFound, CleanerNames, AppsFindable
<1>23. CASE UnlinkSchedulingQueue
  BY <1>23, NothingDeleted
     DEF UnlinkSchedulingQueue, Resting, SchedKept, appVars, FindableTypes, PlacingFound, CleanerNames,
         AppsFindable
<1> QED
  BY <1>3, <1>4, <1>5, <1>6, <1>7, <1>8, <1>9, <1>10, <1>11, <1>12, <1>13, <1>14, <1>15, <1>16,
     <1>17, <1>18, <1>19, <1>20, <1>21, <1>22, <1>23 DEF Next

(* FindableInv holds in every reachable state, for every hierarchy of      *)
(* names and all that users and administrators may do.                     *)
THEOREM FindableInvariant == Spec => []FindableInv
<1>1. FindableInv /\ [Next]_vars => FindableInv'
  BY FindableNext
<1> QED
  BY <1>1, FindableInit, PTL DEF Spec

(* No interleaving of placements, updates and the cleaner leaves an        *)
(* application in a queue that RemoveSchedulingApplication cannot find     *)
(* (panic, "This is not normal").                                          *)
THEOREM AppsAreFindable == Spec => []AppsFindable
<1>1. FindableInv => AppsFindable
  BY DEF FindableInv
<1> QED
  BY <1>1, FindableInvariant, PTL

-----------------------------------------------------------------------------

(* A set of names that is closed downwards is everything there is: every   *)
(* name leads up to the root.                                              *)
LEMMA NamesInduction ==
  ASSUME NEW S \in SUBSET Names, Root \in S,
         \A k \in Names \ {Root} : ParentOf[k] \in S => k \in S
  PROVE  S = Names
<1> DEFINE missing == Names \ S
<1>1. missing \in SUBSET (Names \ {Root})
  OBVIOUS
<1>2. missing # {} => \E n \in missing : ParentOf[n] \notin missing
  BY <1>1, NamesAssumption
<1>3. \A n \in missing : ParentOf[n] \in Names
  BY NamesAssumption
<1> QED
  BY <1>2, <1>3

(* So a function may be defined by recursion over the parents: the value   *)
(* of a name is the one that every set of pairs has that is closed under   *)
(* the rule.                                                               *)
Ruled(T, D, d, g) ==
  /\ <<Root, d>> \in T
  /\ \A n \in Names \ {Root}, v \in D : <<ParentOf[n], v>> \in T => <<n, g[n][v]>> \in T

Values(D, d, g) == { x \in Names \X D : \A T \in SUBSET (Names \X D) : Ruled(T, D, d, g) => x \in T }

(* There is a function with a given value for the root and a given rule for*)
(* the value of a name from that of its parent.                            *)
LEMMA RecursionOnNames ==
  ASSUME NEW D, NEW d \in D, NEW g \in [Names -> [D -> D]]
  PROVE  \E f \in [Names -> D] : /\ f[Root] = d
                                 /\ \A k \in Names \ {Root} : f[k] = g[k][f[ParentOf[k]]]
<1> DEFINE V == Values(D, d, g)
           One == { n \in Names : \E v \in D : \A w \in D : <<n, w>> \in V <=> w = v }
<1>0. Root \in Names /\ \A n \in Names \ {Root} : ParentOf[n] \in Names
  BY NamesAssumption
<1>1. V \subseteq Names \X D
  BY DEF Values
<1>2. Ruled(V, D, d, g)
  <2>1. <<Root, d>> \in V
    BY <1>0 DEF Values, Ruled
  <2>2. ASSUME NEW n \in Names \ {Root}, NEW v \in D, <<ParentOf[n], v>> \in V
        PROVE  <<n, g[n][v]>> \in V
    <3>1. <<n, g[n][v]>> \in Names \X D
      OBVIOUS
    <3>2. ASSUME NEW T \in SUBSET (Names \X D), Ruled(T, D, d, g)
          PROVE  <<n, g[n][v]>> \in T
      <4>1. <<ParentOf[n], v>> \in T
        BY <2>2, <3>2 DEF Values
      <4> QED
        BY <3>2, <4>1 DEF Ruled
    <3> QED
      BY <3>1, <3>2 DEF Values
  <2> QED
    BY <2>1, <2>2 DEF Ruled
<1>3. ASSUME NEW x \in V, Ruled(V \ {x}, D, d, g)
      PROVE  FALSE
  BY <1>1, <1>3 DEF Values
<1>4. Root \in One
  <2>1. ASSUME NEW w \in D, <<Root, w>> \in V, w # d
        PROVE  Ruled(V \ {<<Root, w>>}, D, d, g)
    BY <1>2, <2>1 DEF Ruled
  <2>2. \A w \in D : <<Root, w>> \in V <=> w = d
    BY <1>2, <1>3, <2>1 DEF Ruled
  <2> QED
    BY <1>0, <2>2
<1>5. ASSUME NEW n \in Names \ {Root}, ParentOf[n] \in One
      PROVE  n \in One
  <2>1. PICK v \in D : \A w \in D : <<ParentOf[n], w>> \in V <=> w = v
    BY <1>5
  <2>2. <<n, g[n][v]>> \in V /\ g[n][v] \in D
    BY <1>2, <2>1 DEF Ruled
  <2>3. ASSUME NEW w \in D, <<n, w>> \in V, w # g[n][v]
        PROVE  Ruled(V \ {<<n, w>>}, D, d, g)
    BY <1>2, <2>1, <2>3 DEF Ruled
  <2>4. \A w \in D : <<n, w>> \in V <=> w = g[n][v]
    BY <1>3, <2>2, <2>3
  <2> QED
    BY <2>2, <2>4
<1>6. One = Names
  BY <1>4, <1>5, NamesInduction
<1> DEFINE f == [n \in Names |-> CHOOSE v \in D : <<n, v>> \in V]
<1>7. ASSUME NEW n \in Names, NEW v \in D, <<n, v>> \in V
      PROVE  f[n] = v
  <2>1. \A w \in D : <<n, w>> \in V <=> w = v
    BY <1>6, <1>7
  <2> QED
    BY <2>1
<1>8. \A n \in Names : f[n] \in D /\ <<n, f[n]>> \in V
  BY <1>6
<1>9. f[Root] = d
  BY <1>0, <1>2, <1>7 DEF Ruled
<1>10. ASSUME NEW n \in Names \ {Root}
       PROVE  f[n] = g[n][f[ParentOf[n]]]
  <2>1. ParentOf[n] \in Names /\ f[ParentOf[n]] \in D /\ <<ParentOf[n], f[ParentOf[n]]>> \in V
    BY <1>0, <1>8
  <2>2. <<n, g[n][f[ParentOf[n]]]>> \in V /\ g[n][f[ParentOf[n]]] \in D
    BY <1>2, <2>1 DEF Ruled
  <2> HIDE DEF f
  <2> QED
    BY <1>7, <2>2
<1>11. f \in [Names -> D]
  BY <1>8
<1> HIDE DEF f
<1> QED
  BY <1>9, <1>10, <1>11

LinkageOf(os) ==
  /\ os \in Seq(QueueInfo) /\ 1 \in DOMAIN os /\ os[1].name = Root
  /\ \A o \in DOMAIN os : \A c \in os[o].children : c \in DOMAIN os /\ os[c].parent = o

(* The objects of the cache refer to each other. *)
Linkage == LinkageOf(objs)

(* What Linkage says, conjunct by conjunct.                                *)
LEMMA LinkageFacts ==
  ASSUME Linkage
  PROVE  /\ objs \in Seq(QueueInfo) /\ 1 \in Ids /\ Ids \subseteq Nat /\ Nil \notin Ids
         /\ objs[1].name = Root
         /\ \A o \in Ids : \A c \in objs[o].children : c \in Ids /\ objs[c].parent = o
         /\ \A o \in Ids : objs[o] \in QueueInfo
<1>1. objs \in Seq(QueueInfo)
  BY DEF Linkage, LinkageOf
<1> QED
  BY <1>1 DEF Linkage, LinkageOf, Ids, Nil

(* The recursive definition of getQueue has a solution. *)
LEMMA GetQueueUnfold ==
  Linkage => /\ GetQueue \in [Names -> Ids \cup {Nil}]
             /\ GetQueue[Root] = 1
             /\ \A n \in Names \ {Root} :
                  GetQueue[n] = IF GetQueue[ParentOf[n]] = Nil THEN Nil
                                ELSE ChildNamed(GetQueue[ParentOf[n]], n)
<1> SUFFICES ASSUME Linkage
             PROVE  /\ GetQueue \in [Names -> Ids \cup {Nil}]
                    /\ GetQueue[Root] = 1
                    /\ \A n \in Names \ {Root} :
                         GetQueue[n] = IF GetQueue[ParentOf[n]] = Nil THEN Nil
                                       ELSE ChildNamed(GetQueue[ParentOf[n]], n)
  OBVIOUS
<1> DEFINE D == Ids \cup {Nil}
           root == 1
           step(f) == [n \in Names |->
                         IF n = Root THEN 1
                         ELSE IF f[ParentOf[n]] = Nil THEN Nil ELSE ChildNamed(f[ParentOf[n]], n)]
           g == [n \in Names |-> [up \in D |-> IF up = Nil THEN Nil ELSE ChildNamed(up, n)]]
<1>0. Root \in Names /\ \A n \in Names \ {Root} : ParentOf[n] \in Names
  BY NamesAssumption
<1>1. ASSUME NEW o \in Ids, NEW n \in Names
      PROVE  ChildNamed(o, n) \in D
  BY LinkageFacts DEF ChildNamed
<1>2. root \in D /\ g \in [Names -> [D -> D]]
  BY <1>1, LinkageFacts
<1>3. PICK f \in [Names -> D] : /\ f[Root] = root
                                /\ \A k \in Names \ {Root} : f[k] = g[k][f[ParentOf[k]]]
  <2> HIDE DEF D, g, root
  <2> QED
    BY <1>2, RecursionOnNames
<1>4. f = step(f)
  <2>2. ASSUME NEW n \in Names
        PROVE  f[n] = IF n = Root THEN 1
                      ELSE IF f[ParentOf[n]] = Nil THEN Nil ELSE ChildNamed(f[ParentOf[n]], n)
    <3>1. n # Root => f[ParentOf[n]] \in D
      <4> HIDE DEF D
      <4> QED
        BY <1>0, <1>3
    <3>2. n # Root => g[n][f[ParentOf[n]]]
            = IF f[ParentOf[n]] = Nil THEN Nil ELSE ChildNamed(f[ParentOf[n]], n)
      BY <3>1
    <3> QED
      BY <1>3, <3>2
  <2>3. f = [n \in Names |-> f[n]]
    BY <1>3
  <2> QED
    BY <2>2, <2>3
<1>5. GetQueue = CHOOSE h : h = step(h)
  BY DEF GetQueue
<1>6. GetQueue = step(GetQueue)
  <2> HIDE DEF step
  <2> QED
    BY <1>4, <1>5
<1>7. /\ GetQueue = [n \in Names |-> GetQueue[n]]
      /\ GetQueue[Root] = 1
      /\ \A n \in Names \ {Root} :
           GetQueue[n] = IF GetQueue[ParentOf[n]] = Nil THEN Nil
                         ELSE ChildNamed(GetQueue[ParentOf[n]], n)
  <2> DEFINE q == GetQueue
  <2> HIDE DEF q
  <2>1. q = step(q)
    BY <1>6 DEF q
  <2>2. /\ q = [n \in Names |-> q[n]]
        /\ q[Root] = 1
        /\ \A n \in Names \ {Root} :
             q[n] = IF q[ParentOf[n]] = Nil THEN Nil ELSE ChildNamed(q[ParentOf[n]], n)
    BY <1>0, <2>1
  <2> QED
    BY <2>2 DEF q
<1>8. { n \in Names : GetQueue[n] \in D } = Names
  <2> DEFINE S == { n \in Names : GetQueue[n] \in D }
  <2>1. Root \in S
    BY <1>0, <1>2, <1>7
  <2>2. ASSUME NEW n \in Names \ {Root}, ParentOf[n] \in S
        PROVE  n \in S
    BY <1>1, <1>7, <2>2
  <2> HIDE DEF S
  <2>3. S \in SUBSET Names
    BY DEF S
  <2>4. S = Names
    BY <2>1, <2>2, <2>3, NamesInduction
  <2> QED
    BY <2>4 DEF S
<1>9. GetQueue \in [Names -> D]
  BY <1>7, <1>8
<1> QED
  BY <1>7, <1>9

(* What getQueue returns has the name, and is a child of what it returns   *)
(* for the parent.                                                         *)
Looked ==
  /\ GetQueue \in [Names -> Ids \cup {Nil}]
  /\ GetQueue[Root] = 1
  /\ \A n \in Names : GetQueue[n] # Nil =>
       /\ GetQueue[n] \in Ids /\ objs[GetQueue[n]].name = n
       /\ n # Root => /\ GetQueue[ParentOf[n]] \in Ids
                      /\ GetQueue[n] \in objs[GetQueue[ParentOf[n]]].children
                      /\ objs[GetQueue[n]].parent = GetQueue[ParentOf[n]]

(* getQueue returns the object of that name that is reached from the root, *)
(* or nothing.                                                             *)
LEMMA GetQueueLooked == Linkage => Looked
<1> SUFFICES ASSUME Linkage, NEW n \in Names, GetQueue[n] # Nil
             PROVE  /\ GetQueue[n] \in Ids /\ objs[GetQueue[n]].name = n
                    /\ n # Root => /\ GetQueue[ParentOf[n]] \in Ids
                                   /\ GetQueue[n] \in objs[GetQueue[ParentOf[n]]].children
                                   /\ objs[GetQueue[n]].parent = GetQueue[ParentOf[n]]
  BY GetQueueUnfold DEF Looked
<1>1. CASE n = Root
  BY <1>1, GetQueueUnfold, LinkageFacts
<1>2. CASE n # Root
  <2>1. ParentOf[n] \in Names
    BY <1>2, NamesAssumption
  <2>2. GetQueue[ParentOf[n]] \in Ids /\ GetQueue[n] = ChildNamed(GetQueue[ParentOf[n]], n)
    BY <1>2, <2>1, GetQueueUnfold
  <2>3. GetQueue[n] \in { c \in objs[GetQueue[ParentOf[n]]].children : objs[c].name = n }
    BY <2>2 DEF ChildNamed
  <2> QED
    BY <2>2, <2>3, LinkageFacts
<1> QED
  BY <1>1, <1>2

(* The same after a step.                                                  *)
LEMMA LookedNext == Linkage' => Looked'
  BY GetQueueLooked, PTL

(* A sequence in which some objects have changed. *)
LEMMA Changed ==
  ASSUME NEW D, NEW os \in Seq(D), NEW f \in [DOMAIN os -> D]
  PROVE  f \in Seq(D) /\ Len(f) = Len(os) /\ DOMAIN f = DOMAIN os
  OBVIOUS

(* Only its children tell an object before from after. *)
SameBut(x, y) ==
  /\ x.name = y.name /\ x.parent = y.parent /\ x.leaf = y.leaf /\ x.managed = y.managed
  /\ x.state = y.state /\ x.alloc = y.alloc

(* An assignment to the children of a queue changes nothing else of it.    *)
LEMMA NewChildren ==
  ASSUME NEW x \in QueueInfo, NEW S \in SUBSET Nat
  PROVE  /\ [x EXCEPT !.children = S] \in QueueInfo
         /\ [x EXCEPT !.children = S].children = S
         /\ SameBut([x EXCEPT !.children = S], x)
  BY DEF QueueInfo, SameBut

(* AddChildQueue changes the children of one queue. *)
Others(os, o, n) == { c \in os[o].children : os[c].name # n }

(* The objects after AddChildQueue: one more, and a child of that name has *)
(* been replaced in one parent.                                            *)
LEMMA WithChildIs ==
  ASSUME NEW os \in Seq(QueueInfo), NEW o \in DOMAIN os, NEW n, NEW q \in QueueInfo
  PROVE  /\ WithChild(os, o, n, q) \in Seq(QueueInfo)
         /\ Len(WithChild(os, o, n, q)) = Len(os) + 1
         /\ WithChild(os, o, n, q)[Len(os) + 1] = q
         /\ \A i \in DOMAIN os :
              /\ SameBut(WithChild(os, o, n, q)[i], os[i])
              /\ i # o => WithChild(os, o, n, q)[i].children = os[i].children
              /\ i = o => WithChild(os, o, n, q)[i].children = Others(os, o, n) \cup {Len(os) + 1}
<1> DEFINE S == { c \in os[o].children : os[c].name # n } \cup {Len(os) + 1}
           x == [os[o] EXCEPT !.children = S]
           mid == [os EXCEPT ![o] = x]
<1>0. Len(os) \in Nat /\ DOMAIN os = 1 .. Len(os) /\ \A i \in DOMAIN os : os[i] \in QueueInfo
  OBVIOUS
<1>1. S \in SUBSET Nat
  <2>1. os[o].children \in SUBSET Nat
    BY <1>0 DEF QueueInfo
  <2> QED
    BY <1>0, <2>1
<1>2. x \in QueueInfo /\ x.children = S /\ SameBut(x, os[o])
  <2> HIDE DEF S
  <2> QED
    BY <1>0, <1>1, NewChildren
<1>3. WithChild(os, o, n, q) = Append(mid, q) /\ S = Others(os, o, n) \cup {Len(os) + 1}
  BY DEF WithChild, Others
<1> HIDE DEF x, S
<1>4. mid \in [DOMAIN os -> QueueInfo]
  BY <1>0, <1>2
<1>5. mid[o] = x /\ \A i \in DOMAIN os : i # o => mid[i] = os[i]
  BY <1>0
<1> HIDE DEF mid
<1>6. mid \in Seq(QueueInfo) /\ Len(mid) = Len(os) /\ DOMAIN mid = DOMAIN os
  BY <1>4, Changed
<1>7. \A i \in DOMAIN os : SameBut(mid[i], os[i]) /\ mid[i].children = IF i = o THEN S ELSE os[i].children
  BY <1>2, <1>5 DEF SameBut
<1>8. /\ Append(mid, q) \in Seq(QueueInfo) /\ Len(Append(mid, q)) = Len(os) + 1
      /\ Append(mid, q)[Len(os) + 1] = q
      /\ \A i \in DOMAIN os : Append(mid, q)[i] = mid[i]
  BY <1>0, <1>6
<1> QED
  BY <1>3, <1>7, <1>8

(* AddChildQueue keeps the links consistent.                               *)
LEMMA AddLinkage ==
  ASSUME NEW os, LinkageOf(os), NEW o \in DOMAIN os, NEW n, NEW q \in QueueInfo,
         q.parent = o, q.children = {}
  PROVE  LinkageOf(WithChild(os, o, n, q))
<1> DEFINE new == WithChild(os, o, n, q)
<1>1. /\ new \in Seq(QueueInfo) /\ Len(new) = Len(os) + 1 /\ new[Len(os) + 1] = q
      /\ \A i \in DOMAIN os :
           /\ SameBut(new[i], os[i])
           /\ i # o => new[i].children = os[i].children
           /\ i = o => new[i].children = Others(os, o, n) \cup {Len(os) + 1}
  <2>1. os \in Seq(QueueInfo)
    BY DEF LinkageOf
  <2> QED
    BY <2>1, WithChildIs
<1> HIDE DEF new
<1>2. Len(os) \in Nat /\ DOMAIN os = 1 .. Len(os) /\ DOMAIN new = 1 .. Len(os) + 1
  BY <1>1 DEF LinkageOf
<1>4. \A i \in DOMAIN os : new[i].name = os[i].name /\ new[i].parent = os[i].parent
  BY <1>1 DEF SameBut
<1>5. ASSUME NEW i \in DOMAIN new, NEW c \in new[i].children
      PROVE  c \in DOMAIN new /\ new[c].parent = i
  <2>1. CASE i = Len(os) + 1
    BY <1>1, <1>5, <2>1
  <2>2. CASE i \in DOMAIN os /\ c \in os[i].children
    <3>1. c \in DOMAIN os /\ os[c].parent = i
      BY <2>2 DEF LinkageOf
    <3> QED
      BY <1>2, <1>4, <3>1
  <2>3. CASE i = o /\ c = Len(os) + 1
    BY <1>1, <1>2, <2>3
  <2>4. ASSUME i \in DOMAIN os
        PROVE  c \in os[i].children \/ (i = o /\ c = Len(os) + 1)
    <3>1. CASE i = o
      BY <1>1, <1>5, <3>1 DEF Others
    <3>2. CASE i # o
      BY <1>1, <1>5, <2>4, <3>2
    <3> QED
      BY <3>1, <3>2
  <2>5. i \in DOMAIN os \/ i = Len(os) + 1
    BY <1>2
  <2> QED
    BY <2>1, <2>2, <2>3, <2>4, <2>5
<1>6. 1 \in DOMAIN new /\ new[1].name = Root
  BY <1>2, <1>4 DEF LinkageOf
<1>7. LinkageOf(new)
  BY <1>1, <1>5, <1>6 DEF LinkageOf
<1> QED
  BY <1>7 DEF new

(* A finite set in some order: every element at one place. *)
LEMMA InOrder ==
  ASSUME NEW S, IsFiniteSet(S)
  PROVE  /\ SetToSeq(S) \in Seq(S)
         /\ \A x \in S : \E i \in DOMAIN SetToSeq(S) : SetToSeq(S)[i] = x
         /\ \A i, j \in DOMAIN SetToSeq(S) : SetToSeq(S)[i] = SetToSeq(S)[j] => i = j
<1> DEFINE k == Cardinality(S)
           f == SetToSeq(S)
<1>1. k \in Nat /\ ExistsBijection(1 .. k, S)
  BY FS_CardinalityType
<1>2. \E h \in [1 .. k -> S] : IsInjective(h)
  BY <1>1 DEF ExistsBijection, Bijection, Injection
<1>3. f \in [1 .. k -> S] /\ IsInjective(f)
  BY <1>2 DEF SetToSeq
<1>4. f \in Injection(1 .. k, S)
  BY <1>3 DEF Injection
<1>5. IsFiniteSet(1 .. k) /\ Cardinality(1 .. k) = k
  BY <1>1, FS_Interval
<1>6. f \in Surjection(1 .. k, S)
  BY <1>1, <1>4, <1>5, FS_Injection
<1> HIDE DEF f, k
<1>7. \A x \in S : \E i \in 1 .. k : f[i] = x
  BY <1>6 DEF Surjection
<1>8. f \in Seq(S) /\ DOMAIN f = 1 .. k
  BY <1>1, <1>3
<1> QED
  BY <1>3, <1>7, <1>8 DEF IsInjective, f

(* A step for every element of a set. *)
LEMMA StepsAre ==
  ASSUME NEW do, NEW S, IsFiniteSet(S), NEW T, \A x \in S : [do |-> do, on |-> x] \in T
  PROVE  /\ Steps(do, S) \in Seq(T)
         /\ \A i \in DOMAIN Steps(do, S) : \E x \in S : Steps(do, S)[i] = [do |-> do, on |-> x]
         /\ \A x \in S : \E i \in DOMAIN Steps(do, S) : Steps(do, S)[i] = [do |-> do, on |-> x]
<1> DEFINE s == SetToSeq(S)
           f == [i \in DOMAIN s |-> [do |-> do, on |-> s[i]]]
<1>1. /\ s \in Seq(S)
      /\ \A x \in S : \E i \in DOMAIN s : s[i] = x
  BY InOrder
<1>2. Steps(do, S) = f
  BY DEF Steps
<1> HIDE DEF s
<1>3. f \in [1 .. Len(s) -> T] /\ Len(s) \in Nat /\ DOMAIN s = 1 .. Len(s) /\ DOMAIN f = DOMAIN s
  BY <1>1
<1>4. \A i \in DOMAIN s : f[i] = [do |-> do, on |-> s[i]] /\ s[i] \in S
  BY <1>1
<1> HIDE DEF f
<1>5. f \in Seq(T)
  BY <1>3
<1> QED
  BY <1>1, <1>2, <1>3, <1>4, <1>5

(* Steps that are put in front of others. *)
LEMMA Joined ==
  ASSUME NEW T, NEW s \in Seq(T), NEW t \in Seq(T)
  PROVE  /\ s \o t \in Seq(T)
         /\ \A i \in DOMAIN (s \o t) : \/ \E j \in DOMAIN s : (s \o t)[i] = s[j] /\ i = j
                                       \/ \E j \in DOMAIN t : (s \o t)[i] = t[j] /\ i = Len(s) + j
         /\ \A j \in DOMAIN s : j \in DOMAIN (s \o t) /\ (s \o t)[j] = s[j]
         /\ \A j \in DOMAIN t : Len(s) + j \in DOMAIN (s \o t) /\ (s \o t)[Len(s) + j] = t[j]
<1>1. s \o t \in Seq(T) /\ Len(s \o t) = Len(s) + Len(t) /\ Len(s) \in Nat /\ Len(t) \in Nat
  OBVIOUS
<1>2. \A i \in 1 .. Len(s) + Len(t) : (s \o t)[i] = IF i <= Len(s) THEN s[i] ELSE t[i - Len(s)]
  OBVIOUS
<1>3. DOMAIN s = 1 .. Len(s) /\ DOMAIN t = 1 .. Len(t) /\ DOMAIN (s \o t) = 1 .. Len(s) + Len(t)
  OBVIOUS
<1> DEFINE u == s \o t
<1> HIDE DEF u
<1>4. ASSUME NEW i \in DOMAIN u
      PROVE  \/ \E j \in DOMAIN s : u[i] = s[j] /\ i = j
             \/ \E j \in DOMAIN t : u[i] = t[j] /\ i = Len(s) + j
  <2>1. CASE i <= Len(s)
    BY <1>1, <1>2, <1>3, <2>1 DEF u
  <2>2. CASE ~(i <= Len(s))
    <3>1. i - Len(s) \in DOMAIN t /\ u[i] = t[i - Len(s)] /\ i = Len(s) + (i - Len(s))
      BY <1>1, <1>2, <1>3, <2>2 DEF u
    <3> QED
      BY <3>1
  <2> QED
    BY <2>1, <2>2
<1>5. \A j \in DOMAIN s : j \in DOMAIN u /\ u[j] = s[j]
  BY <1>1, <1>2, <1>3 DEF u
<1>6. \A j \in DOMAIN t : Len(s) + j \in DOMAIN u /\ u[Len(s) + j] = t[j]
  BY <1>1, <1>2, <1>3 DEF u
<1> QED
  BY <1>1, <1>4, <1>5, <1>6 DEF u

(* What can be in a list can be in a list of more. *)
LEMMA Widened ==
  ASSUME NEW S, NEW T, S \subseteq T, NEW s \in Seq(S)
  PROVE  s \in Seq(T)
  OBVIOUS

(* The first step of a list of steps and the others.                       *)
LEMMA TheRest ==
  ASSUME NEW T, NEW s \in Seq(T), s # <<>>
  PROVE  /\ Tail(s) \in Seq(T) /\ Head(s) \in T /\ Head(s) = s[1] /\ 1 \in DOMAIN s
         /\ Len(Tail(s)) = Len(s) - 1 /\ Len(s) >= 1
         /\ \A i \in DOMAIN Tail(s) : i + 1 \in DOMAIN s /\ Tail(s)[i] = s[i + 1]
         /\ \A i \in DOMAIN s : i = 1 \/ (i - 1 \in DOMAIN Tail(s) /\ Tail(s)[i - 1] = s[i])
  OBVIOUS

(* A new queue is a queue. *)
LEMMA NewQueueIs ==
  ASSUME NEW n \in Names, NEW parent \in Nat, NEW leaf \in BOOLEAN, NEW managed \in BOOLEAN
  PROVE  /\ NewQueue(n, parent, leaf, managed) \in QueueInfo
         /\ NewQueue(n, parent, leaf, managed).name = n
         /\ NewQueue(n, parent, leaf, managed).parent = parent
         /\ NewQueue(n, parent, leaf, managed).managed = managed
         /\ NewQueue(n, parent, leaf, managed).state = "Active"
         /\ NewQueue(n, parent, leaf, managed).children = {}
         /\ NewQueue(n, parent, leaf, managed).alloc = 0
  BY DEF NewQueue, QueueInfo

(* What CreateQueues has made when it has come down to a name: the objects *)
(* and the one that it has made last.                                      *)
Grown == { x \in [objs : Seq(QueueInfo), at : Nat] : LinkageOf(x.objs) /\ x.at \in DOMAIN x.objs }

OneMore(n, m, x) ==
  [objs |-> WithChild(x.objs, x.at, m, NewQueue(m, x.at, m = n, FALSE)), at |-> Len(x.objs) + 1]

(* One turn of the loop of CreateQueues yields objects that are linked.    *)
LEMMA OneMoreGrown ==
  ASSUME NEW n \in Names, NEW m \in Names, NEW x \in Grown
  PROVE  OneMore(n, m, x) \in Grown
<1> DEFINE q == NewQueue(m, x.at, m = n, FALSE)
           os == WithChild(x.objs, x.at, m, q)
<1>1. LinkageOf(x.objs) /\ x.at \in DOMAIN x.objs /\ x.at \in Nat /\ x.objs \in Seq(QueueInfo)
  BY DEF Grown
<1>2. q \in QueueInfo /\ q.parent = x.at /\ q.children = {}
  BY <1>1 DEF NewQueue, QueueInfo
<1> HIDE DEF q
<1>3. LinkageOf(os)
  BY <1>1, <1>2, AddLinkage
<1>4. os \in Seq(QueueInfo) /\ Len(os) = Len(x.objs) + 1
  BY <1>1, <1>2, WithChildIs
<1>5. OneMore(n, m, x) = [objs |-> os, at |-> Len(x.objs) + 1]
  BY DEF OneMore, q
<1> HIDE DEF os
<1>6. Len(x.objs) + 1 \in DOMAIN os /\ Len(x.objs) + 1 \in Nat
  BY <1>1, <1>4
<1> QED
  BY <1>3, <1>4, <1>5, <1>6 DEF Grown

(* A way down from the root may be built up step by step.                  *)
LEMMA GrownByRecursion ==
  ASSUME NEW x \in Grown, NEW g \in [Names -> [Grown -> Grown]]
  PROVE  \E f \in [Names -> Grown] : /\ f[Root] = x
                                     /\ \A k \in Names \ {Root} : f[k] = g[k][f[ParentOf[k]]]
  BY RecursionOnNames

(* The recursive definition of CreateQueues has a solution: the queues that*)
(* are there are left alone, and below the nearest of them one queue is    *)
(* added for every part of the name.                                       *)
LEMMA CreateQueuesUnfold ==
  ASSUME Linkage, NEW n \in Names
  PROVE  \E make \in [Names -> Grown] :
           /\ CreateQueues(n) = make[n].objs
           /\ \A m \in Names : GetQueue[m] # Nil => make[m] = [objs |-> objs, at |-> GetQueue[m]]
           /\ \A m \in Names : GetQueue[m] = Nil => m # Root /\ make[m] = OneMore(n, m, make[ParentOf[m]])
<1> DEFINE old(m) == [objs |-> objs, at |-> GetQueue[m]]
           step(f) == [m \in Names |-> IF GetQueue[m] # Nil THEN old(m) ELSE OneMore(n, m, f[ParentOf[m]])]
           g == [m \in Names |-> [x \in Grown |-> IF GetQueue[m] # Nil THEN old(m) ELSE OneMore(n, m, x)]]
<1>0. Root \in Names /\ \A m \in Names \ {Root} : ParentOf[m] \in Names
  BY NamesAssumption
<1>1. Looked /\ 1 \in Ids /\ Ids \subseteq Nat /\ objs \in Seq(QueueInfo)
  BY GetQueueLooked, LinkageFacts
<1>21. 1 # Nil
  BY DEF Nil
<1>2. ASSUME NEW m \in Names, GetQueue[m] # Nil
      PROVE  old(m) \in Grown
  <2>1. GetQueue[m] \in Ids
    BY <1>1, <1>2 DEF Looked
  <2>2. GetQueue[m] \in DOMAIN objs
    BY <2>1 DEF Ids
  <2> QED
    BY <1>1, <2>1, <2>2 DEF Grown, Linkage
<1> HIDE DEF old
<1>3. old(Root) \in Grown
  BY <1>0, <1>1, <1>2, <1>21 DEF Looked
<1>4. g \in [Names -> [Grown -> Grown]]
  BY <1>2, OneMoreGrown
<1> DEFINE root == old(Root)
<1>31. root \in Grown /\ g \in [Names -> [Grown -> Grown]]
  BY <1>3, <1>4
<1>5. PICK f \in [Names -> Grown] : /\ f[Root] = root
                                    /\ \A m \in Names \ {Root} : f[m] = g[m][f[ParentOf[m]]]
  <2> HIDE DEF g, root
  <2> QED
    BY <1>31, GrownByRecursion
<1>6. f = step(f)
  <2>1. ASSUME NEW m \in Names
        PROVE  f[m] = IF GetQueue[m] # Nil THEN old(m) ELSE OneMore(n, m, f[ParentOf[m]])
    <3>1. CASE m = Root
      BY <1>0, <1>1, <1>21, <1>5, <3>1 DEF Looked
    <3>2. CASE m # Root
      <4>1. f[ParentOf[m]] \in Grown
        BY <1>0, <1>5, <3>2
      <4>2. g[m][f[ParentOf[m]]] = IF GetQueue[m] # Nil THEN old(m) ELSE OneMore(n, m, f[ParentOf[m]])
        BY <4>1
      <4> QED
        BY <1>5, <3>2, <4>2
    <3> QED
      BY <3>1, <3>2
  <2>2. f = [m \in Names |-> f[m]]
    BY <1>5
  <2> QED
    BY <2>1, <2>2
<1> DEFINE c == CHOOSE h : h = step(h)
<1>7. CreateQueues(n) = c[n].objs
  BY DEF CreateQueues, OneMore, old
<1>8. c = step(c)
  <2> HIDE DEF step
  <2> QED
    BY <1>6
<1> HIDE DEF c
<1>9. c \in [Names -> Grown]
  <2> DEFINE S == { m \in Names : c[m] \in Grown }
  <2>1. c = [m \in Names |-> c[m]]
    BY <1>8
  <2>2. Root \in S
    BY <1>0, <1>1, <1>21, <1>3, <1>8 DEF Looked
  <2>3. ASSUME NEW m \in Names \ {Root}, ParentOf[m] \in S
        PROVE  m \in S
    <3>1. c[m] = IF GetQueue[m] # Nil THEN old(m) ELSE OneMore(n, m, c[ParentOf[m]])
      BY <1>8
    <3> QED
      BY <1>2, <2>3, <3>1, OneMoreGrown
  <2>4. S = Names
    <3> HIDE DEF S
    <3>1. S \in SUBSET Names
      BY DEF S
    <3> QED
      BY <2>2, <2>3, <3>1, NamesInduction
  <2> QED
    BY <2>1, <2>4
<1>10. \A m \in Names : GetQueue[m] # Nil => c[m] = old(m)
  BY <1>8
<1>11. \A m \in Names : GetQueue[m] = Nil => m # Root /\ c[m] = OneMore(n, m, c[ParentOf[m]])
  BY <1>1, <1>21, <1>8 DEF Looked
<1> QED
  BY <1>7, <1>9, <1>10, <1>11 DEF old

(* The nearest queue above a name that is there. *)
LEMMA ExistingUnfold ==
  ASSUME Linkage
  PROVE  /\ Existing \in [Names -> Names]
         /\ \A n \in Names : /\ GetQueue[Existing[n]] \in Ids
                             /\ GetQueue[n] # Nil => Existing[n] = n
                             /\ GetQueue[n] = Nil => n # Root /\ Existing[n] = Existing[ParentOf[n]]
<1> DEFINE step(f) == [n \in Names |-> IF GetQueue[n] # Nil THEN n ELSE f[ParentOf[n]]]
           D == { n \in Names : GetQueue[n] # Nil }
           g == [n \in Names |-> [x \in D |-> IF GetQueue[n] # Nil THEN n ELSE x]]
<1>0. Root \in Names /\ \A n \in Names \ {Root} : ParentOf[n] \in Names
  BY NamesAssumption
<1>1. GetQueue \in [Names -> Ids \cup {Nil}] /\ GetQueue[Root] # Nil
  BY GetQueueLooked DEF Looked, Nil
<1>2. Root \in D /\ g \in [Names -> [D -> D]]
  BY <1>0, <1>1
<1>3. PICK f \in [Names -> D] : /\ f[Root] = Root
                                /\ \A k \in Names \ {Root} : f[k] = g[k][f[ParentOf[k]]]
  <2> HIDE DEF D, g
  <2> QED
    BY <1>2, RecursionOnNames
<1>4. f = step(f)
  <2>1. ASSUME NEW n \in Names
        PROVE  f[n] = IF GetQueue[n] # Nil THEN n ELSE f[ParentOf[n]]
    <3>1. CASE n = Root
      BY <1>1, <1>3, <3>1
    <3>2. CASE n # Root
      <4>1. f[ParentOf[n]] \in D
        BY <1>0, <1>3, <3>2
      <4>2. g[n][f[ParentOf[n]]] = IF GetQueue[n] # Nil THEN n ELSE f[ParentOf[n]]
        BY <4>1
      <4> QED
        BY <1>3, <3>2, <4>2
    <3> QED
      BY <3>1, <3>2
  <2>2. f = [n \in Names |-> f[n]]
    BY <1>3
  <2> QED
    BY <2>1, <2>2
<1> DEFINE c == CHOOSE h : h = step(h)
<1>5. Existing = c
  BY DEF Existing
<1>6. c = step(c)
  <2> HIDE DEF step
  <2> QED
    BY <1>4
<1> HIDE DEF c
<1>7. c = [n \in Names |-> c[n]] /\ \A n \in Names : c[n] = IF GetQueue[n] # Nil THEN n ELSE c[ParentOf[n]]
  BY <1>6
<1>8. \A n \in Names : c[n] \in D
  <2> DEFINE S == { n \in Names : c[n] \in D }
  <2>1. Root \in S
    BY <1>0, <1>1, <1>7
  <2>2. ASSUME NEW n \in Names \ {Root}, ParentOf[n] \in S
        PROVE  n \in S
    BY <1>7, <2>2
  <2>4. S = Names
    <3> HIDE DEF S
    <3>1. S \in SUBSET Names
      BY DEF S
    <3> QED
      BY <2>1, <2>2, <3>1, NamesInduction
  <2> QED
    BY <2>4
<1> QED
  BY <1>1, <1>5, <1>7, <1>8

(* What a queue is like after one field of it has changed. *)
LEMMA Fields ==
  ASSUME NEW x \in QueueInfo
  PROVE  /\ \A k \in Nat : LET y == [x EXCEPT !.alloc = k] IN
              /\ y \in QueueInfo /\ y.alloc = k /\ y.name = x.name /\ y.parent = x.parent
              /\ y.managed = x.managed /\ y.state = x.state /\ y.children = x.children
         /\ LET y == [x EXCEPT !.state = "Draining"] IN
              /\ y \in QueueInfo /\ y.state = "Draining" /\ y.name = x.name /\ y.parent = x.parent
              /\ y.managed = x.managed /\ y.alloc = x.alloc /\ y.children = x.children
  BY DEF QueueInfo

(* A change of queues that keeps their names and parents and adds no       *)
(* child.                                                                  *)
LEMMA ChangedLinkage ==
  ASSUME Linkage, objs' \in [Ids -> QueueInfo],
         \A o \in Ids : /\ objs'[o].name = objs[o].name /\ objs'[o].parent = objs[o].parent
                        /\ objs'[o].children \subseteq objs[o].children
  PROVE  Linkage' /\ Ids' = Ids
<1>1. objs' \in Seq(QueueInfo) /\ DOMAIN objs' = DOMAIN objs
  BY LinkageFacts, Changed DEF Ids
<1> QED
  BY <1>1, LinkageFacts DEF Linkage, LinkageOf, Ids

(* ChargeQueue and ReleaseQueue change the counters. *)
LEMMA Counted ==
  ASSUME Linkage, NEW S, NEW k \in Int, objs' = AddTo(S, k), \A o \in S \cap Ids : objs[o].alloc + k >= 0
  PROVE  /\ Linkage' /\ Ids' = Ids
         /\ \A o \in Ids : /\ objs'[o].name = objs[o].name /\ objs'[o].parent = objs[o].parent
                           /\ objs'[o].managed = objs[o].managed /\ objs'[o].state = objs[o].state
                           /\ objs'[o].children = objs[o].children
                           /\ objs'[o].alloc = objs[o].alloc + (IF o \in S THEN k ELSE 0)
<1>1. ASSUME NEW o \in Ids
      PROVE  /\ objs'[o] \in QueueInfo
             /\ objs'[o].name = objs[o].name /\ objs'[o].parent = objs[o].parent
             /\ objs'[o].managed = objs[o].managed /\ objs'[o].state = objs[o].state
             /\ objs'[o].children = objs[o].children
             /\ objs'[o].alloc = objs[o].alloc + (IF o \in S THEN k ELSE 0)
  <2>0. objs[o] \in QueueInfo /\ objs[o].alloc \in Nat
    BY LinkageFacts DEF QueueInfo
  <2>1. CASE o \in S
    <3>1. objs'[o] = [objs[o] EXCEPT !.alloc = objs[o].alloc + k] /\ objs[o].alloc + k \in Nat
      BY <2>0, <2>1 DEF AddTo
    <3> DEFINE y == [objs[o] EXCEPT !.alloc = objs[o].alloc + k]
    <3>2. /\ y \in QueueInfo /\ y.alloc = objs[o].alloc + k /\ y.name = objs[o].name
          /\ y.parent = objs[o].parent /\ y.managed = objs[o].managed /\ y.state = objs[o].state
          /\ y.children = objs[o].children
      BY <2>0, <3>1, Fields
    <3> HIDE DEF y
    <3>3. objs'[o] = y
      BY <3>1 DEF y
    <3> QED
      BY <2>1, <3>2, <3>3
  <2>2. CASE o \notin S
    BY <2>0, <2>2 DEF AddTo
  <2> QED
    BY <2>1, <2>2
<1>2. objs' \in [Ids -> QueueInfo]
  BY <1>1 DEF AddTo
<1> QED
  BY <1>1, <1>2, ChangedLinkage

(* MarkQueueForRemoval changes the state of a queue. *)
LEMMA Marked ==
  ASSUME Linkage, NEW p \in Ids, objs' = [objs EXCEPT ![p].state = "Draining"]
  PROVE  /\ Linkage' /\ Ids' = Ids
         /\ \A o \in Ids : /\ objs'[o].name = objs[o].name /\ objs'[o].parent = objs[o].parent
                           /\ objs'[o].managed = objs[o].managed /\ objs'[o].alloc = objs[o].alloc
                           /\ objs'[o].children = objs[o].children
                           /\ objs'[o].state = IF o = p THEN "Draining" ELSE objs[o].state
<1> DEFINE x == [objs[p] EXCEPT !.state = "Draining"]
<1>1. \A o \in Ids : objs'[o] = IF o = p THEN x ELSE objs[o]
  BY LinkageFacts DEF Ids
<1>2. /\ x \in QueueInfo /\ x.state = "Draining" /\ x.name = objs[p].name /\ x.parent = objs[p].parent
      /\ x.managed = objs[p].managed /\ x.alloc = objs[p].alloc /\ x.children = objs[p].children
  BY LinkageFacts, Fields
<1> HIDE DEF x
<1>3. objs' \in [Ids -> QueueInfo]
  BY <1>1, <1>2, LinkageFacts DEF Ids
<1> QED
  BY <1>1, <1>2, <1>3, ChangedLinkage

(* updateQueueProps makes a queue managed. *)
LEMMA Updated ==
  ASSUME Linkage, NEW p \in Ids, NEW b \in BOOLEAN,
         objs' = [objs EXCEPT ![p].managed = TRUE, ![p].leaf = @ /\ b]
  PROVE  /\ Linkage' /\ Ids' = Ids
         /\ \A o \in Ids : /\ objs'[o].name = objs[o].name /\ objs'[o].parent = objs[o].parent
                           /\ objs'[o].state = objs[o].state /\ objs'[o].alloc = objs[o].alloc
                           /\ objs'[o].children = objs[o].children
                           /\ objs'[o].managed = IF o = p THEN TRUE ELSE objs[o].managed
<1> DEFINE x == [objs[p] EXCEPT !.managed = TRUE, !.leaf = @ /\ b]
<1>0. objs \in Seq(QueueInfo) /\ p \in DOMAIN objs
  BY LinkageFacts DEF Ids
<1>1. /\ DOMAIN objs' = DOMAIN objs /\ objs' = [i \in DOMAIN objs |-> objs'[i]]
      /\ objs'[p] = x /\ \A o \in DOMAIN objs : o # p => objs'[o] = objs[o]
  BY <1>0
<1>2. /\ x \in QueueInfo /\ x.managed = TRUE /\ x.name = objs[p].name /\ x.parent = objs[p].parent
      /\ x.state = objs[p].state /\ x.alloc = objs[p].alloc /\ x.children = objs[p].children
  <2>1. objs[p] \in QueueInfo
    BY LinkageFacts
  <2> QED
    BY <2>1 DEF QueueInfo
<1> HIDE DEF x
<1>3. \A o \in Ids : objs'[o] = IF o = p THEN x ELSE objs[o]
  BY <1>1 DEF Ids
<1>4. objs' \in [Ids -> QueueInfo]
  BY <1>1, <1>2, LinkageFacts DEF Ids
<1> QED
  BY <1>2, <1>3, <1>4, ChangedLinkage

(* UnlinkQueue takes a name from the children of one queue. *)
LEMMA Unlinked ==
  ASSUME Linkage, NEW p, NEW name, objs' = [objs EXCEPT ![p].children = { c \in @ : objs[c].name # name }]
  PROVE  /\ Linkage' /\ Ids' = Ids
         /\ \A o \in Ids : /\ SameBut(objs'[o], objs[o])
                           /\ o # p => objs'[o].children = objs[o].children
                           /\ o = p => objs'[o].children = Others(objs, p, name)
<1> DEFINE x == [objs[p] EXCEPT !.children = Others(objs, p, name)]
<1>1. \A o \in Ids : objs'[o] = IF o = p THEN x ELSE objs[o]
  BY LinkageFacts DEF Ids, Others
<1>2. ASSUME p \in Ids
      PROVE  x \in QueueInfo /\ x.children = Others(objs, p, name) /\ SameBut(x, objs[p])
  <2>1. objs[p] \in QueueInfo /\ objs[p].children \in SUBSET Nat
    BY <1>2, LinkageFacts DEF QueueInfo
  <2>2. Others(objs, p, name) \in SUBSET Nat
    BY <2>1 DEF Others
  <2> QED
    BY <2>1, <2>2, NewChildren
<1> HIDE DEF x
<1>3. objs' \in [Ids -> QueueInfo]
  BY <1>1, <1>2, LinkageFacts DEF Ids
<1>4. \A o \in Ids : /\ SameBut(objs'[o], objs[o])
                     /\ o # p => objs'[o].children = objs[o].children
                     /\ o = p => objs'[o].children = Others(objs, p, name)
  BY <1>1, <1>2 DEF SameBut
<1>5. \A o \in Ids : /\ objs'[o].name = objs[o].name /\ objs'[o].parent = objs[o].parent
                     /\ objs'[o].children \subseteq objs[o].children
  BY <1>4 DEF SameBut, Others
<1> QED
  BY <1>3, <1>4, <1>5, ChangedLinkage

(* NewManagedQueue adds a child to one queue. *)
LEMMA Added ==
  ASSUME Linkage, NEW p \in Ids, NEW n, NEW q \in QueueInfo, q.parent = p, q.children = {},
         objs' = WithChild(objs, p, n, q)
  PROVE  /\ Linkage' /\ Ids' = Ids \cup {Len(objs) + 1} /\ Len(objs) + 1 \notin Ids /\ Len(objs) + 1 \in Nat
         /\ objs'[Len(objs) + 1] = q
         /\ \A o \in Ids : /\ SameBut(objs'[o], objs[o])
                           /\ o # p => objs'[o].children = objs[o].children
                           /\ o = p => objs'[o].children = Others(objs, p, n) \cup {Len(objs) + 1}
<1>1. p \in DOMAIN objs /\ objs \in Seq(QueueInfo) /\ LinkageOf(objs)
  BY LinkageFacts DEF Ids, Linkage
<1>2. Linkage'
  BY <1>1, AddLinkage DEF Linkage
<1>3. objs' \in Seq(QueueInfo) /\ Len(objs') = Len(objs) + 1
  BY <1>1, WithChildIs
<1>4. Ids' = Ids \cup {Len(objs) + 1} /\ Len(objs) + 1 \notin Ids /\ Len(objs) + 1 \in Nat
  BY <1>1, <1>3 DEF Ids
<1> QED
  BY <1>1, <1>2, <1>4, WithChildIs DEF Ids

(* The queues that were there stay, but for their children. *)
OldKept(os) == Ids \subseteq DOMAIN os /\ \A i \in Ids : SameBut(os[i], objs[i])

(* One turn of the loop of CreateQueues keeps the queues that were there.  *)
LEMMA OneMoreKeeps ==
  ASSUME Linkage, NEW n \in Names, NEW m \in Names, NEW x \in Grown, OldKept(x.objs)
  PROVE  OldKept(OneMore(n, m, x).objs)
<1> DEFINE q == NewQueue(m, x.at, m = n, FALSE)
           os == WithChild(x.objs, x.at, m, q)
<1>1. x.at \in DOMAIN x.objs /\ x.at \in Nat /\ x.objs \in Seq(QueueInfo)
  BY DEF Grown
<1>2. q \in QueueInfo
  BY <1>1 DEF NewQueue, QueueInfo
<1>3. OneMore(n, m, x).objs = os
  BY DEF OneMore
<1> HIDE DEF q
<1>4. /\ os \in Seq(QueueInfo) /\ Len(os) = Len(x.objs) + 1
      /\ \A i \in DOMAIN x.objs : SameBut(os[i], x.objs[i])
  BY <1>1, <1>2, WithChildIs
<1> HIDE DEF os
<1>5. DOMAIN x.objs \subseteq DOMAIN os
  BY <1>1, <1>4
<1> QED
  BY <1>3, <1>4, <1>5 DEF OldKept, SameBut

(* CreateQueues keeps the links, and of the queues that were there it      *)
(* changes the children only.                                              *)
LEMMA CreatedLinkage ==
  ASSUME Linkage, NEW n \in Names, objs' = CreateQueues(n)
  PROVE  Linkage' /\ Ids \subseteq Ids' /\ \A i \in Ids : SameBut(objs'[i], objs[i])
<1>1. PICK make \in [Names -> Grown] :
        /\ CreateQueues(n) = make[n].objs
        /\ \A m \in Names : GetQueue[m] # Nil => make[m] = [objs |-> objs, at |-> GetQueue[m]]
        /\ \A m \in Names : GetQueue[m] = Nil => m # Root /\ make[m] = OneMore(n, m, make[ParentOf[m]])
  BY CreateQueuesUnfold
<1> DEFINE S == { m \in Names : OldKept(make[m].objs) }
<1>2. ASSUME NEW m \in Names, GetQueue[m] # Nil
      PROVE  m \in S
  <2>1. make[m].objs = objs
    BY <1>1, <1>2
  <2> QED
    BY <2>1 DEF OldKept, SameBut, Ids
<1>3. Root \in S
  BY <1>2, GetQueueLooked, NamesAssumption DEF Looked, Nil
<1>4. ASSUME NEW m \in Names \ {Root}, ParentOf[m] \in S
      PROVE  m \in S
  <2>1. CASE GetQueue[m] # Nil
    BY <1>2, <2>1
  <2>2. CASE GetQueue[m] = Nil
    <3>1. make[ParentOf[m]] \in Grown /\ OldKept(make[ParentOf[m]].objs)
      BY <1>4
    <3>2. make[m] = OneMore(n, m, make[ParentOf[m]])
      BY <1>1, <2>2
    <3> QED
      BY <3>1, <3>2, OneMoreKeeps
  <2> QED
    BY <2>1, <2>2
<1>5. S = Names
  <2> HIDE DEF S
  <2>1. S \in SUBSET Names
    BY DEF S
  <2> QED
    BY <1>3, <1>4, <2>1, NamesInduction
<1>6. OldKept(objs')
  BY <1>1, <1>5
<1>7. LinkageOf(objs')
  BY <1>1 DEF Grown
<1> QED
  BY <1>6, <1>7 DEF OldKept, Linkage, Ids

(* The steps of an update refer to the configuration, to what it has found *)
(* and to queues.                                                          *)
Task(c, at, ids) ==
  { t \in [do : {"update", "prune", "mark", "unlock"}, on : Names \cup ids] :
      /\ t.do = "update" => t.on \in c \ {Root} /\ at[ParentOf[t.on]] \in ids
      /\ t.do = "prune" => t.on \in c /\ at[t.on] \in ids
      /\ t.do \in {"mark", "unlock"} => t.on \in ids }

Refs ==
  /\ sched \in [Names -> Ids \cup {Nil}]
  /\ leafQueue \in [Apps -> Ids \cup {Nil}]
  /\ charged \in [Apps -> Ids \cup {Nil}]
  /\ locked \subseteq Ids
  /\ reload.at \in [Names -> Ids \cup {Nil}]
  /\ reload.steps \in Seq(Task(conf, reload.at, Ids))
  /\ cleaner.phase # "idle" => cleaner.queue \in Ids

Plain ==
  /\ conf \in Configs /\ {applied, rules} \subseteq BOOLEAN /\ sync \in BOOLEAN
  /\ reloads \in 0 .. MaxReloads /\ process \in {"up", "hung", "crashed"}

TypeInv == FindableInv /\ Linkage /\ Refs /\ Plain

(* What refers to queues still does when there are more.                   *)
LEMMA MoreTasks ==
  ASSUME NEW c, NEW at, NEW ids, NEW at2, NEW ids2, ids \subseteq ids2,
         \A n \in Names : at[n] \in ids => at2[n] \in ids2,
         c \subseteq Names, NEW s \in Seq(Task(c, at, ids))
  PROVE  s \in Seq(Task(c, at2, ids2))
<1>1. Task(c, at, ids) \subseteq Task(c, at2, ids2)
  BY NamesAssumption DEF Task
<1> QED
  BY <1>1, Widened

(* A step that adds queues and leaves the references alone keeps them      *)
(* valid.                                                                  *)
LEMMA MoreRefs ==
  ASSUME Refs, Plain, Ids \subseteq Ids', UNCHANGED <<sched, leafQueue, charged, locked, reload, conf>>,
         cleaner'.phase # "idle" => cleaner'.queue \in Ids
  PROVE  Refs'
<1>1. conf \subseteq Names
  BY NamesAssumption DEF Plain
<1>2. reload.steps \in Seq(Task(conf, reload.at, Ids'))
  BY <1>1, MoreTasks DEF Refs
<1> QED
  BY <1>2 DEF Refs

(* What an update has to do below a queue that it has found. *)
LEMMA UpdateStepsTyped ==
  ASSUME NEW c \in Configs, NEW n \in c, NEW at, NEW ids, at[n] \in ids
  PROVE  UpdateSteps(n, c) \in Seq(Task(c, at, ids))
<1> DEFINE S == Children(n) \cap c
           T == Task(c, at, ids)
           p == [do |-> "prune", on |-> n]
<1>1. IsFiniteSet(c) /\ c \subseteq Names
  BY NamesAssumption
<1>2. IsFiniteSet(S)
  BY <1>1, FS_Subset
<1>3. \A x \in S : [do |-> "update", on |-> x] \in T
  BY <1>1 DEF Task, Children
<1>4. p \in T
  BY <1>1 DEF Task
<1> HIDE DEF S, T, p
<1>5. Steps("update", S) \in Seq(T)
  BY <1>2, <1>3, StepsAre
<1>6. <<p>> \in Seq(T)
  BY <1>4
<1> QED
  BY <1>5, <1>6, Joined DEF UpdateSteps, S, T, p

(* Marking a queue for removal goes on with queues.                        *)
LEMMA MarkStepsTyped ==
  ASSUME NEW S, IsFiniteSet(S), NEW c, NEW at, NEW ids, S \subseteq ids
  PROVE  Steps("mark", S) \in Seq(Task(c, at, ids))
<1> DEFINE T == Task(c, at, ids)
<1>1. \A x \in S : [do |-> "mark", on |-> x] \in T
  BY DEF Task
<1> HIDE DEF T
<1> QED
  BY <1>1, StepsAre DEF T

(* Sets of queues are finite. *)
LEMMA QueuesFinite ==
  ASSUME Linkage, NEW S \in SUBSET Ids
  PROVE  IsFiniteSet(S)
<1>1. Ids = 1 .. Len(objs) /\ Len(objs) \in Nat
  BY LinkageFacts DEF Ids
<1>2. IsFiniteSet(1 .. Len(objs))
  BY <1>1, FS_Interval
<1> QED
  BY <1>1, <1>2, FS_Subset

(* A step of an update that goes on. *)
LEMMA ContinueRefs ==
  ASSUME Refs, Plain, Ids \subseteq Ids', NEW steps, NEW at, Continue(steps, at),
         at \in [Names -> Ids' \cup {Nil}], steps \in Seq(Task(conf, at, Ids')), locked' \subseteq Ids'
  PROVE  Refs' /\ Plain'
<1>1. /\ reload' = IF steps = <<>> THEN NoReload ELSE [steps |-> steps, at |-> at]
      /\ UNCHANGED <<sched, leafQueue, charged, cleaner, conf, rules, reloads, process>>
      /\ sync' = (steps = <<>>) /\ applied' = (steps = <<>>)
  BY DEF Continue, appVars
<1>2. reload'.at \in [Names -> Ids' \cup {Nil}] /\ reload'.steps \in Seq(Task(conf', reload'.at, Ids'))
  <2>1. CASE steps = <<>>
    <3>1. reload'.at = [n \in Names |-> Nil] /\ reload'.steps = <<>>
      BY <1>1, <2>1 DEF NoReload
    <3> QED
      BY <3>1
  <2>2. CASE steps # <<>>
    <3>1. reload'.at = at /\ reload'.steps = steps
      BY <1>1, <2>2
    <3> QED
      BY <1>1, <3>1
  <2> QED
    BY <2>1, <2>2
<1>3. Plain'
  BY <1>1 DEF Plain
<1> QED
  BY <1>1, <1>2, <1>3 DEF Refs

(* The step that an update takes next refers to what it may.               *)
LEMMA StepFacts ==
  ASSUME Refs, Plain, Linkage, NEW do, Step(do)
  PROVE  /\ reload.steps # <<>> /\ Tail(reload.steps) \in Seq(Task(conf, reload.at, Ids))
         /\ Head(reload.steps) = [do |-> do, on |-> Head(reload.steps).on]
         /\ conf \in Configs /\ conf \subseteq Names
         /\ do = "update" => /\ Head(reload.steps).on \in conf \ {Root}
                             /\ reload.at[ParentOf[Head(reload.steps).on]] \in Ids
         /\ do = "prune" => Head(reload.steps).on \in conf /\ reload.at[Head(reload.steps).on] \in Ids
         /\ do \in {"mark", "unlock"} => Head(reload.steps).on \in Ids
<1>1. reload.steps # <<>> /\ Head(reload.steps).do = do
  BY DEF Step, Reloading
<1>2. reload.steps \in Seq(Task(conf, reload.at, Ids))
  BY DEF Refs
<1>3. Tail(reload.steps) \in Seq(Task(conf, reload.at, Ids)) /\ Head(reload.steps) \in Task(conf, reload.at, Ids)
  BY <1>1, <1>2, TheRest
<1>4. conf \in Configs /\ conf \subseteq Names
  BY NamesAssumption DEF Plain
<1> QED
  BY <1>1, <1>3, <1>4 DEF Task

(* The steps of a configuration update. *)
LEMMA StartReloadTyped ==
  ASSUME TypeInv, NEW c \in Configs, StartReload(c)
  PROVE  Linkage' /\ Refs' /\ Plain'
<1>0. Linkage /\ Refs /\ Plain
  BY DEF TypeInv
<1>1. UNCHANGED <<objs, sched, leafQueue, charged, rules, locked, sync, cleaner, process>> /\ conf' = c
  BY DEF StartReload, appVars
<1>2. /\ reload'.steps = UpdateSteps(Root, c)
      /\ reload'.at = [NoReload.at EXCEPT ![Root] = 1]
  BY DEF StartReload, NoReload
<1>3. Linkage' /\ Ids' = Ids /\ 1 \in Ids
  BY <1>0, <1>1, LinkageFacts DEF Linkage, LinkageOf, Ids
<1>4. reload'.at \in [Names -> Ids \cup {Nil}] /\ reload'.at[Root] = 1
  BY <1>2, <1>3, NamesAssumption DEF NoReload
<1>5. reload'.steps \in Seq(Task(c, reload'.at, Ids))
  BY <1>2, <1>3, <1>4, UpdateStepsTyped, NamesAssumption
<1>6. reloads' = reloads + 1 /\ reloads < MaxReloads /\ applied' = FALSE
  BY DEF StartReload
<1>7. Plain'
  <2>1. MaxReloads \in Nat
    BY NamesAssumption
  <2>2. reloads \in 0 .. MaxReloads
    BY <1>0 DEF Plain
  <2>3. reloads' \in 0 .. MaxReloads
    BY <1>6, <2>1, <2>2
  <2> QED
    BY <1>0, <1>1, <1>6, <2>3 DEF Plain
<1> QED
  BY <1>0, <1>1, <1>3, <1>4, <1>5, <1>7 DEF Refs

(* updateQueues keeps the types.                                           *)
LEMMA UpdateQueueTyped ==
  ASSUME TypeInv, UpdateQueue
  PROVE  Linkage' /\ Refs' /\ Plain'
<1> DEFINE n == Head(reload.steps).on
           o == GetQueue[n]
           parent == reload.at[ParentOf[n]]
           leaf == n \notin Parents /\ Children(n) \cap conf = {}
           steps == UpdateSteps(n, conf) \o Tail(reload.steps)
<1>0. Linkage /\ Refs /\ Plain
  BY DEF TypeInv
<1>1. /\ Tail(reload.steps) \in Seq(Task(conf, reload.at, Ids)) /\ conf \in Configs /\ conf \subseteq Names
      /\ n \in conf \ {Root} /\ parent \in Ids
  BY <1>0, StepFacts DEF UpdateQueue
<1>2. o \in Ids \cup {Nil}
  BY <1>0, <1>1, GetQueueLooked DEF Looked
<1>21. reload.at \in [Names -> Ids \cup {Nil}]
  BY <1>0 DEF Refs
<1>3. ASSUME NEW k, Linkage', Ids \subseteq Ids', k \in Ids', UNCHANGED locked,
             Continue(steps, [reload.at EXCEPT ![n] = k])
      PROVE  Refs' /\ Plain'
  <2> DEFINE at == [reload.at EXCEPT ![n] = k]
  <2>1. at \in [Names -> Ids' \cup {Nil}] /\ at[n] = k
    BY <1>1, <1>21, <1>3
  <2>2. \A m \in Names : reload.at[m] \in Ids => at[m] \in Ids'
    BY <1>1, <1>21, <1>3
  <2> HIDE DEF at
  <2>3. Tail(reload.steps) \in Seq(Task(conf, at, Ids'))
    BY <1>1, <1>3, <2>2, MoreTasks
  <2>4. UpdateSteps(n, conf) \in Seq(Task(conf, at, Ids'))
    BY <1>1, <1>3, <2>1, UpdateStepsTyped
  <2>5. steps \in Seq(Task(conf, at, Ids'))
    BY <2>3, <2>4, Joined
  <2>6. locked' \subseteq Ids'
    BY <1>0, <1>3 DEF Refs
  <2>7. Continue(steps, at)
    BY <1>3 DEF at
  <2> HIDE DEF steps
  <2> QED
    BY <1>0, <1>3, <2>1, <2>5, <2>6, <2>7, ContinueRefs
<1>4. CASE /\ o # Nil
           /\ objs' = [objs EXCEPT ![o].managed = TRUE,
                                   ![o].leaf = @ /\ Children(n) \cap conf = {}]
           /\ UNCHANGED locked
           /\ Continue(steps, [reload.at EXCEPT ![n] = o])
  <2>1. Linkage' /\ Ids' = Ids /\ o \in Ids
    BY <1>0, <1>2, <1>4, Updated
  <2> HIDE DEF o, n, steps
  <2> QED
    BY <1>3, <1>4, <2>1
<1>5. CASE /\ o = Nil
           /\ objs' = WithChild(objs, parent, n, NewQueue(n, parent, leaf, TRUE))
           /\ UNCHANGED locked
           /\ Continue(steps, [reload.at EXCEPT ![n] = Len(objs) + 1])
  <2> DEFINE q == NewQueue(n, parent, leaf, TRUE)
  <2>1. q \in QueueInfo /\ q.parent = parent /\ q.children = {}
    BY <1>0, <1>1, LinkageFacts DEF NewQueue, QueueInfo
  <2> HIDE DEF q, n, parent
  <2>2. Linkage' /\ Ids' = Ids \cup {Len(objs) + 1}
    BY <1>0, <1>1, <1>5, <2>1, Added DEF q
  <2>3. Len(objs) + 1 \in Ids' /\ Ids \subseteq Ids' /\ Linkage'
    BY <2>2
  <2>4. Continue(steps, [reload.at EXCEPT ![n] = Len(objs) + 1]) /\ UNCHANGED locked
    BY <1>5
  <2> HIDE DEF steps
  <2> QED
    BY <1>3, <2>3, <2>4
<1>6. CASE Abort
  <2>1. UNCHANGED <<objs, sched, leafQueue, charged, conf, applied, rules, locked, sync, reloads, cleaner, process>>
        /\ reload' = NoReload
    BY <1>6 DEF Abort, appVars
  <2>2. Linkage' /\ Ids' = Ids
    BY <1>0, <2>1 DEF Linkage, LinkageOf, Ids
  <2>3. reload'.at = [m \in Names |-> Nil] /\ reload'.steps = <<>>
    BY <2>1 DEF NoReload
  <2>4. reload'.at \in [Names -> Ids \cup {Nil}] /\ reload'.steps \in Seq(Task(conf, reload'.at, Ids))
    BY <2>3
  <2> QED
    BY <1>0, <2>1, <2>2, <2>4 DEF Refs, Plain
<1> QED
  BY <1>4, <1>5, <1>6 DEF UpdateQueue

(* The removal of what the configuration no longer has keeps the types.    *)
LEMMA PruneQueuesTyped ==
  ASSUME TypeInv, PruneQueues
  PROVE  Linkage' /\ Refs' /\ Plain'
<1> DEFINE n == Head(reload.steps).on
           gone == { c \in objs[reload.at[n]].children : objs[c].name \notin Visited }
<1>0. Linkage /\ Refs /\ Plain
  BY DEF TypeInv
<1>1. /\ Tail(reload.steps) \in Seq(Task(conf, reload.at, Ids))
      /\ n \in conf /\ reload.at[n] \in Ids
  BY <1>0, StepFacts DEF PruneQueues
<1>2. gone \in SUBSET Ids /\ IsFiniteSet(gone)
  BY <1>0, <1>1, LinkageFacts, QueuesFinite
<1>3. Linkage' /\ Ids' = Ids /\ UNCHANGED locked
  BY <1>0 DEF PruneQueues, Linkage, LinkageOf, Ids
<1>4. Continue(Steps("mark", gone) \o Tail(reload.steps), reload.at)
  BY DEF PruneQueues
<1> HIDE DEF gone
<1>5. Steps("mark", gone) \o Tail(reload.steps) \in Seq(Task(conf, reload.at, Ids))
  BY <1>1, <1>2, MarkStepsTyped, Joined
<1>6. reload.at \in [Names -> Ids' \cup {Nil}] /\ locked' \subseteq Ids'
  BY <1>0, <1>3 DEF Refs
<1> QED
  BY <1>0, <1>3, <1>4, <1>5, <1>6, ContinueRefs

(* MarkQueueForRemoval keeps the types.                                    *)
LEMMA MarkQueueForRemovalTyped ==
  ASSUME TypeInv, MarkQueueForRemoval
  PROVE  Linkage' /\ Refs' /\ Plain'
<1> DEFINE o == Head(reload.steps).on
           rest == Tail(reload.steps)
           T == Task(conf, reload.at, Ids)
           unlock == [do |-> "unlock", on |-> o]
           steps == Steps("mark", objs[o].children) \o <<unlock>> \o rest
<1>0. Linkage /\ Refs /\ Plain
  BY DEF TypeInv
<1>1. rest \in Seq(T) /\ o \in Ids
  BY <1>0, StepFacts DEF MarkQueueForRemoval
<1>2. reload.at \in [Names -> Ids \cup {Nil}] /\ locked \subseteq Ids
  BY <1>0 DEF Refs
<1>3. objs[o].children \in SUBSET Ids /\ IsFiniteSet(objs[o].children)
  BY <1>0, <1>1, LinkageFacts, QueuesFinite
<1>4. steps \in Seq(T)
  <2>1. <<unlock>> \in Seq(T)
    BY <1>1 DEF Task
  <2>2. Steps("mark", objs[o].children) \in Seq(T)
    BY <1>3, MarkStepsTyped
  <2> HIDE DEF T, unlock, rest, o
  <2>3. Steps("mark", objs[o].children) \o <<unlock>> \in Seq(T)
    BY <2>1, <2>2, Joined
  <2> QED
    BY <1>1, <2>3, Joined
<1>5. CASE /\ objs' = [objs EXCEPT ![o].state = "Draining"]
           /\ locked' = locked \cup {o}
           /\ Continue(steps, reload.at)
  <2>1. Linkage' /\ Ids' = Ids
    BY <1>0, <1>1, <1>5, Marked
  <2>2. locked' \subseteq Ids'
    BY <1>1, <1>2, <1>5, <2>1
  <2> HIDE DEF steps
  <2> QED
    BY <1>0, <1>2, <1>4, <1>5, <2>1, <2>2, ContinueRefs
<1>6. CASE UNCHANGED <<objs, locked>> /\ Continue(rest, reload.at)
  <2>1. Linkage' /\ Ids' = Ids
    BY <1>0, <1>6 DEF Linkage, LinkageOf, Ids
  <2> HIDE DEF rest
  <2> QED
    BY <1>0, <1>1, <1>2, <1>6, <2>1, ContinueRefs
<1> QED
  BY <1>5, <1>6 DEF MarkQueueForRemoval

(* The end of MarkQueueForRemoval keeps the types.                         *)
LEMMA UnlockQueueTyped ==
  ASSUME TypeInv, UnlockQueue
  PROVE  Linkage' /\ Refs' /\ Plain'
<1>0. Linkage /\ Refs /\ Plain
  BY DEF TypeInv
<1>1. Tail(reload.steps) \in Seq(Task(conf, reload.at, Ids))
  BY <1>0, StepFacts DEF UnlockQueue
<1>2. reload.at \in [Names -> Ids \cup {Nil}] /\ locked' \subseteq Ids
  BY <1>0 DEF Refs, UnlockQueue
<1>3. Linkage' /\ Ids' = Ids
  BY <1>0 DEF UnlockQueue, Linkage, LinkageOf, Ids
<1>4. Continue(Tail(reload.steps), reload.at)
  BY DEF UnlockQueue
<1> QED
  BY <1>0, <1>1, <1>2, <1>3, <1>4, ContinueRefs

(* The queues of the first configuration: one for every name of it.        *)
LEMMA FirstObjsAre ==
  ASSUME NEW c \in Configs, NEW os, os = FirstObjs(c)
  PROVE  /\ LinkageOf(os) /\ os[1].parent = Nil
         /\ \A o \in DOMAIN os : /\ os[o].name \in c /\ os[o].managed /\ os[o].state = "Active" /\ os[o].alloc = 0
                                 /\ o # 1 => /\ os[o].name # Root /\ os[o].parent \in DOMAIN os
                                             /\ os[os[o].parent].name = ParentOf[os[o].name]
                                             /\ o \in os[os[o].parent].children
         /\ \A o, p \in DOMAIN os : os[o].name = os[p].name => o = p
         /\ \A n \in c : \E o \in DOMAIN os : os[o].name = n
<1> DEFINE rest == SetToSeq(c \ {Root})
           order == <<Root>> \o rest
           id(n) == CHOOSE i \in DOMAIN order : order[i] = n
           kids(n) == { id(m) : m \in Children(n) \cap c }
           up(n) == IF n = Root THEN Nil ELSE id(ParentOf[n])
           new(n) == NewQueue(n, up(n), n \notin Parents, TRUE)
           q(i) == [new(order[i]) EXCEPT !.children = kids(order[i])]
<1>1. /\ IsFiniteSet(c \ {Root}) /\ Root \in c /\ c \subseteq Names
      /\ \A n \in c \ {Root} : ParentOf[n] \in c
  <2>1. IsFiniteSet(c) /\ Root \in c /\ c \subseteq Names /\ \A n \in c \ {Root} : ParentOf[n] \in c
    BY NamesAssumption
  <2> QED
    BY <2>1, FS_Subset
<1>2. /\ rest \in Seq(c \ {Root})
      /\ \A x \in c \ {Root} : \E i \in DOMAIN rest : rest[i] = x
      /\ \A i, j \in DOMAIN rest : rest[i] = rest[j] => i = j
  BY <1>1, InOrder
<1> HIDE DEF rest
<1>3. /\ order \in Seq(c) /\ Len(order) = Len(rest) + 1 /\ Len(rest) \in Nat /\ order[1] = Root
      /\ \A i \in DOMAIN rest : order[i + 1] = rest[i]
      /\ DOMAIN order = 1 .. Len(rest) + 1 /\ DOMAIN rest = 1 .. Len(rest)
  <2>1. rest \in Seq(c) /\ <<Root>> \in Seq(c)
    BY <1>1, <1>2
  <2> QED
    BY <2>1
<1>4. \A i \in DOMAIN order : i # 1 => i - 1 \in DOMAIN rest /\ order[i] = rest[i - 1] /\ order[i] # Root
  <2>1. ASSUME NEW i \in DOMAIN order, i # 1
        PROVE  i - 1 \in DOMAIN rest /\ order[i] = rest[i - 1] /\ order[i] # Root
    <3>1. i - 1 \in DOMAIN rest /\ (i - 1) + 1 = i
      BY <1>3, <2>1
    <3>2. order[i] = rest[i - 1]
      BY <1>3, <3>1
    <3>3. rest[i - 1] \in c \ {Root}
      BY <1>2, <3>1
    <3> QED
      BY <3>1, <3>2, <3>3
  <2> QED
    BY <2>1
<1> HIDE DEF order
<1>5. \A i, j \in DOMAIN order : order[i] = order[j] => i = j
  <2> SUFFICES ASSUME NEW i \in DOMAIN order, NEW j \in DOMAIN order, order[i] = order[j]
               PROVE  i = j
    OBVIOUS
  <2>1. CASE i = 1 \/ j = 1
    BY <1>3, <1>4, <2>1
  <2>2. CASE i # 1 /\ j # 1
    <3>1. i - 1 = j - 1
      BY <1>2, <1>4, <2>2
    <3> QED
      BY <1>3, <3>1
  <2> QED
    BY <2>1, <2>2
<1>6. \A n \in c : \E i \in DOMAIN order : order[i] = n
  <2> SUFFICES ASSUME NEW n \in c
               PROVE  \E i \in DOMAIN order : order[i] = n
    OBVIOUS
  <2>1. CASE n = Root
    BY <1>3, <2>1
  <2>2. CASE n # Root
    <3>1. PICK i \in DOMAIN rest : rest[i] = n
      BY <1>2, <2>2
    <3>2. i + 1 \in DOMAIN order /\ order[i + 1] = n
      BY <1>3, <3>1
    <3> QED
      BY <3>2
  <2> QED
    BY <2>1, <2>2
<1>7. \A n \in c : id(n) \in DOMAIN order /\ order[id(n)] = n
  BY <1>6
<1>8. 1 \in DOMAIN order /\ DOMAIN order \subseteq Nat /\ id(Root) = 1
  <2>1. 1 \in DOMAIN order /\ DOMAIN order \subseteq Nat
    BY <1>3
  <2> QED
    BY <1>1, <1>3, <1>5, <1>7, <2>1
<1>9. os = [i \in DOMAIN order |-> q(i)]
  BY DEF FirstObjs, order, rest
<1> HIDE DEF id
<1>10. ASSUME NEW i \in DOMAIN order
       PROVE  /\ q(i) \in QueueInfo /\ q(i).name = order[i] /\ q(i).parent = up(order[i])
              /\ q(i).managed /\ q(i).state = "Active" /\ q(i).alloc = 0
              /\ q(i).children = kids(order[i])
  <2>1. order[i] \in c /\ order[i] \in Names
    BY <1>1, <1>3
  <2>2. up(order[i]) \in Nat
    BY <1>1, <1>7, <1>8, <2>1 DEF Nil
  <2>3. kids(order[i]) \in SUBSET Nat
    BY <1>7, <1>8
  <2> HIDE DEF up, kids
  <2>4. /\ new(order[i]) \in QueueInfo /\ new(order[i]).name = order[i] /\ new(order[i]).parent = up(order[i])
        /\ new(order[i]).managed = TRUE /\ new(order[i]).state = "Active" /\ new(order[i]).alloc = 0
    BY <2>1, <2>2 DEF NewQueue, QueueInfo
  <2> HIDE DEF new
  <2> QED
    BY <2>3, <2>4, NewChildren DEF SameBut
<1> HIDE DEF q
<1>11. /\ DOMAIN os = DOMAIN order
       /\ \A i \in DOMAIN order : /\ os[i] \in QueueInfo /\ os[i].name = order[i] /\ os[i].parent = up(order[i])
                                  /\ os[i].managed /\ os[i].state = "Active" /\ os[i].alloc = 0
                                  /\ os[i].children = kids(order[i])
  BY <1>9, <1>10
<1>12. os \in Seq(QueueInfo)
  <2>1. os \in [DOMAIN order -> QueueInfo]
    BY <1>9, <1>11
  <2> QED
    BY <1>3, <2>1
<1>13. ASSUME NEW o \in DOMAIN os, o # 1
       PROVE  /\ os[o].name # Root /\ os[o].parent \in DOMAIN os
              /\ os[os[o].parent].name = ParentOf[os[o].name]
              /\ o \in os[os[o].parent].children
  <2>1. order[o] \in c \ {Root} /\ os[o].name = order[o]
    BY <1>3, <1>4, <1>11, <1>13
  <2>2. os[o].parent = id(ParentOf[order[o]])
    BY <1>11, <2>1
  <2>3. ParentOf[order[o]] \in c
    BY <1>1, <2>1
  <2>4. os[o].parent \in DOMAIN order /\ order[os[o].parent] = ParentOf[order[o]]
    BY <1>7, <2>2, <2>3
  <2>5. id(order[o]) = o
    BY <1>5, <1>7, <1>11, <2>1
  <2>6. order[o] \in Children(ParentOf[order[o]]) \cap c
    BY <1>1, <2>1 DEF Children
  <2>7. o \in kids(ParentOf[order[o]])
    BY <2>5, <2>6
  <2> HIDE DEF kids
  <2> QED
    BY <1>11, <2>1, <2>4, <2>7
<1>14. ASSUME NEW o \in DOMAIN os, NEW k \in os[o].children
       PROVE  k \in DOMAIN os /\ os[k].parent = o
  <2>1. PICK m \in Children(order[o]) \cap c : k = id(m)
    BY <1>11, <1>14
  <2>2. m \in c /\ m # Root /\ ParentOf[m] = order[o]
    BY <2>1 DEF Children
  <2>3. k \in DOMAIN os /\ order[k] = m
    BY <1>7, <1>11, <2>1, <2>2
  <2>4. os[k].parent = id(order[o])
    BY <1>11, <2>2, <2>3
  <2>5. id(order[o]) = o
    BY <1>3, <1>5, <1>7, <1>11
  <2> QED
    BY <2>3, <2>4, <2>5
<1>15. LinkageOf(os)
  BY <1>3, <1>8, <1>11, <1>12, <1>14 DEF LinkageOf
<1>16. os[1].parent = Nil
  BY <1>3, <1>8, <1>11
<1>17. \A o \in DOMAIN os : os[o].name \in c
  BY <1>3, <1>11
<1>18. \A o, p \in DOMAIN os : os[o].name = os[p].name => o = p
  BY <1>5, <1>11
<1>19. \A n \in c : \E o \in DOMAIN os : os[o].name = n
  BY <1>6, <1>11
<1> QED
  BY <1>11, <1>13, <1>15, <1>16, <1>17, <1>18, <1>19

(* The partition that the first configuration makes has the types.         *)
LEMMA TypeInit == Init => TypeInv
<1> SUFFICES ASSUME Init
             PROVE  TypeInv
  OBVIOUS
<1>1. conf \in Configs /\ objs = FirstObjs(conf)
  BY DEF Init
<1>2. LinkageOf(objs) /\ \A n \in conf : \E o \in DOMAIN objs : objs[o].name = n
  BY <1>1, FirstObjsAre
<1>3. Linkage
  BY <1>2 DEF Linkage
<1>4. \A n \in conf : (CHOOSE o \in Ids : objs[o].name = n) \in Ids
  BY <1>2 DEF Ids
<1>5. sched = [n \in Names |-> IF n \in conf THEN CHOOSE o \in Ids : objs[o].name = n ELSE Nil]
  BY DEF Init
<1>6. sched \in [Names -> Ids \cup {Nil}]
  BY <1>4, <1>5
<1>7. reload.at \in [Names -> Ids \cup {Nil}] /\ reload.steps \in Seq(Task(conf, reload.at, Ids))
  BY DEF Init, NoReload
<1>8. Refs
  BY <1>6, <1>7 DEF Init, Refs, Resting
<1>9. Plain
  <2>1. MaxReloads \in Nat
    BY NamesAssumption
  <2>2. applied \in BOOLEAN /\ rules \in BOOLEAN /\ sync \in BOOLEAN
    BY DEF Init
  <2>3. reloads \in 0 .. MaxReloads
    BY <2>1 DEF Init
  <2> QED
    BY <1>1, <2>2, <2>3 DEF Init, Plain
<1> QED
  BY <1>3, <1>8, <1>9, FindableInit DEF TypeInv

(* The scheduler follows the queues that the cache has.                    *)
LEMMA SyncTyped ==
  ASSUME Linkage, Refs, NEW S, sched' = WithSchedulingQueues(S)
  PROVE  sched' \in [Names -> Ids \cup {Nil}]
  BY GetQueueLooked DEF Looked, Refs, WithSchedulingQueues

(* Steps that leave the queues and the update alone.                       *)
LEMMA ReferencesTyped ==
  ASSUME TypeInv, UNCHANGED <<objs, conf, applied, rules, reload, locked, sync, reloads>>,
         sched' \in [Names -> Ids \cup {Nil}], leafQueue' \in [Apps -> Ids \cup {Nil}],
         charged' \in [Apps -> Ids \cup {Nil}], cleaner'.phase # "idle" => cleaner'.queue \in Ids,
         process' \in {"up", "hung", "crashed"}
  PROVE  Linkage' /\ Refs' /\ Plain'
<1>1. Ids' = Ids
  BY DEF Ids
<1> QED
  BY <1>1 DEF TypeInv, Linkage, Refs, Plain

(* ... and those that only change what queues look like.                   *)
LEMMA QueuesTyped ==
  ASSUME TypeInv, Linkage', Ids \subseteq Ids', UNCHANGED <<sched, leafQueue, confVars, process>>,
         charged' \in [Apps -> Ids \cup {Nil}], cleaner'.phase # "idle" => cleaner'.queue \in Ids
  PROVE  Linkage' /\ Refs' /\ Plain'
<1>1. Refs /\ Plain
  BY DEF TypeInv
<1>2. conf \subseteq Names
  BY <1>1, NamesAssumption DEF Plain
<1>3. reload.steps \in Seq(Task(conf, reload.at, Ids'))
  BY <1>1, <1>2, MoreTasks DEF Refs
<1> QED
  BY <1>1, <1>3 DEF Refs, Plain, confVars

(* The counters: a release takes nothing from a queue that has nothing.    *)
LEMMA ReleaseTyped ==
  ASSUME TypeInv, NEW app \in Apps, ReleaseQueue(app)
  PROVE  /\ Linkage' /\ Ids' = Ids
         /\ \A o \in Ids : /\ objs'[o].name = objs[o].name /\ objs'[o].parent = objs[o].parent
                           /\ objs'[o].managed = objs[o].managed /\ objs'[o].state = objs[o].state
                           /\ objs'[o].children = objs[o].children
<1> DEFINE up == IF leafQueue[app] = Nil THEN {} ELSE Ancestors(leafQueue[app])
<1>0. Linkage
  BY DEF TypeInv
<1>1. CASE objs' = objs
  BY <1>0, <1>1 DEF Linkage, LinkageOf, Ids
<1>2. CASE objs' = AddTo(up, 0 - 1) /\ \A p \in up : objs[p].alloc > 0
  <2>1. \A p \in up \cap Ids : objs[p].alloc + (0 - 1) >= 0
    <3>1. \A p \in Ids : objs[p].alloc \in Nat
      BY <1>0, LinkageFacts DEF QueueInfo
    <3> QED
      BY <1>2, <3>1
  <2> HIDE DEF up
  <2>2. 0 - 1 \in Int
    OBVIOUS
  <2>3. objs' = AddTo(up, 0 - 1)
    BY <1>2
  <2> QED
    BY <1>0, <2>1, <2>2, <2>3, Counted
<1> QED
  BY <1>1, <1>2 DEF ReleaseQueue

(* A charge along the parents keeps the types.                             *)
LEMMA ChargeTyped ==
  ASSUME TypeInv, NEW app \in Apps, ChargeQueue(app)
  PROVE  /\ Linkage' /\ Ids' = Ids /\ GetQueue[appQueue[app]] \in Ids /\ appQueue[app] \in Names
         /\ \A o \in Ids : /\ objs'[o].name = objs[o].name /\ objs'[o].parent = objs[o].parent
                           /\ objs'[o].managed = objs[o].managed /\ objs'[o].state = objs[o].state
                           /\ objs'[o].children = objs[o].children
                           /\ objs'[o].alloc = objs[o].alloc
                                + (IF o \in Ancestors(GetQueue[appQueue[app]]) THEN 1 ELSE 0)
<1> DEFINE S == Ancestors(GetQueue[appQueue[app]])
<1>0. Linkage
  BY DEF TypeInv
<1>1. objs' = AddTo(S, 1) /\ GetQueue[appQueue[app]] # Nil /\ appState[app] = "accepted"
  BY DEF ChargeQueue
<1>2. appQueue[app] \in Names
  BY <1>1 DEF TypeInv, FindableInv, FindableTypes
<1>3. GetQueue[appQueue[app]] \in Ids
  BY <1>0, <1>1, <1>2, GetQueueLooked DEF Looked
<1>4. \A o \in S \cap Ids : objs[o].alloc + 1 >= 0
  <2>1. \A p \in Ids : objs[p].alloc \in Nat
    BY <1>0, LinkageFacts DEF QueueInfo
  <2> QED
    BY <2>1
<1> HIDE DEF S
<1>5. /\ Linkage' /\ Ids' = Ids
      /\ \A o \in Ids : /\ objs'[o].name = objs[o].name /\ objs'[o].parent = objs[o].parent
                        /\ objs'[o].managed = objs[o].managed /\ objs'[o].state = objs[o].state
                        /\ objs'[o].children = objs[o].children
                        /\ objs'[o].alloc = objs[o].alloc + (IF o \in S THEN 1 ELSE 0)
  BY <1>0, <1>1, <1>4, Counted
<1> QED
  BY <1>2, <1>3, <1>5 DEF S

(* Every step keeps the types: one step of the proof for each action.      *)
LEMMA TypeNext == TypeInv /\ [Next]_vars => TypeInv'
<1> SUFFICES ASSUME TypeInv, [Next]_vars
             PROVE  TypeInv'
  OBVIOUS
<1>0. Linkage /\ Refs /\ Plain /\ FindableInv
  BY DEF TypeInv
<1>00. /\ sched \in [Names -> Ids \cup {Nil}] /\ leafQueue \in [Apps -> Ids \cup {Nil}]
       /\ charged \in [Apps -> Ids \cup {Nil}] /\ process \in {"up", "hung", "crashed"}
       /\ cleaner.phase # "idle" => cleaner.queue \in Ids
  BY <1>0 DEF Refs, Plain
<1>01. /\ placing.phase # "idle" => placing.app \in Apps /\ placing.name \in Names
       /\ GetQueue \in [Names -> Ids \cup {Nil}]
       /\ DOMAIN cleaner = {"phase", "queue", "name"}
  BY <1>0, GetQueueLooked DEF FindableInv, PlacingFound, Looked, FindableTypes
<1>02. FindableInv'
  BY <1>0, FindableNext
<1> SUFFICES Linkage' /\ Refs' /\ Plain'
  BY <1>02 DEF TypeInv
<1>3. CASE UNCHANGED vars
  BY <1>00, <1>3, ReferencesTyped DEF vars, appVars, confVars
<1>4. ASSUME NEW c \in Configs, StartReload(c)
      PROVE  Linkage' /\ Refs' /\ Plain'
  BY <1>4, StartReloadTyped
<1>5. CASE UpdateQueue
  BY <1>5, UpdateQueueTyped
<1>6. CASE PruneQueues
  BY <1>6, PruneQueuesTyped
<1>7. CASE MarkQueueForRemoval
  BY <1>7, MarkQueueForRemovalTyped
<1>8. CASE UnlockQueue
  BY <1>8, UnlockQueueTyped
<1>9. CASE SyncScheduler
  <2>1. sched' \in [Names -> Ids \cup {Nil}]
    BY <1>0, <1>9, SyncTyped DEF SyncScheduler
  <2>2. UNCHANGED <<objs, leafQueue, charged, conf, applied, rules, reload, locked, reloads, cleaner, process>>
        /\ sync' = FALSE
    BY <1>9 DEF SyncScheduler, appVars
  <2>3. Ids' = Ids
    BY <2>2 DEF Ids
  <2> QED
    BY <1>0, <2>1, <2>2, <2>3 DEF Linkage, Refs, Plain
<1>10. ASSUME NEW app \in Apps, NEW n \in Submitted, SubmitApplication(app, n)
       PROVE  Linkage' /\ Refs' /\ Plain'
  <2>1. n \in Names
    BY NamesAssumption
  <2> QED
    BY <1>00, <1>01, <1>10, <2>1, ReferencesTyped DEF SubmitApplication, confVars
<1>11. ASSUME NEW app \in Apps, NEW n \in Placed, PlaceApplication(app, n)
       PROVE  Linkage' /\ Refs' /\ Plain'
  <2>0. n \in Names
    BY NamesAssumption
  <2>1. objs' = objs \/ objs' = CreateQueues(n)
    BY <1>11 DEF PlaceApplication
  <2>2. Linkage' /\ Ids \subseteq Ids'
    BY <1>0, <2>0, <2>1, CreatedLinkage DEF Linkage, LinkageOf, Ids
  <2>3. UNCHANGED <<sched, leafQueue, charged, confVars, cleaner, process>>
    BY <1>11 DEF PlaceApplication
  <2> QED
    BY <1>00, <2>2, <2>3, QueuesTyped
<1>12. ASSUME NEW app \in Apps, RefusePlacement(app)
       PROVE  Linkage' /\ Refs' /\ Plain'
  BY <1>00, <1>12, ReferencesTyped DEF RefusePlacement, confVars
<1>13. ASSUME NEW app \in Apps, UseSubmitted(app)
       PROVE  Linkage' /\ Refs' /\ Plain'
  BY <1>00, <1>13, ReferencesTyped DEF UseSubmitted, appVars, confVars
<1>14. CASE SetQueue
  BY <1>00, <1>01, <1>14, ReferencesTyped DEF SetQueue, confVars
<1>15. CASE FindQueue
  <2>1. sched' \in [Names -> Ids \cup {Nil}]
    BY <1>0, <1>00, <1>15, SyncTyped DEF FindQueue
  <2>2. process' \in {"up", "hung", "crashed"}
    BY <1>00, <1>15 DEF FindQueue
  <2>3. UNCHANGED <<objs, leafQueue, charged, cleaner, confVars>>
    BY <1>15 DEF FindQueue
  <2> QED
    BY <1>00, <2>1, <2>2, <2>3, ReferencesTyped DEF confVars
<1>16. CASE AddSchedulingApplication
  BY <1>00, <1>16, ReferencesTyped DEF AddSchedulingApplication, confVars
<1>17. ASSUME NEW app \in Apps, RemoveSchedulingApplication(app)
       PROVE  Linkage' /\ Refs' /\ Plain'
  <2>1. process' \in {"up", "hung", "crashed"}
    BY <1>00, <1>17 DEF RemoveSchedulingApplication
  <2> QED
    BY <1>00, <1>17, <2>1, ReferencesTyped DEF RemoveSchedulingApplication, confVars
<1>18. ASSUME NEW app \in Apps, ChargeQueue(app)
       PROVE  Linkage' /\ Refs' /\ Plain'
  <2>1. Linkage' /\ Ids' = Ids /\ GetQueue[appQueue[app]] \in Ids
    BY <1>18, ChargeTyped
  <2>2. UNCHANGED <<sched, leafQueue, confVars, cleaner, process>>
        /\ charged' = [charged EXCEPT ![app] = GetQueue[appQueue[app]]]
    BY <1>18 DEF ChargeQueue
  <2>3. charged' \in [Apps -> Ids \cup {Nil}]
    BY <1>00, <2>1, <2>2
  <2> QED
    BY <1>00, <2>1, <2>2, <2>3, QueuesTyped
<1>19. ASSUME NEW app \in Apps, ReleaseQueue(app)
       PROVE  Linkage' /\ Refs' /\ Plain'
  <2>1. Linkage' /\ Ids' = Ids
    BY <1>19, ReleaseTyped
  <2>2. UNCHANGED <<sched, leafQueue, confVars, cleaner, process>> /\ charged' = [charged EXCEPT ![app] = Nil]
    BY <1>19 DEF ReleaseQueue
  <2>3. charged' \in [Apps -> Ids \cup {Nil}]
    BY <1>00, <2>2
  <2> QED
    BY <1>00, <2>1, <2>2, <2>3, QueuesTyped
<1>20. ASSUME NEW n \in Names, CleanQueue(n)
       PROVE  Linkage' /\ Refs' /\ Plain'
  BY <1>00, <1>20, ReferencesTyped DEF CleanQueue, appVars, confVars
<1>21. CASE CheckRemoval
  BY <1>00, <1>01, <1>21, ReferencesTyped DEF CheckRemoval, Resting, appVars, confVars
<1>22. CASE UnlinkQueue
  <2>1. Linkage' /\ Ids' = Ids
    BY <1>0, <1>22, Unlinked DEF UnlinkQueue
  <2>2. UNCHANGED <<sched, leafQueue, charged, confVars, process>> /\ cleaner' = [cleaner EXCEPT !.phase = "unlinked"]
        /\ cleaner.phase = "unlink"
    BY <1>22 DEF UnlinkQueue, appVars
  <2>3. cleaner'.phase # "idle" => cleaner'.queue \in Ids
    BY <1>00, <1>01, <2>2
  <2> QED
    BY <1>00, <2>1, <2>2, <2>3, QueuesTyped
<1>23. CASE UnlinkSchedulingQueue
  <2>1. sched' \in [Names -> Ids \cup {Nil}]
    BY <1>00, <1>23 DEF UnlinkSchedulingQueue, DeleteKey
  <2>2. UNCHANGED <<objs, appVars, confVars, placing, process>> /\ cleaner' = Resting
    BY <1>23 DEF UnlinkSchedulingQueue
  <2> QED
    BY <1>00, <2>1, <2>2, ReferencesTyped DEF Resting, appVars, confVars
<1> QED
  BY <1>3, <1>4, <1>5, <1>6, <1>7, <1>8, <1>9, <1>10, <1>11, <1>12, <1>13, <1>14, <1>15, <1>16,
     <1>17, <1>18, <1>19, <1>20, <1>21, <1>22, <1>23 DEF Next

(* The type invariant of the specification follows.                        *)
LEMMA TypeInvImplies == TypeInv => QueueTypeOK
<1> SUFFICES ASSUME TypeInv
             PROVE  QueueTypeOK
  OBVIOUS
<1>1. Linkage /\ Refs /\ Plain /\ FindableTypes
  BY DEF TypeInv, FindableInv
<1> QED
  BY <1>1, LinkageFacts DEF QueueTypeOK, Refs, Plain, FindableTypes

(* TypeInv holds in every reachable state, for every hierarchy of names    *)
(* and all that users and administrators may do.                           *)
THEOREM TypeInvariant == Spec => []TypeInv
<1>1. TypeInv /\ [Next]_vars => TypeInv'
  BY TypeNext
<1> QED
  BY <1>1, TypeInit, PTL DEF Spec

(* QueueTypeOK: every reference is to a queue object that there is, and an *)
(* object is only reached through the parent it points to, whatever the    *)
(* cleaner, the updates and the placements do meanwhile; and no release    *)
(* takes the counter of a queue below zero.                                *)
THEOREM QueueTypes == Spec => []QueueTypeOK
  BY TypeInvariant, TypeInvImplies, PTL

-----------------------------------------------------------------------------
(* What is above a name. *)
LEMMA AboveClosed ==
  ASSUME NEW n \in Names, NEW m \in Above(n), m # Root
  PROVE  m \in Names /\ ParentOf[m] \in Above(n)
<1>1. m \in Names
  BY DEF Above
<1>2. ParentOf[m] \in Names
  BY <1>1, NamesAssumption
<1>3. \A T \in SUBSET Names : Closed(T) /\ n \in T => ParentOf[m] \in T
  BY <1>1 DEF Above, Closed
<1> QED
  BY <1>1, <1>2, <1>3 DEF Above

(* No name is above its parent: else the names between them would have no  *)
(* way out to the root.                                                    *)
LEMMA NotAboveItsParent ==
  ASSUME NEW n \in Names \ {Root}
  PROVE  n \notin Above(ParentOf[n])
<1> SUFFICES ASSUME n \in Above(ParentOf[n])
             PROVE  FALSE
  OBVIOUS
<1> DEFINE C == { k \in Names : n \in Above(k) /\ k \in Above(n) }
<1>1. n \in C
  BY AboveSelf
<1>2. Root \notin C
  BY AboveRoot
<1>3. PICK k \in C : ParentOf[k] \notin C
  <2>1. C \in SUBSET (Names \ {Root}) /\ C # {}
    BY <1>1, <1>2
  <2> HIDE DEF C
  <2> QED
    BY <2>1, NamesAssumption
<1>4. k \in Names \ {Root} /\ ParentOf[k] \in Names /\ ParentOf[k] \in Above(n)
  BY <1>2, <1>3, AboveClosed, NamesAssumption
<1>5. n \notin Above(ParentOf[k])
  BY <1>3, <1>4
<1>6. n \in Above(k) /\ Above(k) = {k} \cup Above(ParentOf[k])
  BY <1>3, <1>4, AboveUnfold
<1> QED
  BY <1>5, <1>6

(* The path of a name, by recursion, is the set of the names above it.     *)
LEMMA NamePathIsAbove == \A n \in Names : NamePath[n] = Above(n)
<1> DEFINE S == { n \in Names : NamePath[n] = Above(n) }
<1>1. \A n \in Names : NamePath[n] = IF n = Root THEN {Root} ELSE {n} \cup NamePath[ParentOf[n]]
  BY NamePathUnfold
<1>2. Root \in S
  BY <1>1, AboveRoot, NamesAssumption
<1>3. ASSUME NEW n \in Names \ {Root}, ParentOf[n] \in S
      PROVE  n \in S
  BY <1>1, <1>3, AboveUnfold
<1>4. S \in SUBSET Names
  OBVIOUS
<1> HIDE DEF S
<1>5. S = Names
  BY <1>2, <1>3, <1>4, NamesInduction
<1> QED
  BY <1>5 DEF S

(* The path of a name has the name, the path of its parent and nothing     *)
(* else.                                                                   *)
LEMMA PathFacts ==
  ASSUME NEW n \in Names
  PROVE  /\ NamePath[n] \subseteq Names /\ n \in NamePath[n]
         /\ \A m \in NamePath[n] : m # Root => ParentOf[m] \in NamePath[n]
         /\ n # Root => NamePath[n] = {n} \cup NamePath[ParentOf[n]] /\ n \notin NamePath[ParentOf[n]]
<1>1. NamePath[n] = Above(n) /\ n \in Above(n)
  BY NamePathIsAbove, AboveSelf
<1>2. Above(n) \subseteq Names /\ \A m \in Above(n) : m # Root => ParentOf[m] \in Above(n)
  BY AboveClosed DEF Above
<1>3. n # Root => /\ ParentOf[n] \in Names /\ Above(n) = {n} \cup Above(ParentOf[n])
                  /\ n \notin Above(ParentOf[n])
  BY AboveUnfold, NotAboveItsParent, NamesAssumption
<1> QED
  BY <1>1, <1>2, <1>3, NamePathIsAbove

-----------------------------------------------------------------------------
(* The queues of the cache are a tree as long as no name of a removed      *)
(* queue is used again: one queue for a name, below the one queue of the   *)
(* name above; and what has children can be found.                         *)
AttachedIn(os, o) == o = 1 \/ o \in os[os[o].parent].children

ShapeOf(os) ==
  /\ os[1].parent = Nil
  /\ \A o \in DOMAIN os \ {1} : /\ os[o].parent \in DOMAIN os /\ os[o].name # Root
                                /\ os[os[o].parent].name = ParentOf[os[o].name]
  /\ \A o, p \in DOMAIN os : os[o].name = os[p].name => o = p
  /\ \A o \in DOMAIN os : os[o].children # {} => AttachedIn(os, o)

Attached(o) == AttachedIn(objs, o)
Shape == ShapeOf(objs)

(* What Shape says of the objects of the partition, conjunct by conjunct.  *)
LEMMA ShapeFacts ==
  ASSUME Shape
  PROVE  /\ objs[1].parent = Nil
         /\ \A o \in Ids \ {1} : /\ objs[o].parent \in Ids /\ objs[o].name # Root
                                 /\ objs[objs[o].parent].name = ParentOf[objs[o].name]
         /\ \A o, p \in Ids : objs[o].name = objs[p].name => o = p
         /\ \A o \in Ids : objs[o].children # {} => Attached(o)
  BY DEF Shape, ShapeOf, Attached, Ids

(* In such a tree getQueue finds exactly the queues that are attached.     *)
LEMMA AttachedFound ==
  ASSUME Linkage, Shape, NEW o \in Ids, Attached(o)
  PROVE  GetQueue[objs[o].name] = o
<1> DEFINE S == { n \in Names : \A p \in Ids : objs[p].name = n /\ Attached(p) => GetQueue[n] = p }
<1>1. Root \in S
  BY GetQueueLooked, LinkageFacts, ShapeFacts, NamesAssumption DEF Looked
<1>2. ASSUME NEW n \in Names \ {Root}, ParentOf[n] \in S
      PROVE  n \in S
  <2> SUFFICES ASSUME NEW p \in Ids, objs[p].name = n, Attached(p)
               PROVE  GetQueue[n] = p
    OBVIOUS
  <2> DEFINE up == objs[p].parent
  <2>1. p # 1 /\ p \in objs[up].children
    BY LinkageFacts DEF Attached, AttachedIn
  <2>2. up \in Ids /\ objs[up].name = ParentOf[n] /\ Attached(up)
    BY <2>1, ShapeFacts
  <2>3. GetQueue[ParentOf[n]] = up /\ up # Nil
    BY <1>2, <2>2, LinkageFacts
  <2>4. GetQueue[n] = ChildNamed(up, n)
    BY <2>3, GetQueueUnfold
  <2>5. \A c \in objs[up].children : objs[c].name = n => c = p
    BY <2>2, LinkageFacts, ShapeFacts
  <2>6. { c \in objs[up].children : objs[c].name = n } = {p}
    BY <2>1, <2>5
  <2> QED
    BY <2>4, <2>6 DEF ChildNamed
<1>3. S = Names
  <2>1. S \in SUBSET Names
    OBVIOUS
  <2> HIDE DEF S
  <2> QED
    BY <1>1, <1>2, <2>1, NamesInduction
<1>4. objs[o].name \in Names
  BY LinkageFacts DEF QueueInfo
<1> QED
  BY <1>3, <1>4

(* A queue that getQueue finds is attached to the root and has the name    *)
(* that was looked for.                                                    *)
LEMMA FoundAttached ==
  ASSUME Linkage, NEW n \in Names, GetQueue[n] # Nil
  PROVE  GetQueue[n] \in Ids /\ objs[GetQueue[n]].name = n /\ Attached(GetQueue[n])
  BY GetQueueLooked DEF Looked, Attached, AttachedIn

(* One more queue below one that is attached.                              *)
Addable(os, p, n, q) ==
  /\ LinkageOf(os) /\ ShapeOf(os) /\ p \in DOMAIN os /\ AttachedIn(os, p)
  /\ n \in Names \ {Root} /\ os[p].name = ParentOf[n] /\ \A i \in DOMAIN os : os[i].name # n
  /\ q \in QueueInfo /\ q.name = n /\ q.parent = p /\ q.children = {}

OneAdded(os, p, q, new) ==
  /\ ShapeOf(new) /\ AttachedIn(new, Len(os) + 1)
  /\ DOMAIN new = DOMAIN os \cup {Len(os) + 1} /\ Len(os) + 1 \notin DOMAIN os
  /\ new[Len(os) + 1] = q
  /\ \A i \in DOMAIN os : /\ SameBut(new[i], os[i])
                          /\ i # p => new[i].children = os[i].children
                          /\ AttachedIn(os, i) => AttachedIn(new, i)

(* A queue that is added below an attached queue, with a name that no queue*)
(* has, keeps the tree a tree.                                             *)
LEMMA AddShape ==
  ASSUME NEW os, NEW p, NEW n, NEW q, Addable(os, p, n, q)
  PROVE  OneAdded(os, p, q, WithChild(os, p, n, q))
<1> DEFINE new == WithChild(os, p, n, q)
<1>00. /\ LinkageOf(os) /\ ShapeOf(os) /\ p \in DOMAIN os /\ AttachedIn(os, p)
       /\ n \in Names \ {Root} /\ os[p].name = ParentOf[n] /\ \A i \in DOMAIN os : os[i].name # n
       /\ q \in QueueInfo /\ q.name = n /\ q.parent = p /\ q.children = {}
  BY DEF Addable
<1> DEFINE k == Len(os) + 1
<1>0. os \in Seq(QueueInfo)
  BY <1>00 DEF LinkageOf
<1>1. /\ new \in Seq(QueueInfo) /\ Len(new) = k /\ new[k] = q
      /\ \A i \in DOMAIN os :
           /\ SameBut(new[i], os[i])
           /\ i # p => new[i].children = os[i].children
           /\ i = p => new[i].children = Others(os, p, n) \cup {k}
  BY <1>0, <1>00, WithChildIs
<1> HIDE DEF new
<1>2. DOMAIN new = DOMAIN os \cup {k} /\ k \notin DOMAIN os /\ 1 \in DOMAIN os
  BY <1>0, <1>00, <1>1 DEF LinkageOf
<1>3. Others(os, p, n) = os[p].children
  BY <1>00 DEF Others, LinkageOf
<1> HIDE DEF k
<1>4. \A i \in DOMAIN os : /\ new[i].name = os[i].name /\ new[i].parent = os[i].parent
                           /\ os[i].children \subseteq new[i].children
  BY <1>1, <1>3 DEF SameBut
<1>5. ASSUME NEW i \in DOMAIN os, AttachedIn(os, i)
      PROVE  AttachedIn(new, i)
  <2>1. CASE i = 1
    BY <2>1 DEF AttachedIn
  <2>2. CASE i # 1
    BY <1>00, <1>4, <1>5, <2>2 DEF AttachedIn, ShapeOf
  <2> QED
    BY <2>1, <2>2
<1>6. AttachedIn(new, k)
  BY <1>00, <1>1 DEF AttachedIn
<1>7. new[1].parent = Nil
  BY <1>00, <1>2, <1>4 DEF ShapeOf
<1>8. \A o \in DOMAIN new \ {1} : /\ new[o].parent \in DOMAIN new /\ new[o].name # Root
                                  /\ new[new[o].parent].name = ParentOf[new[o].name]
  <2>1. \A o \in DOMAIN os \ {1} : /\ os[o].parent \in DOMAIN os /\ os[o].name # Root
                                   /\ os[os[o].parent].name = ParentOf[os[o].name]
    BY <1>00 DEF ShapeOf
  <2> QED
    BY <1>00, <1>1, <1>2, <1>4, <2>1
<1>9. \A o, r \in DOMAIN new : new[o].name = new[r].name => o = r
  <2>1. \A o, r \in DOMAIN os : os[o].name = os[r].name => o = r
    BY <1>00 DEF ShapeOf
  <2> QED
    BY <1>00, <1>1, <1>2, <1>4, <2>1
<1>10. \A o \in DOMAIN new : new[o].children # {} => AttachedIn(new, o)
  <2>1. \A o \in DOMAIN os : os[o].children # {} => AttachedIn(os, o)
    BY <1>00 DEF ShapeOf
  <2> QED
    BY <1>00, <1>1, <1>2, <1>5, <1>6, <2>1
<1>11. ShapeOf(new)
  BY <1>7, <1>8, <1>9, <1>10 DEF ShapeOf
<1> QED
  BY <1>1, <1>2, <1>5, <1>6, <1>11 DEF k, new, OneAdded

(* CreateQueues below the nearest queue that is there: what it adds is new *)
(* and can be found, and only that one queue gets a child.                 *)
GrownFor(n, x) ==
  /\ x \in Grown /\ ShapeOf(x.objs) /\ OldKept(x.objs)
  /\ x.objs[x.at].name = n /\ AttachedIn(x.objs, x.at)
  /\ x.at \in Ids => x.at = GetQueue[Existing[n]]
  /\ \A i \in Ids : /\ Attached(i) => AttachedIn(x.objs, i)
                    /\ i # GetQueue[Existing[n]] => x.objs[i].children = objs[i].children
  /\ \A i \in DOMAIN x.objs \ Ids : /\ ~x.objs[i].managed /\ x.objs[i].alloc = 0 /\ AttachedIn(x.objs, i)
                                    /\ x.objs[i].name \in NamePath[n] /\ GetQueue[x.objs[i].name] = Nil

(* CreateQueues keeps the tree a tree, when no queue has one of the names  *)
(* that it adds; the queues it adds are unmanaged, empty and can be found, *)
(* and only the nearest queue that was there gets a child.                 *)
LEMMA CreatedShape ==
  ASSUME Linkage, Shape, NEW n \in Names, objs' = CreateQueues(n),
         \A m \in NamePath[n] : GetQueue[m] = Nil => \A i \in Ids : objs[i].name # m
  PROVE  /\ Linkage' /\ Shape' /\ Ids \subseteq Ids'
         /\ \A i \in Ids : /\ SameBut(objs'[i], objs[i])
                           /\ Attached(i) => Attached(i)'
                           /\ i # GetQueue[Existing[n]] => objs'[i].children = objs[i].children
         /\ \A i \in Ids' \ Ids : /\ ~objs'[i].managed /\ objs'[i].alloc = 0
                                  /\ objs'[i].name \in NamePath[n] /\ GetQueue[objs'[i].name] = Nil
<1>1. PICK make \in [Names -> Grown] :
        /\ CreateQueues(n) = make[n].objs
        /\ \A m \in Names : GetQueue[m] # Nil => make[m] = [objs |-> objs, at |-> GetQueue[m]]
        /\ \A m \in Names : GetQueue[m] = Nil => m # Root /\ make[m] = OneMore(n, m, make[ParentOf[m]])
  BY CreateQueuesUnfold
<1> DEFINE S == { m \in Names : m \in NamePath[n] => GrownFor(m, make[m]) }
<1>2. ASSUME NEW m \in Names, GetQueue[m] # Nil
      PROVE  GrownFor(m, make[m])
  <2>1. make[m].objs = objs /\ make[m].at = GetQueue[m] /\ make[m] \in Grown
    BY <1>1, <1>2
  <2>2. GetQueue[m] \in Ids /\ objs[GetQueue[m]].name = m /\ Attached(GetQueue[m])
    BY <1>2, FoundAttached
  <2>3. Existing[m] = m
    BY <1>2, ExistingUnfold
  <2> QED
    BY <2>1, <2>2, <2>3 DEF GrownFor, Shape, Attached, OldKept, SameBut, Ids
<1>3. ASSUME NEW m \in NamePath[n], GetQueue[m] = Nil, m \in Names \ {Root}, GrownFor(ParentOf[m], make[ParentOf[m]])
      PROVE  GrownFor(m, make[m])
  <2> DEFINE x == make[ParentOf[m]]
             p == x.at
             q == NewQueue(m, p, m = n, FALSE)
             os == x.objs
             new == WithChild(os, p, m, q)
             k == Len(os) + 1
  <2>1. ParentOf[m] \in Names /\ make[m] = OneMore(n, m, x) /\ make[m] \in Grown
    BY <1>1, <1>3, NamesAssumption
  <2>2. /\ LinkageOf(os) /\ p \in DOMAIN os /\ p \in Nat /\ os \in Seq(QueueInfo)
        /\ ShapeOf(os) /\ OldKept(os) /\ os[p].name = ParentOf[m] /\ AttachedIn(os, p)
    BY <1>3 DEF GrownFor, Grown
  <2>21. /\ p \in Ids => p = GetQueue[Existing[ParentOf[m]]]
         /\ \A i \in Ids : /\ Attached(i) => AttachedIn(os, i)
                           /\ i # GetQueue[Existing[ParentOf[m]]] => os[i].children = objs[i].children
         /\ \A i \in DOMAIN os \ Ids : /\ ~os[i].managed /\ os[i].alloc = 0 /\ AttachedIn(os, i)
                                       /\ os[i].name \in NamePath[ParentOf[m]] /\ GetQueue[os[i].name] = Nil
    BY <1>3 DEF GrownFor
  <2>3. q \in QueueInfo /\ q.name = m /\ q.parent = p /\ q.children = {} /\ ~q.managed /\ q.alloc = 0
    BY <1>3, <2>2 DEF NewQueue, QueueInfo
  <2>4. \A i \in DOMAIN os : os[i].name # m
    <3>1. \A i \in Ids : os[i].name # m
      BY <1>3, <2>2 DEF OldKept, SameBut
    <3>2. m \notin NamePath[ParentOf[m]]
      BY <1>3, PathFacts
    <3> QED
      BY <2>21, <3>1, <3>2
  <2>5. make[m] = [objs |-> new, at |-> k]
    BY <2>1 DEF OneMore
  <2> HIDE DEF x, p, os, q
  <2>6. /\ ShapeOf(new) /\ AttachedIn(new, k) /\ DOMAIN new = DOMAIN os \cup {k} /\ k \notin DOMAIN os
        /\ new[k] = q
        /\ \A i \in DOMAIN os : /\ SameBut(new[i], os[i])
                                /\ i # p => new[i].children = os[i].children
                                /\ AttachedIn(os, i) => AttachedIn(new, i)
    <3>1. Addable(os, p, m, q)
      BY <1>3, <2>2, <2>3, <2>4 DEF Addable
    <3>2. OneAdded(os, p, q, WithChild(os, p, m, q))
      BY <3>1, AddShape
    <3> QED
      BY <3>2 DEF OneAdded
  <2> HIDE DEF new, k
  <2>7. make[m].objs = new /\ make[m].at = k
    BY <2>5
  <2>8. Ids \subseteq DOMAIN os /\ \A i \in Ids : SameBut(os[i], objs[i])
    BY <2>2 DEF OldKept
  <2>9. OldKept(new)
    BY <2>6, <2>8 DEF OldKept, SameBut
  <2>10. k \notin Ids
    BY <2>6, <2>8
  <2>11. Existing[m] = Existing[ParentOf[m]]
    BY <1>3, ExistingUnfold
  <2>12. \A i \in Ids : /\ Attached(i) => AttachedIn(new, i)
                        /\ i # GetQueue[Existing[m]] => new[i].children = objs[i].children
    BY <2>21, <2>6, <2>8, <2>11
  <2>13. NamePath[ParentOf[m]] \subseteq NamePath[m] /\ m \in NamePath[m]
    BY <1>3, PathFacts
  <2>14. ASSUME NEW i \in DOMAIN new \ Ids
         PROVE  /\ ~new[i].managed /\ new[i].alloc = 0 /\ AttachedIn(new, i)
                /\ new[i].name \in NamePath[m] /\ GetQueue[new[i].name] = Nil
    <3>1. CASE i = k
      BY <1>3, <2>3, <2>6, <2>13, <3>1
    <3>2. CASE i \in DOMAIN os \ Ids
      BY <2>21, <2>6, <2>13, <3>2 DEF SameBut
    <3> QED
      BY <2>6, <3>1, <3>2
  <2> QED
    BY <2>1, <2>3, <2>6, <2>7, <2>9, <2>10, <2>12, <2>14 DEF GrownFor
<1>4. Root \in S
  BY <1>2, GetQueueLooked, NamesAssumption DEF Looked, Nil
<1>5. ASSUME NEW m \in Names \ {Root}, ParentOf[m] \in S
      PROVE  m \in S
  <2> SUFFICES ASSUME m \in NamePath[n]
               PROVE  GrownFor(m, make[m])
    OBVIOUS
  <2>1. ParentOf[m] \in NamePath[n]
    BY PathFacts
  <2>2. GrownFor(ParentOf[m], make[ParentOf[m]])
    BY <1>5, <2>1
  <2> QED
    BY <1>2, <1>3, <2>2
<1>6. S = Names
  <2>1. S \in SUBSET Names
    OBVIOUS
  <2> HIDE DEF S
  <2> QED
    BY <1>4, <1>5, <2>1, NamesInduction
<1>7. GrownFor(n, make[n]) /\ make[n].objs = objs'
  BY <1>1, <1>6, PathFacts
<1>8. /\ LinkageOf(objs') /\ ShapeOf(objs') /\ Ids \subseteq DOMAIN objs'
      /\ \A i \in Ids : /\ SameBut(objs'[i], objs[i])
                        /\ Attached(i) => AttachedIn(objs', i)
                        /\ i # GetQueue[Existing[n]] => objs'[i].children = objs[i].children
      /\ \A i \in DOMAIN objs' \ Ids : /\ ~objs'[i].managed /\ objs'[i].alloc = 0
                                       /\ objs'[i].name \in NamePath[n] /\ GetQueue[objs'[i].name] = Nil
  BY <1>7 DEF GrownFor, Grown, OldKept
<1> QED
  BY <1>8 DEF Linkage, Shape, Attached, Ids

-----------------------------------------------------------------------------
(* What an update still has to do. *)
Pend(steps, do, on) == \E i \in DOMAIN steps : steps[i] = [do |-> do, on |-> on]
Down(steps) == \A i \in DOMAIN steps : steps[i].do \in {"update", "prune"}
Marks(steps) == \A i \in DOMAIN steps : steps[i].do \in {"mark", "unlock"}
(* Queues that are to be marked are marked before anything else is done. *)
MarksFirst(steps) ==
  \A i, j \in DOMAIN steps : i < j /\ steps[i].do \in {"update", "prune"} => steps[j].do \in {"update", "prune"}

(* What two lists of steps have to do is what the first has and what the   *)
(* second has.                                                             *)
LEMMA PendJoined ==
  ASSUME NEW T, NEW s \in Seq(T), NEW t \in Seq(T), NEW do, NEW on
  PROVE  Pend(s \o t, do, on) <=> Pend(s, do, on) \/ Pend(t, do, on)
<1> DEFINE u == s \o t
<1>1. /\ \A i \in DOMAIN u : \/ \E j \in DOMAIN s : u[i] = s[j] /\ i = j
                             \/ \E j \in DOMAIN t : u[i] = t[j] /\ i = Len(s) + j
      /\ \A j \in DOMAIN s : j \in DOMAIN u /\ u[j] = s[j]
      /\ \A j \in DOMAIN t : Len(s) + j \in DOMAIN u /\ u[Len(s) + j] = t[j]
  BY Joined
<1> HIDE DEF u
<1>2. Pend(u, do, on) <=> Pend(s, do, on) \/ Pend(t, do, on)
  BY <1>1 DEF Pend
<1> QED
  BY <1>2 DEF u

(* What a list of steps has to do is its first step and what the others    *)
(* have.                                                                   *)
LEMMA PendRest ==
  ASSUME NEW T, NEW s \in Seq(T), s # <<>>, NEW do, NEW on
  PROVE  Pend(s, do, on) <=> Head(s) = [do |-> do, on |-> on] \/ Pend(Tail(s), do, on)
<1>1. /\ Head(s) = s[1] /\ 1 \in DOMAIN s
      /\ \A i \in DOMAIN Tail(s) : i + 1 \in DOMAIN s /\ Tail(s)[i] = s[i + 1]
      /\ \A i \in DOMAIN s : i = 1 \/ (i - 1 \in DOMAIN Tail(s) /\ Tail(s)[i - 1] = s[i])
  BY TheRest
<1> DEFINE r == Tail(s)
           w == [do |-> do, on |-> on]
<1>2. (\E i \in DOMAIN s : s[i] = w) <=> s[1] = w \/ \E i \in DOMAIN r : r[i] = w
  <2> HIDE DEF w
  <2>1. ASSUME NEW i \in DOMAIN s, s[i] = w
        PROVE  s[1] = w \/ \E j \in DOMAIN r : r[j] = w
    BY <1>1, <2>1
  <2>2. ASSUME NEW i \in DOMAIN r, r[i] = w
        PROVE  \E j \in DOMAIN s : s[j] = w
    BY <1>1, <2>2
  <2> QED
    BY <1>1, <2>1, <2>2
<1> QED
  BY <1>1, <1>2 DEF Pend

(* The steps of one kind, one for each element of a set.                   *)
LEMMA PendSteps ==
  ASSUME NEW a, NEW S, IsFiniteSet(S), NEW do, NEW on
  PROVE  Pend(Steps(a, S), do, on) <=> do = a /\ on \in S
<1> DEFINE T == { [do |-> a, on |-> x] : x \in S }
           s == Steps(a, S)
<1>1. \A x \in S : [do |-> a, on |-> x] \in T
  OBVIOUS
<1> HIDE DEF T
<1>2. /\ \A i \in DOMAIN s : \E x \in S : s[i] = [do |-> a, on |-> x]
      /\ \A x \in S : \E i \in DOMAIN s : s[i] = [do |-> a, on |-> x]
  BY <1>1, StepsAre
<1> HIDE DEF s
<1>3. Pend(s, do, on) <=> do = a /\ on \in S
  <2>1. ASSUME Pend(s, do, on)
        PROVE  do = a /\ on \in S
    <3>1. PICK i \in DOMAIN s : s[i] = [do |-> do, on |-> on]
      BY <2>1 DEF Pend
    <3>2. PICK x \in S : s[i] = [do |-> a, on |-> x]
      BY <1>2
    <3>3. [do |-> do, on |-> on].do = a /\ [do |-> do, on |-> on].on = x
      BY <3>1, <3>2
    <3> QED
      BY <3>3
  <2>2. ASSUME do = a, on \in S
        PROVE  Pend(s, do, on)
    BY <1>2, <2>2 DEF Pend
  <2> QED
    BY <2>1, <2>2
<1> QED
  BY <1>3 DEF s

(* Steps makes steps of one kind.                                          *)
LEMMA StepsDown ==
  ASSUME NEW a, NEW S, IsFiniteSet(S)
  PROVE  \A i \in DOMAIN Steps(a, S) : Steps(a, S)[i].do = a
<1> DEFINE T == { [do |-> a, on |-> x] : x \in S }
           s == Steps(a, S)
<1>1. \A x \in S : [do |-> a, on |-> x] \in T
  OBVIOUS
<1> HIDE DEF T
<1>2. \A i \in DOMAIN s : \E x \in S : s[i] = [do |-> a, on |-> x]
  BY <1>1, StepsAre
<1> HIDE DEF s
<1>3. \A i \in DOMAIN s : s[i].do = a
  <2> SUFFICES ASSUME NEW i \in DOMAIN s
               PROVE  s[i].do = a
    OBVIOUS
  <2>1. PICK x \in S : s[i] = [do |-> a, on |-> x]
    BY <1>2
  <2> QED
    BY <2>1
<1> QED
  BY <1>3 DEF s

(* An update below a queue has its configured children and then its        *)
(* removals to do.                                                         *)
LEMMA PendUpdateSteps ==
  ASSUME NEW c \in Configs, NEW n, NEW do, NEW on
  PROVE  /\ Pend(UpdateSteps(n, c), do, on) <=>
              \/ do = "update" /\ on \in Children(n) \cap c
              \/ do = "prune" /\ on = n
         /\ Down(UpdateSteps(n, c))
<1> DEFINE S == Children(n) \cap c
           s == Steps("update", S)
           p == [do |-> "prune", on |-> n]
           T == { [do |-> "update", on |-> x] : x \in S } \cup {p}
<1>1. IsFiniteSet(S)
  <2>1. IsFiniteSet(c)
    BY NamesAssumption
  <2> QED
    BY <2>1, FS_Subset
<1>2. s \in Seq(T)
  <2>1. \A x \in S : [do |-> "update", on |-> x] \in T
    OBVIOUS
  <2> HIDE DEF T, S
  <2> QED
    BY <1>1, <2>1, StepsAre
<1>3. <<p>> \in Seq(T)
  OBVIOUS
<1>4. Pend(s, do, on) <=> do = "update" /\ on \in S
  <2> HIDE DEF S
  <2> QED
    BY <1>1, PendSteps
<1>5. Pend(<<p>>, do, on) <=> do = "prune" /\ on = n
  <2>1. Pend(<<p>>, do, on) <=> p = [do |-> do, on |-> on]
    BY DEF Pend
  <2>2. ASSUME p = [do |-> do, on |-> on]
        PROVE  do = "prune" /\ on = n
    <3>1. [do |-> do, on |-> on].do = "prune" /\ [do |-> do, on |-> on].on = n
      BY <2>2
    <3> QED
      BY <3>1
  <2> QED
    BY <2>1, <2>2
<1>6. \A i \in DOMAIN s : s[i].do = "update"
  <2> HIDE DEF S
  <2> QED
    BY <1>1, StepsDown
<1>7. UpdateSteps(n, c) = s \o <<p>>
  BY DEF UpdateSteps
<1> HIDE DEF s, T
<1>8. Down(s \o <<p>>)
  <2>1. \A i \in DOMAIN (s \o <<p>>) : \/ \E j \in DOMAIN s : (s \o <<p>>)[i] = s[j] /\ i = j
                                       \/ \E j \in DOMAIN <<p>> : (s \o <<p>>)[i] = <<p>>[j] /\ i = Len(s) + j
    BY <1>2, <1>3, Joined
  <2>2. \A j \in DOMAIN <<p>> : <<p>>[j] = p
    OBVIOUS
  <2> QED
    BY <1>6, <2>1, <2>2 DEF Down
<1> DEFINE t == <<p>>
<1>9. Pend(s \o t, do, on) <=> Pend(s, do, on) \/ Pend(t, do, on)
  <2>1. t \in Seq(T)
    BY <1>3
  <2> HIDE DEF t
  <2> QED
    BY <1>2, <2>1, PendJoined
<1> QED
  BY <1>4, <1>5, <1>7, <1>8, <1>9

(* After the first step the marks still come first.                        *)
LEMMA MarksFirstRest ==
  ASSUME NEW T, NEW s \in Seq(T), s # <<>>, MarksFirst(s)
  PROVE  /\ MarksFirst(Tail(s))
         /\ Head(s).do \in {"update", "prune"} => Down(Tail(s))
<1>1. /\ Head(s) = s[1] /\ 1 \in DOMAIN s /\ DOMAIN Tail(s) \subseteq Nat \ {0}
      /\ \A i \in DOMAIN Tail(s) : i + 1 \in DOMAIN s /\ Tail(s)[i] = s[i + 1]
  <2>1. Tail(s) \in Seq(T)
    BY TheRest
  <2>2. DOMAIN Tail(s) \subseteq Nat \ {0}
    BY <2>1
  <2> QED
    BY <2>2, TheRest
<1> DEFINE r == Tail(s)
<1> HIDE DEF r
<1>2. MarksFirst(r)
  <2> SUFFICES ASSUME NEW i \in DOMAIN r, NEW j \in DOMAIN r, i < j, r[i].do \in {"update", "prune"}
               PROVE  r[j].do \in {"update", "prune"}
    BY DEF MarksFirst
  <2>1. i + 1 \in DOMAIN s /\ j + 1 \in DOMAIN s /\ r[i] = s[i + 1] /\ r[j] = s[j + 1] /\ i + 1 < j + 1
    BY <1>1 DEF r
  <2> QED
    BY <2>1 DEF MarksFirst
<1>3. ASSUME s[1].do \in {"update", "prune"}
      PROVE  Down(r)
  <2> SUFFICES ASSUME NEW j \in DOMAIN r
               PROVE  r[j].do \in {"update", "prune"}
    BY DEF Down
  <2>1. j + 1 \in DOMAIN s /\ r[j] = s[j + 1] /\ 1 < j + 1
    BY <1>1 DEF r
  <2> QED
    BY <1>1, <1>3, <2>1 DEF MarksFirst
<1> QED
  BY <1>1, <1>2, <1>3 DEF r

(* Steps down the tree may follow steps of one kind.                       *)
LEMMA MarksFirstJoined ==
  ASSUME NEW T, NEW s \in Seq(T), NEW t \in Seq(T), Down(t), Down(s) \/ Marks(s)
  PROVE  MarksFirst(s \o t) /\ (Down(s) => Down(s \o t))
<1> DEFINE u == s \o t
<1>1. /\ \A i \in DOMAIN u : \/ \E j \in DOMAIN s : u[i] = s[j] /\ i = j
                             \/ \E j \in DOMAIN t : u[i] = t[j] /\ i = Len(s) + j
  BY Joined
<1>2. DOMAIN s = 1 .. Len(s) /\ Len(s) \in Nat /\ DOMAIN t = 1 .. Len(t) /\ Len(t) \in Nat
  OBVIOUS
<1> HIDE DEF u
<1>3. \A i \in DOMAIN u : u[i].do \in {"update", "prune"} \/ (Marks(s) /\ i \in DOMAIN s /\ u[i].do \in {"mark", "unlock"})
  BY <1>1 DEF Down, Marks
<1>4. \A i \in DOMAIN u : Down(s) => u[i].do \in {"update", "prune"}
  BY <1>1 DEF Down
<1>5. ASSUME NEW i \in DOMAIN u, NEW j \in DOMAIN u, i < j, u[i].do \in {"update", "prune"}
      PROVE  u[j].do \in {"update", "prune"}
  <2>1. CASE Down(s)
    BY <1>4, <2>1
  <2>2. CASE Marks(s) /\ i \in DOMAIN s
    <3>1. u[i] = s[i]
      BY <1>1, <1>2, <2>2
    <3> QED
      BY <1>5, <2>2, <3>1 DEF Marks
  <2>3. CASE i \notin DOMAIN s
    <3>1. j \notin DOMAIN s
      BY <1>1, <1>2, <1>5, <2>3
    <3> QED
      BY <1>3, <3>1
  <2> QED
    BY <2>1, <2>2, <2>3
<1> QED
  BY <1>4, <1>5 DEF MarksFirst, Down, u

(* Marks may be put before the other steps.                                *)
LEMMA MarksJoined ==
  ASSUME NEW T, NEW s \in Seq(T), NEW t \in Seq(T), Marks(s), MarksFirst(t)
  PROVE  MarksFirst(s \o t)
<1> DEFINE u == s \o t
<1>1. \A i \in DOMAIN u : \/ \E j \in DOMAIN s : u[i] = s[j] /\ i = j
                          \/ \E j \in DOMAIN t : u[i] = t[j] /\ i = Len(s) + j
  BY Joined
<1>2. DOMAIN s = 1 .. Len(s) /\ Len(s) \in Nat /\ DOMAIN t = 1 .. Len(t) /\ Len(t) \in Nat
  OBVIOUS
<1> HIDE DEF u
<1>3. ASSUME NEW i \in DOMAIN u, NEW j \in DOMAIN u, i < j, u[i].do \in {"update", "prune"}
      PROVE  u[j].do \in {"update", "prune"}
  <2>1. CASE \E k \in DOMAIN s : u[i] = s[k]
    BY <1>3, <2>1 DEF Marks
  <2>2. ASSUME NEW k \in DOMAIN t, u[i] = t[k], i = Len(s) + k
        PROVE  u[j].do \in {"update", "prune"}
    <3>1. PICK l \in DOMAIN t : u[j] = t[l] /\ j = Len(s) + l
      BY <1>1, <1>2, <1>3, <2>2
    <3>2. k < l
      BY <1>2, <1>3, <2>2, <3>1
    <3> QED
      BY <1>3, <2>2, <3>1, <3>2 DEF MarksFirst
  <2> QED
    BY <1>1, <2>1, <2>2
<1> QED
  BY <1>3 DEF MarksFirst, u

-----------------------------------------------------------------------------
(* What users and administrators do not do, in the configurations that     *)
(* follow: use the name of a removed or of a draining queue again,         *)
(* configure a queue that a placement rule may create, or write the name   *)
(* of a queue with capitals.                                               *)
ConfigsApart ==
  /\ "reuseRemoved" \notin May /\ "reuseDraining" \notin May
  /\ \A c \in Configs : c \cap Created = {} /\ c \cap Capitals = {}

RunningIn(os, o) == os[o].managed /\ os[o].state = "Active"

(* Managed queues come from a configuration and the others from a rule; a  *)
(* managed queue that does not drain can be found, and every queue that is *)
(* configured now is one.                                                  *)
QueuesOf(os, c) ==
  /\ \A o \in DOMAIN os : os[o].name \in IF os[o].managed THEN UNION Configs ELSE Created
  /\ \A o \in DOMAIN os : RunningIn(os, o) => AttachedIn(os, o)
  /\ \A o \in DOMAIN os : os[o].name \in c => RunningIn(os, o)

(* Below a queue that drains the managed queues drain or are to be marked. *)
DrainOf(os, steps) ==
  \A o \in DOMAIN os \ {1} :
    RunningIn(os, o) => RunningIn(os, os[o].parent) \/ Pend(steps, "mark", o)

(* The walk over a configuration: the queues it has come to, those below   *)
(* them that it will come to, and the children it will mark.               *)
WalkOf(os, c, steps, at) ==
  /\ at[Root] # Nil
  /\ \A n \in Names : at[n] # Nil => n \in c /\ os[at[n]].name = n
  /\ \A n \in c \ {Root} : at[ParentOf[n]] # Nil => at[n] # Nil \/ Pend(steps, "update", n)
  /\ \A o \in DOMAIN os : Pend(steps, "mark", o) => os[o].name \notin c
  /\ \A o \in DOMAIN os \ {1} :
       RunningIn(os, o) /\ os[o].name \notin c /\ ParentOf[os[o].name] \in c =>
         \/ Pend(steps, "mark", o)
         \/ Pend(steps, "prune", ParentOf[os[o].name])
         \/ at[ParentOf[os[o].name]] = Nil

AppliedOf(os, c) ==
  /\ \A n \in c : \E o \in DOMAIN os : os[o].name = n
  /\ \A o \in DOMAIN os : RunningIn(os, o) => os[o].name \in c

(* The cleaner removes the queue that it has checked: nobody gives it a    *)
(* child or charges it while the cleaner waits for the lock of its parent. *)
CleanerInv ==
  /\ cleaner.phase # "idle" => objs[cleaner.queue].name = cleaner.name /\ cleaner.name # Root
  /\ cleaner.phase = "unlink" =>
       /\ ~RunningIn(objs, cleaner.queue)
       /\ objs[cleaner.queue].children = {} /\ objs[cleaner.queue].alloc = 0

SchedNamed == \A n \in Names : sched[n] # Nil => objs[sched[n]].name = n

TreeInv ==
  /\ TypeInv /\ Shape /\ QueuesOf(objs, conf)
  /\ DrainOf(objs, reload.steps) /\ MarksFirst(reload.steps)
  /\ Reloading => WalkOf(objs, conf, reload.steps, reload.at)
  /\ applied => ~Reloading /\ AppliedOf(objs, conf)
  /\ CleanerInv /\ SchedNamed

(* An update that is done has nothing to do.                               *)
LEMMA NothingPends == \A do, on : ~Pend(<<>>, do, on)
  BY DEF Pend

(* A walk that has nothing left to do has applied the configuration: by    *)
(* induction over the names it has come to every queue, and no managed     *)
(* queue that is not configured was passed by.                             *)
LEMMA WalkDone ==
  ASSUME NEW os, LinkageOf(os), ShapeOf(os), NEW c \in Configs, QueuesOf(os, c), DrainOf(os, <<>>),
         NEW at, at \in [Names -> DOMAIN os \cup {Nil}], WalkOf(os, c, <<>>, at)
  PROVE  AppliedOf(os, c)
<1>1. /\ Root \in c /\ c \subseteq Names /\ Root \in Names
      /\ \A n \in c \ {Root} : ParentOf[n] \in c
      /\ \A n \in Names \ {Root} : ParentOf[n] \in Names
  BY NamesAssumption
<1>2. /\ os \in Seq(QueueInfo) /\ 1 \in DOMAIN os /\ os[1].name = Root
      /\ \A o \in DOMAIN os : os[o].name \in Names
  <2>1. os \in Seq(QueueInfo) /\ 1 \in DOMAIN os /\ os[1].name = Root
    BY DEF LinkageOf
  <2>2. \A o \in DOMAIN os : os[o] \in QueueInfo
    BY <2>1
  <2> QED
    BY <2>1, <2>2 DEF QueueInfo
<1>3. { n \in Names : n \in c => at[n] # Nil } = Names
  <2> DEFINE S == { n \in Names : n \in c => at[n] # Nil }
  <2>1. Root \in S
    BY <1>1 DEF WalkOf
  <2>2. ASSUME NEW n \in Names \ {Root}, ParentOf[n] \in S
        PROVE  n \in S
    BY <1>1, <2>2, NothingPends DEF WalkOf
  <2>3. S \in SUBSET Names
    OBVIOUS
  <2> HIDE DEF S
  <2> QED
    BY <2>1, <2>2, <2>3, NamesInduction DEF S
<1>4. \A n \in c : at[n] \in DOMAIN os /\ os[at[n]].name = n
  BY <1>1, <1>3 DEF WalkOf
<1>5. { n \in Names : \A o \in DOMAIN os : os[o].name = n /\ RunningIn(os, o) => n \in c } = Names
  <2> DEFINE S == { n \in Names : \A o \in DOMAIN os : os[o].name = n /\ RunningIn(os, o) => n \in c }
  <2>1. Root \in S
    BY <1>1
  <2>2. ASSUME NEW n \in Names \ {Root}, ParentOf[n] \in S
        PROVE  n \in S
    <3> SUFFICES ASSUME NEW o \in DOMAIN os, os[o].name = n, RunningIn(os, o), n \notin c
                 PROVE  FALSE
      OBVIOUS
    <3>1. o # 1 /\ os[o].parent \in DOMAIN os /\ os[os[o].parent].name = ParentOf[n]
      BY <1>2 DEF ShapeOf
    <3>2. RunningIn(os, os[o].parent)
      BY <3>1, NothingPends DEF DrainOf
    <3>3. ParentOf[n] \in c
      BY <2>2, <3>1, <3>2
    <3>4. at[ParentOf[n]] = Nil
      BY <3>1, <3>3, NothingPends DEF WalkOf
    <3> QED
      BY <1>1, <1>3, <3>3, <3>4
  <2>3. S \in SUBSET Names
    OBVIOUS
  <2> HIDE DEF S
  <2> QED
    BY <2>1, <2>2, <2>3, NamesInduction DEF S
<1> QED
  BY <1>2, <1>4, <1>5 DEF AppliedOf

(* A step of an update that goes on, or ends the update. *)
LEMMA ContinueTree ==
  ASSUME TypeInv', Shape', NEW steps, NEW at, Continue(steps, at), at \in [Names -> Ids' \cup {Nil}],
         QueuesOf(objs', conf), DrainOf(objs', steps), MarksFirst(steps),
         WalkOf(objs', conf, steps, at), CleanerInv', SchedNamed'
  PROVE  TreeInv'
<1>1. /\ reload' = IF steps = <<>> THEN NoReload ELSE [steps |-> steps, at |-> at]
      /\ conf' = conf /\ applied' = (steps = <<>>)
  BY DEF Continue
<1>2. conf \in Configs
  BY <1>1 DEF TypeInv, Plain
<1>3. reload'.steps = steps /\ (steps # <<>> => reload'.at = at)
  BY <1>1 DEF NoReload
<1>4. Reloading' <=> steps # <<>>
  BY <1>3 DEF Reloading
<1>5. steps = <<>> => AppliedOf(objs', conf)
  <2>1. LinkageOf(objs') /\ ShapeOf(objs') /\ Ids' = DOMAIN objs'
    BY DEF TypeInv, Linkage, Shape, Ids
  <2> QED
    BY <1>2, <2>1, WalkDone
<1> QED
  BY <1>1, <1>3, <1>4, <1>5 DEF TreeInv

(* A queue that the cleaner holds has no child and no charge. *)
LEMMA CleanerKept ==
  ASSUME TreeInv, cleaner' = cleaner, \A o \in Ids : objs'[o].name = objs[o].name,
         cleaner.phase = "unlink" =>
           /\ RunningIn(objs', cleaner.queue) => RunningIn(objs, cleaner.queue)
           /\ objs[cleaner.queue].children = {} => objs'[cleaner.queue].children = {}
           /\ objs[cleaner.queue].alloc = 0 => objs'[cleaner.queue].alloc = 0
  PROVE  CleanerInv'
<1>1. cleaner.phase # "idle" => cleaner.queue \in Ids
  BY DEF TreeInv, TypeInv, Refs
<1>2. CleanerInv
  BY DEF TreeInv
<1> QED
  BY <1>1, <1>2 DEF CleanerInv

(* Names do not change, so the scheduler's queues keep theirs. *)
LEMMA SchedKeptNamed ==
  ASSUME TreeInv, sched' = sched, \A o \in Ids : objs'[o].name = objs[o].name
  PROVE  SchedNamed'
<1>1. sched \in [Names -> Ids \cup {Nil}] /\ SchedNamed
  BY DEF TreeInv, TypeInv, Refs
<1> QED
  BY <1>1 DEF SchedNamed

(* Queues that are there with their names, parents, states and children,   *)
(* and new ones that a rule has created.                                   *)
LEMMA OthersTree ==
  ASSUME TreeInv, ConfigsApart, TypeInv', Shape', UNCHANGED <<conf, applied, reload>>, Ids \subseteq Ids',
         \A o \in Ids : /\ objs'[o].name = objs[o].name /\ objs'[o].parent = objs[o].parent
                        /\ objs'[o].managed = objs[o].managed /\ objs'[o].state = objs[o].state
         , \A o \in Ids : RunningIn(objs, o) => AttachedIn(objs', o)
         , \A o \in Ids' \ Ids : ~objs'[o].managed /\ objs'[o].name \in Created
         , CleanerInv', SchedNamed'
  PROVE  TreeInv'
<1>1. /\ Ids = DOMAIN objs /\ Ids' = DOMAIN objs' /\ Shape /\ QueuesOf(objs, conf)
      /\ DrainOf(objs, reload.steps) /\ conf \in Configs /\ Linkage /\ Refs
  BY DEF Ids, TreeInv, TypeInv, Plain
<1>2. \A o \in Ids : RunningIn(objs', o) <=> RunningIn(objs, o)
  BY DEF RunningIn
<1>3. \A o \in Ids' \ Ids : ~RunningIn(objs', o) /\ objs'[o].name \notin conf
  BY <1>1 DEF RunningIn, ConfigsApart
<1>4. QueuesOf(objs', conf)
  BY <1>1, <1>2, <1>3 DEF QueuesOf
<1>5. \A o \in Ids \ {1} : objs[o].parent \in Ids
  BY <1>1, ShapeFacts
<1>6. DrainOf(objs', reload.steps)
  BY <1>1, <1>2, <1>3, <1>5 DEF DrainOf
<1>7. ASSUME Reloading
      PROVE  WalkOf(objs', conf, reload.steps, reload.at)
  <2>1. WalkOf(objs, conf, reload.steps, reload.at)
    BY <1>7 DEF TreeInv
  <2>2. reload.at \in [Names -> Ids \cup {Nil}]
    BY <1>1 DEF Refs
  <2>3. \A n \in Names : reload.at[n] # Nil => n \in conf /\ objs'[reload.at[n]].name = n
    BY <2>1, <2>2 DEF WalkOf
  <2>4. \A o \in DOMAIN objs' : Pend(reload.steps, "mark", o) => objs'[o].name \notin conf
    BY <1>1, <1>3, <2>1 DEF WalkOf
  <2>5. \A o \in DOMAIN objs' \ {1} :
          RunningIn(objs', o) /\ objs'[o].name \notin conf /\ ParentOf[objs'[o].name] \in conf =>
            \/ Pend(reload.steps, "mark", o)
            \/ Pend(reload.steps, "prune", ParentOf[objs'[o].name])
            \/ reload.at[ParentOf[objs'[o].name]] = Nil
    BY <1>1, <1>2, <1>3, <2>1 DEF WalkOf
  <2> QED
    BY <2>1, <2>3, <2>4, <2>5 DEF WalkOf
<1>8. ASSUME applied
      PROVE  ~Reloading /\ AppliedOf(objs', conf)
  <2>1. ~Reloading /\ AppliedOf(objs, conf)
    BY <1>8 DEF TreeInv
  <2> QED
    BY <1>1, <1>2, <1>3, <2>1 DEF AppliedOf
<1>9. Reloading' = Reloading
  BY DEF Reloading
<1> QED
  BY <1>4, <1>6, <1>7, <1>8, <1>9 DEF TreeInv

(* The configuration that an update starts with: its names are new, or     *)
(* those of managed queues that do not drain.                              *)
LEMMA StartReloadTree ==
  ASSUME TreeInv, ConfigsApart, TypeInv', NEW c \in Configs, StartReload(c)
  PROVE  TreeInv'
<1> DEFINE at == [NoReload.at EXCEPT ![Root] = 1]
           steps == UpdateSteps(Root, c)
<1>1. /\ UNCHANGED <<objs, sched, cleaner>> /\ conf' = c /\ applied' = FALSE
      /\ reload' = [NoReload EXCEPT !.steps = steps, !.at[Root] = 1] /\ ~Reloading
      /\ \A n \in c : Fresh(n) /\ ~Draining(n)
  BY DEF StartReload, ConfigsApart
<1>2. reload'.steps = steps /\ reload'.at = at
  BY <1>1 DEF NoReload
<1>3. /\ Linkage /\ Shape /\ QueuesOf(objs, conf) /\ Ids = DOMAIN objs /\ reload.steps = <<>>
      /\ DrainOf(objs, reload.steps)
  BY <1>1 DEF TreeInv, TypeInv, Ids, Reloading
<1>4. c \subseteq Names /\ Root \in c /\ \A n \in c \ {Root} : ParentOf[n] \in c
  BY NamesAssumption
<1>5. ASSUME NEW o \in Ids, objs[o].name \in c
      PROVE  RunningIn(objs, o)
  <2> DEFINE n == objs[o].name
  <2>1. n \in Names /\ Fresh(n) /\ ~Draining(n)
    BY <1>1, <1>4, <1>5
  <2>2. GetQueue[n] # Nil
    BY <2>1 DEF Fresh
  <2>3. GetQueue[n] = o
    <3>1. GetQueue[n] \in Ids /\ objs[GetQueue[n]].name = n
      BY <1>3, <2>1, <2>2, FoundAttached
    <3> QED
      BY <1>3, <3>1, ShapeFacts
  <2>4. objs[o].state # "Draining"
    BY <2>1, <2>2, <2>3 DEF Draining
  <2>5. objs[o].state \in {"Active", "Draining"}
    BY <1>3, LinkageFacts DEF QueueInfo
  <2>6. objs[o].managed
    BY <1>3, <1>5 DEF QueuesOf, ConfigsApart
  <2> QED
    BY <2>4, <2>5, <2>6 DEF RunningIn
<1>6. QueuesOf(objs, c)
  BY <1>3, <1>5 DEF QueuesOf
<1>7. \A o : ~Pend(reload.steps, "mark", o)
  BY <1>3, NothingPends
<1>8. DrainOf(objs, steps)
  BY <1>3, <1>7 DEF DrainOf
<1>9. /\ Down(steps)
      /\ \A do, on : Pend(steps, do, on) <=> \/ do = "update" /\ on \in Children(Root) \cap c
                                             \/ do = "prune" /\ on = Root
  BY PendUpdateSteps
<1>10. MarksFirst(steps)
  BY <1>9 DEF Down, MarksFirst
<1>11. \A n \in Names : at[n] = IF n = Root THEN 1 ELSE Nil
  BY DEF NoReload
<1>12. WalkOf(objs, c, steps, at)
  <2>1. \A n \in c \ {Root} : at[ParentOf[n]] # Nil => Pend(steps, "update", n)
    BY <1>4, <1>9, <1>11, NamesAssumption DEF Children
  <2>2. at[Root] = 1 /\ objs[1].name = Root /\ 1 # Nil
    BY <1>3, <1>4, <1>11, LinkageFacts DEF Nil
  <2>3. \A o : ~Pend(steps, "mark", o)
    BY <1>9
  <2>4. Pend(steps, "prune", Root)
    BY <1>9
  <2> HIDE DEF at, steps
  <2> QED
    BY <1>4, <1>11, <2>1, <2>2, <2>3, <2>4 DEF WalkOf
<1>13. Shape' /\ CleanerInv' /\ SchedNamed'
  BY <1>1 DEF TreeInv, Shape, CleanerInv, SchedNamed
<1> HIDE DEF at, steps
<1> QED
  BY <1>1, <1>2, <1>6, <1>8, <1>10, <1>12, <1>13 DEF TreeInv

(* One queue of the configuration has been found or made.                  *)
LEMMA UpdatedWalk ==
  ASSUME TreeInv, Step("update"), Linkage', Shape', Ids \subseteq Ids',
         NEW n, n = Head(reload.steps).on, NEW k \in Ids', objs'[k].name = n,
         \A o \in Ids : /\ objs'[o].name = objs[o].name /\ objs'[o].parent = objs[o].parent
                        /\ RunningIn(objs', o) <=> RunningIn(objs, o)
         , \A o \in Ids' \ Ids : o = k /\ objs'[k].parent = reload.at[ParentOf[n]]
  PROVE  LET steps == UpdateSteps(n, conf) \o Tail(reload.steps) IN
         /\ DrainOf(objs', steps) /\ MarksFirst(steps)
         /\ WalkOf(objs', conf, steps, [reload.at EXCEPT ![n] = k])
<1> DEFINE steps == UpdateSteps(n, conf) \o Tail(reload.steps)
           at == [reload.at EXCEPT ![n] = k]
           rest == Tail(reload.steps)
<1>0. /\ Linkage /\ Shape /\ QueuesOf(objs, conf) /\ Ids = DOMAIN objs /\ Ids' = DOMAIN objs' /\ Refs /\ Plain
      /\ DrainOf(objs, reload.steps) /\ MarksFirst(reload.steps) /\ Reloading
      /\ WalkOf(objs, conf, reload.steps, reload.at)
  BY DEF TreeInv, TypeInv, Ids, Step
<1>1. /\ reload.steps # <<>> /\ rest \in Seq(Task(conf, reload.at, Ids))
      /\ Head(reload.steps) = [do |-> "update", on |-> n]
      /\ n \in conf \ {Root} /\ reload.at[ParentOf[n]] \in Ids
      /\ conf \in Configs /\ conf \subseteq Names
  BY <1>0, StepFacts
<1>2. reload.at \in [Names -> Ids \cup {Nil}] /\ reload.steps \in Seq(Task(conf, reload.at, Ids))
  BY <1>0 DEF Refs
<1>3. \A do, on : Pend(reload.steps, do, on) <=> (do = "update" /\ on = n) \/ Pend(rest, do, on)
  <2> SUFFICES ASSUME NEW do, NEW on
               PROVE  Pend(reload.steps, do, on) <=> (do = "update" /\ on = n) \/ Pend(rest, do, on)
    OBVIOUS
  <2>1. Pend(reload.steps, do, on) <=> Head(reload.steps) = [do |-> do, on |-> on] \/ Pend(rest, do, on)
    BY <1>1, <1>2, PendRest
  <2>2. [do |-> "update", on |-> n] = [do |-> do, on |-> on] <=> do = "update" /\ on = n
    OBVIOUS
  <2> QED
    BY <1>1, <2>1, <2>2
<1>4. Down(rest)
  BY <1>0, <1>1, <1>2, MarksFirstRest
<1>5. /\ Down(UpdateSteps(n, conf))
      /\ \A do, on : Pend(UpdateSteps(n, conf), do, on) <=>
           \/ do = "update" /\ on \in Children(n) \cap conf
           \/ do = "prune" /\ on = n
  BY <1>1, PendUpdateSteps
<1>6. at \in [Names -> Ids' \cup {Nil}] /\ at[n] = k /\ \A m \in Names : m # n => at[m] = reload.at[m]
  BY <1>1, <1>2
<1> HIDE DEF at
<1>7. \E T : UpdateSteps(n, conf) \in Seq(T) /\ rest \in Seq(T)
  <2>1. \A m \in Names : reload.at[m] \in Ids => at[m] \in Ids'
    BY <1>6
  <2>2. rest \in Seq(Task(conf, at, Ids'))
    BY <1>1, <2>1, MoreTasks
  <2>3. UpdateSteps(n, conf) \in Seq(Task(conf, at, Ids'))
    BY <1>1, <1>6, UpdateStepsTyped
  <2> QED
    BY <2>2, <2>3
<1>8. MarksFirst(steps)
  BY <1>4, <1>5, <1>7, MarksFirstJoined
<1>9. \A do, on : Pend(steps, do, on) <=> \/ do = "update" /\ on \in Children(n) \cap conf
                                          \/ do = "prune" /\ on = n
                                          \/ Pend(rest, do, on)
  <2> SUFFICES ASSUME NEW do, NEW on
               PROVE  Pend(steps, do, on) <=> \/ do = "update" /\ on \in Children(n) \cap conf
                                              \/ do = "prune" /\ on = n
                                              \/ Pend(rest, do, on)
    OBVIOUS
  <2>1. Pend(steps, do, on) <=> Pend(UpdateSteps(n, conf), do, on) \/ Pend(rest, do, on)
    BY <1>7, PendJoined
  <2> QED
    BY <1>5, <2>1
<1> HIDE DEF steps, rest
<1>10. \A o : Pend(steps, "mark", o) <=> Pend(reload.steps, "mark", o)
  BY <1>3, <1>9
<1>11. \A m : Pend(steps, "prune", m) <=> m = n \/ Pend(reload.steps, "prune", m)
  BY <1>3, <1>9
<1>12. \A o \in Ids \ {1} : objs[o].parent \in Ids
  BY <1>0, ShapeFacts
<1>13. DrainOf(objs', steps)
  <2> SUFFICES ASSUME NEW o \in DOMAIN objs' \ {1}, RunningIn(objs', o)
               PROVE  RunningIn(objs', objs'[o].parent) \/ Pend(steps, "mark", o)
    BY DEF DrainOf
  <2>1. CASE o \in Ids
    BY <1>0, <1>10, <1>12, <2>1 DEF DrainOf
  <2>2. CASE o \notin Ids
    <3>1. objs'[o].parent = reload.at[ParentOf[n]] /\ reload.at[ParentOf[n]] \in Ids
      BY <1>0, <1>1, <2>2
    <3>2. objs[reload.at[ParentOf[n]]].name \in conf
      <4>1. ParentOf[n] \in conf
        BY <1>1, NamesAssumption
      <4> QED
        BY <1>0, <1>1, <3>1, <4>1, LinkageFacts DEF WalkOf
    <3>3. RunningIn(objs, reload.at[ParentOf[n]])
      BY <1>0, <3>1, <3>2 DEF QueuesOf
    <3> QED
      BY <3>1, <3>3
  <2> QED
    BY <2>1, <2>2
<1>14. WalkOf(objs', conf, steps, at)
  <2>1. at[Root] # Nil
    BY <1>0, <1>1, <1>6, NamesAssumption DEF WalkOf
  <2>2. \A m \in Names : at[m] # Nil => m \in conf /\ objs'[at[m]].name = m
    BY <1>0, <1>1, <1>2, <1>6 DEF WalkOf
  <2>3. \A m \in conf \ {Root} : at[ParentOf[m]] # Nil => at[m] # Nil \/ Pend(steps, "update", m)
    <3> SUFFICES ASSUME NEW m \in conf \ {Root}, at[ParentOf[m]] # Nil
                 PROVE  at[m] # Nil \/ Pend(steps, "update", m)
      OBVIOUS
    <3>0. ParentOf[m] \in Names /\ m \in Names
      BY <1>1, NamesAssumption
    <3>1. CASE ParentOf[m] = n
      <4>1. m \in Children(n) \cap conf
        BY <3>0, <3>1 DEF Children
      <4> QED
        BY <1>9, <4>1
    <3>2. CASE ParentOf[m] # n
      <4>1. reload.at[m] # Nil \/ Pend(reload.steps, "update", m)
        BY <1>0, <1>6, <3>0, <3>2 DEF WalkOf
      <4>2. n \in Names /\ at[n] # Nil
        BY <1>1, <1>6, <1>0, LinkageFacts, k \in Ids' DEF Linkage, LinkageOf, Nil
      <4> QED
        BY <1>3, <1>6, <1>9, <3>0, <4>1, <4>2
    <3> QED
      BY <3>1, <3>2
  <2>4. \A o \in DOMAIN objs' : Pend(steps, "mark", o) => objs'[o].name \notin conf
    <3> SUFFICES ASSUME NEW o \in DOMAIN objs', Pend(steps, "mark", o)
                 PROVE  objs'[o].name \notin conf
      OBVIOUS
    <3>1. Pend(reload.steps, "mark", o)
      BY <1>10
    <3>2. o \in Ids
      <4>1. PICK i \in DOMAIN reload.steps : reload.steps[i] = [do |-> "mark", on |-> o]
        BY <3>1 DEF Pend
      <4>2. reload.steps[i] \in Task(conf, reload.at, Ids)
        BY <1>2, <4>1
      <4> QED
        BY <4>1, <4>2 DEF Task
    <3> QED
      BY <1>0, <3>1, <3>2 DEF WalkOf
  <2>5. \A o \in DOMAIN objs' \ {1} :
          RunningIn(objs', o) /\ objs'[o].name \notin conf /\ ParentOf[objs'[o].name] \in conf =>
            \/ Pend(steps, "mark", o)
            \/ Pend(steps, "prune", ParentOf[objs'[o].name])
            \/ at[ParentOf[objs'[o].name]] = Nil
    <3> SUFFICES ASSUME NEW o \in DOMAIN objs' \ {1}, RunningIn(objs', o), objs'[o].name \notin conf,
                        ParentOf[objs'[o].name] \in conf, ParentOf[objs'[o].name] # n
                 PROVE  \/ Pend(steps, "mark", o)
                        \/ Pend(steps, "prune", ParentOf[objs'[o].name])
                        \/ at[ParentOf[objs'[o].name]] = Nil
      BY <1>11
    <3>1. o \in Ids
      BY <1>0, <1>1
    <3>2. \/ Pend(reload.steps, "mark", o)
          \/ Pend(reload.steps, "prune", ParentOf[objs[o].name])
          \/ reload.at[ParentOf[objs[o].name]] = Nil
      BY <1>0, <3>1 DEF WalkOf
    <3> QED
      BY <1>1, <1>6, <1>10, <1>11, <3>1, <3>2
  <2> QED
    BY <2>1, <2>2, <2>3, <2>4, <2>5 DEF WalkOf
<1> QED
  BY <1>8, <1>13, <1>14 DEF steps, rest, at

(* Changes that leave the tree itself alone. *)
LEMMA SameShape ==
  ASSUME Linkage, Shape, Ids' = Ids,
         \A o \in Ids : /\ objs'[o].name = objs[o].name /\ objs'[o].parent = objs[o].parent
                        /\ objs'[o].children = objs[o].children
  PROVE  Shape' /\ \A o \in Ids : AttachedIn(objs', o) <=> Attached(o)
<1>1. 1 \in Ids /\ Ids = DOMAIN objs /\ DOMAIN objs' = DOMAIN objs /\ ShapeOf(objs)
  BY LinkageFacts DEF Ids, Shape
<1>2. \A o \in Ids : AttachedIn(objs', o) <=> Attached(o)
  BY <1>1, ShapeFacts DEF AttachedIn, Attached
<1>3. ShapeOf(objs')
  <2>1. \A o \in DOMAIN objs' \ {1} : /\ objs'[o].parent \in DOMAIN objs' /\ objs'[o].name # Root
                                      /\ objs'[objs'[o].parent].name = ParentOf[objs'[o].name]
    BY <1>1 DEF ShapeOf
  <2> QED
    BY <1>1, <1>2, <2>1 DEF ShapeOf, Attached
<1> QED
  BY <1>2, <1>3 DEF Shape

(* The queue that a step of the update is about. *)
LEMMA UpdateQueueTree ==
  ASSUME TreeInv, ConfigsApart, TypeInv', UpdateQueue
  PROVE  TreeInv'
<1> DEFINE n == Head(reload.steps).on
           o == GetQueue[n]
           parent == reload.at[ParentOf[n]]
           leaf == n \notin Parents /\ Children(n) \cap conf = {}
           steps == UpdateSteps(n, conf) \o Tail(reload.steps)
<1>0. /\ Linkage /\ Shape /\ QueuesOf(objs, conf) /\ Ids = DOMAIN objs /\ Refs /\ Plain /\ TypeInv
      /\ DrainOf(objs, reload.steps) /\ MarksFirst(reload.steps) /\ Reloading /\ Step("update")
      /\ WalkOf(objs, conf, reload.steps, reload.at) /\ ~applied
  BY DEF TreeInv, TypeInv, Ids, Step, UpdateQueue
<1>1. /\ reload.steps # <<>> /\ Head(reload.steps) = [do |-> "update", on |-> n]
      /\ n \in conf \ {Root} /\ parent \in Ids
      /\ conf \in Configs /\ conf \subseteq Names /\ Linkage'
  BY <1>0, StepFacts DEF TypeInv
<1>2. reload.at \in [Names -> Ids \cup {Nil}] /\ reload.steps \in Seq(Task(conf, reload.at, Ids))
  BY <1>0 DEF Refs
<1>3. ParentOf[n] \in conf /\ objs[parent].name = ParentOf[n] /\ Attached(parent)
  <2>1. ParentOf[n] \in conf /\ ParentOf[n] \in Names
    BY <1>1, NamesAssumption
  <2>2. objs[parent].name = ParentOf[n]
    BY <1>0, <1>1, <2>1, LinkageFacts DEF WalkOf
  <2> QED
    BY <1>0, <1>1, <2>1, <2>2 DEF QueuesOf, Attached
(* The update goes on with the object k. *)
<1>4. ASSUME NEW k \in Ids', Ids \subseteq Ids', Shape', objs'[k].name = n,
             Continue(steps, [reload.at EXCEPT ![n] = k]),
             \A i \in Ids : /\ objs'[i].name = objs[i].name /\ objs'[i].parent = objs[i].parent
                            /\ RunningIn(objs', i) <=> RunningIn(objs, i)
             , \A i \in Ids' \ Ids : i = k /\ objs'[k].parent = parent,
             QueuesOf(objs', conf), CleanerInv'
      PROVE  TreeInv'
  <2> DEFINE at == [reload.at EXCEPT ![n] = k]
  <2>1. at \in [Names -> Ids' \cup {Nil}]
    BY <1>1, <1>2, <1>4
  <2>2. DrainOf(objs', steps) /\ MarksFirst(steps) /\ WalkOf(objs', conf, steps, at)
    BY <1>0, <1>1, <1>4, UpdatedWalk
  <2>3. SchedNamed'
    <3>1. sched' = sched
      BY <1>4 DEF Continue
    <3> QED
      BY <1>4, <3>1, SchedKeptNamed
  <2>4. Continue(steps, at)
    BY <1>4
  <2> HIDE DEF at, steps, n
  <2> QED
    BY <1>4, <2>1, <2>2, <2>3, <2>4, ContinueTree
<1>5. CASE /\ o # Nil
           /\ objs' = [objs EXCEPT ![o].managed = TRUE,
                                   ![o].leaf = @ /\ Children(n) \cap conf = {}]
           /\ Continue(steps, [reload.at EXCEPT ![n] = o])
  <2>1. o \in Ids /\ objs[o].name = n
    BY <1>0, <1>1, <1>5, FoundAttached
  <2>2. /\ Ids' = Ids
        /\ \A i \in Ids : /\ objs'[i].name = objs[i].name /\ objs'[i].parent = objs[i].parent
                          /\ objs'[i].state = objs[i].state /\ objs'[i].alloc = objs[i].alloc
                          /\ objs'[i].children = objs[i].children
                          /\ objs'[i].managed = IF i = o THEN TRUE ELSE objs[i].managed
    BY <1>0, <1>5, <2>1, Updated
  <2>3. RunningIn(objs, o)
    BY <1>0, <1>1, <2>1 DEF QueuesOf
  <2>4. \A i \in Ids : RunningIn(objs', i) <=> RunningIn(objs, i)
    BY <2>2, <2>3 DEF RunningIn
  <2>5. Shape' /\ \A i \in Ids : AttachedIn(objs', i) <=> Attached(i)
    BY <1>0, <2>2, SameShape
  <2>6. QueuesOf(objs', conf)
    <3>1. objs[o].managed
      BY <2>3 DEF RunningIn
    <3>2. \A i \in Ids : objs[i].name \in IF objs[i].managed THEN UNION Configs ELSE Created
      BY <1>0 DEF QueuesOf
    <3>3. \A i \in Ids : objs'[i].name \in IF objs'[i].managed THEN UNION Configs ELSE Created
      BY <2>1, <2>2, <3>1, <3>2
    <3>4. DOMAIN objs' = Ids
      BY <2>2 DEF Ids
    <3> QED
      BY <1>0, <2>2, <2>4, <2>5, <3>3, <3>4 DEF QueuesOf, Attached
  <2>7. CleanerInv'
    <3>1. cleaner' = cleaner /\ (cleaner.phase # "idle" => cleaner.queue \in Ids)
      BY <1>0, <1>5 DEF Continue, Refs
    <3>2. cleaner.phase = "unlink" => cleaner.queue \in Ids
      BY <3>1
    <3> HIDE DEF o, n
    <3> QED
      BY <2>2, <2>4, <3>1, <3>2, CleanerKept
  <2> HIDE DEF o, n, parent, steps
  <2> QED
    BY <1>4, <1>5, <2>1, <2>2, <2>4, <2>5, <2>6, <2>7
<1>6. CASE /\ o = Nil /\ Free(parent)
           /\ objs' = WithChild(objs, parent, n, NewQueue(n, parent, leaf, TRUE))
           /\ Continue(steps, [reload.at EXCEPT ![n] = Len(objs) + 1])
  <2> DEFINE q == NewQueue(n, parent, leaf, TRUE)
             k == Len(objs) + 1
  <2>1. /\ q \in QueueInfo /\ q.parent = parent /\ q.children = {} /\ q.name = n
        /\ q.managed /\ q.state = "Active"
    BY <1>0, <1>1, LinkageFacts DEF NewQueue, QueueInfo
  <2>2. \A i \in DOMAIN objs : objs[i].name # n
    <3> SUFFICES ASSUME NEW i \in Ids, objs[i].name = n
                 PROVE  FALSE
      BY <1>0
    <3>1. Attached(i)
      BY <1>0, <1>1 DEF QueuesOf, Attached
    <3>2. GetQueue[n] = i
      BY <1>0, <3>1, AttachedFound
    <3> QED
      BY <1>0, <1>6, <3>2, LinkageFacts
  <2> HIDE DEF q
  <2>3. Addable(objs, parent, n, q)
    BY <1>0, <1>1, <1>3, <2>1, <2>2 DEF Addable, Linkage, Shape, Attached
  <2>4. OneAdded(objs, parent, q, objs')
    BY <1>6, <2>3, AddShape DEF q
  <2>5. /\ Shape' /\ Ids' = Ids \cup {k} /\ k \notin Ids /\ objs'[k] = q /\ AttachedIn(objs', k)
        /\ DOMAIN objs' = Ids \cup {k}
        /\ \A i \in Ids : /\ SameBut(objs'[i], objs[i])
                          /\ i # parent => objs'[i].children = objs[i].children
                          /\ Attached(i) => AttachedIn(objs', i)
    BY <1>0, <2>4 DEF OneAdded, Shape, Ids, Attached
  <2> HIDE DEF k
  <2>6. \A i \in Ids : /\ objs'[i].name = objs[i].name /\ objs'[i].parent = objs[i].parent
                       /\ objs'[i].managed = objs[i].managed /\ objs'[i].alloc = objs[i].alloc
                       /\ RunningIn(objs', i) <=> RunningIn(objs, i)
    BY <2>5 DEF SameBut, RunningIn
  <2>7. RunningIn(objs', k)
    BY <2>1, <2>5 DEF RunningIn
  <2>8. QueuesOf(objs', conf)
    <3>1. objs'[k].name \in IF objs'[k].managed THEN UNION Configs ELSE Created
      BY <1>1, <2>1, <2>5
    <3>2. \A i \in Ids : objs'[i].name \in IF objs'[i].managed THEN UNION Configs ELSE Created
      BY <1>0, <2>6 DEF QueuesOf
    <3>3. \A i \in DOMAIN objs' : RunningIn(objs', i) => AttachedIn(objs', i)
      BY <1>0, <2>5, <2>6 DEF QueuesOf, Attached
    <3>4. \A i \in DOMAIN objs' : objs'[i].name \in conf => RunningIn(objs', i)
      BY <1>0, <2>5, <2>6, <2>7 DEF QueuesOf
    <3> QED
      BY <2>5, <3>1, <3>2, <3>3, <3>4 DEF QueuesOf
  <2>9. CleanerInv'
    <3>1. cleaner' = cleaner /\ (cleaner.phase # "idle" => cleaner.queue \in Ids)
      BY <1>0, <1>6 DEF Continue, Refs
    <3>2. cleaner.phase = "unlink" => cleaner.queue \in Ids /\ cleaner.queue # parent
      BY <1>6, <3>1 DEF Free, CleanerHolds
    <3> HIDE DEF o, n, parent
    <3> QED
      BY <2>5, <2>6, <3>1, <3>2, CleanerKept
  <2>10. k \in Ids' /\ Ids \subseteq Ids' /\ objs'[k].name = n /\ objs'[k].parent = parent
         /\ \A i \in Ids' \ Ids : i = k
    BY <2>1, <2>5
  <2>11. Continue(steps, [reload.at EXCEPT ![n] = k])
    BY <1>6 DEF k
  <2> HIDE DEF o, n, parent, steps
  <2> QED
    BY <1>4, <2>5, <2>6, <2>8, <2>9, <2>10, <2>11
<1>7. CASE Abort
  <2>1. UNCHANGED <<objs, sched, conf, applied, cleaner>> /\ reload' = NoReload
    BY <1>7 DEF Abort
  <2>2. reload'.steps = <<>> /\ ~Reloading'
    BY <2>1 DEF NoReload, Reloading
  <2>3. Down(Tail(reload.steps))
    BY <1>1, <1>2, <1>0, MarksFirstRest
  <2>4. \A i : ~Pend(reload.steps, "mark", i)
    <3> SUFFICES ASSUME NEW i, Pend(reload.steps, "mark", i)
                 PROVE  FALSE
      OBVIOUS
    <3>1. Head(reload.steps) = [do |-> "mark", on |-> i] \/ Pend(Tail(reload.steps), "mark", i)
      BY <1>1, <1>2, PendRest
    <3>2. Head(reload.steps).do # "mark"
      BY <1>1
    <3>3. Head(reload.steps) # [do |-> "mark", on |-> i]
      BY <3>2
    <3> QED
      BY <2>3, <3>1, <3>3 DEF Pend, Down
  <2>5. DrainOf(objs, <<>>)
    BY <1>0, <2>4 DEF DrainOf
  <2>6. MarksFirst(<<>>)
    BY DEF MarksFirst
  <2>7. Shape' /\ CleanerInv' /\ SchedNamed' /\ QueuesOf(objs', conf') /\ DrainOf(objs', reload'.steps)
    BY <1>0, <2>1, <2>2, <2>5 DEF TreeInv, Shape, CleanerInv, SchedNamed
  <2> QED
    BY <1>0, <2>1, <2>2, <2>6, <2>7 DEF TreeInv
<1> QED
  BY <1>5, <1>6, <1>7 DEF UpdateQueue

(* The first step of an update and what comes after it.                    *)
LEMMA HeadAndRest ==
  ASSUME TreeInv, NEW do, Step(do)
  PROVE  LET rest == Tail(reload.steps) IN
         /\ rest \in Seq(Task(conf, reload.at, Ids)) /\ MarksFirst(rest)
         /\ do \in {"update", "prune"} => Down(rest)
         /\ \A d, on : Pend(reload.steps, d, on) <=> (d = do /\ on = Head(reload.steps).on) \/ Pend(rest, d, on)
<1>0. Linkage /\ Refs /\ Plain /\ MarksFirst(reload.steps)
  BY DEF TreeInv, TypeInv
<1>1. /\ reload.steps # <<>> /\ Tail(reload.steps) \in Seq(Task(conf, reload.at, Ids))
      /\ Head(reload.steps) = [do |-> do, on |-> Head(reload.steps).on]
  BY <1>0, StepFacts
<1>2. reload.steps \in Seq(Task(conf, reload.at, Ids))
  BY <1>0 DEF Refs
<1>3. MarksFirst(Tail(reload.steps)) /\ (do \in {"update", "prune"} => Down(Tail(reload.steps)))
  BY <1>0, <1>1, <1>2, MarksFirstRest
<1>4. ASSUME NEW d, NEW on
      PROVE  Pend(reload.steps, d, on) <=> (d = do /\ on = Head(reload.steps).on) \/ Pend(Tail(reload.steps), d, on)
  <2>1. Pend(reload.steps, d, on) <=> Head(reload.steps) = [do |-> d, on |-> on] \/ Pend(Tail(reload.steps), d, on)
    BY <1>1, <1>2, PendRest
  <2>2. [do |-> do, on |-> Head(reload.steps).on] = [do |-> d, on |-> on] <=> d = do /\ on = Head(reload.steps).on
    OBVIOUS
  <2> QED
    BY <1>1, <2>1, <2>2
<1> QED
  BY <1>1, <1>3, <1>4

(* A step that changes no queue. *)
LEMMA WalkTree ==
  ASSUME TreeInv, TypeInv', UNCHANGED objs, NEW steps, Continue(steps, reload.at), MarksFirst(steps),
         DrainOf(objs, steps), WalkOf(objs, conf, steps, reload.at)
  PROVE  TreeInv'
<1>1. Ids' = Ids /\ Refs /\ Shape /\ QueuesOf(objs, conf)
  BY DEF Ids, TreeInv, TypeInv
<1>2. sched' = sched /\ cleaner' = cleaner
  BY DEF Continue
<1>3. CleanerInv' /\ SchedNamed' /\ Shape'
  BY <1>1, <1>2 DEF TreeInv, CleanerInv, SchedNamed, Shape
<1>4. reload.at \in [Names -> Ids' \cup {Nil}]
  BY <1>1 DEF Refs
<1>5. QueuesOf(objs', conf) /\ DrainOf(objs', steps) /\ WalkOf(objs', conf, steps, reload.at)
  BY <1>1
<1> QED
  BY <1>3, <1>4, <1>5, ContinueTree

(* The removal of what the configuration no longer has: the managed        *)
(* children that it does not name are to be marked, and nothing else of the*)
(* queue is left to do.                                                    *)
LEMMA PruneQueuesTree ==
  ASSUME TreeInv, ConfigsApart, TypeInv', PruneQueues
  PROVE  TreeInv'
<1> DEFINE n == Head(reload.steps).on
           gone == { c \in objs[reload.at[n]].children : objs[c].name \notin Visited }
           rest == Tail(reload.steps)
           steps == Steps("mark", gone) \o rest
<1>0. /\ Linkage /\ Shape /\ QueuesOf(objs, conf) /\ Ids = DOMAIN objs /\ Refs /\ Plain
      /\ DrainOf(objs, reload.steps) /\ Reloading /\ Step("prune")
      /\ WalkOf(objs, conf, reload.steps, reload.at)
  BY DEF TreeInv, TypeInv, Ids, Step, PruneQueues
<1>1. /\ n \in conf /\ reload.at[n] \in Ids /\ conf \subseteq Names
  BY <1>0, StepFacts
<1>11. Visited = conf
  BY <1>0 DEF Visited, ConfigsApart, Plain
<1>2. /\ rest \in Seq(Task(conf, reload.at, Ids)) /\ Down(rest)
      /\ \A d, on : Pend(reload.steps, d, on) <=> (d = "prune" /\ on = n) \/ Pend(rest, d, on)
  BY <1>0, HeadAndRest
<1>3. gone \in SUBSET Ids /\ IsFiniteSet(gone)
  BY <1>0, <1>1, LinkageFacts, QueuesFinite
<1>4. Steps("mark", gone) \in Seq(Task(conf, reload.at, Ids)) /\ Marks(Steps("mark", gone))
      /\ \A d, on : Pend(Steps("mark", gone), d, on) <=> d = "mark" /\ on \in gone
  <2> HIDE DEF gone
  <2> QED
    BY <1>3, MarkStepsTyped, StepsDown, PendSteps DEF Marks
<1>5. \A d, on : Pend(steps, d, on) <=> (d = "mark" /\ on \in gone) \/ Pend(rest, d, on)
  <2> SUFFICES ASSUME NEW d, NEW on
               PROVE  Pend(steps, d, on) <=> (d = "mark" /\ on \in gone) \/ Pend(rest, d, on)
    OBVIOUS
  <2>1. Pend(steps, d, on) <=> Pend(Steps("mark", gone), d, on) \/ Pend(rest, d, on)
    <3> HIDE DEF gone, rest
    <3> QED
      BY <1>2, <1>4, PendJoined
  <2> QED
    BY <1>4, <2>1
<1>6. MarksFirst(steps)
  <2> HIDE DEF gone, rest
  <2> QED
    BY <1>2, <1>4, MarksFirstJoined
<1>7. Continue(steps, reload.at) /\ UNCHANGED objs
  BY DEF PruneQueues
<1>8. ASSUME NEW o \in Ids \ {1}, RunningIn(objs, o), objs[o].name \notin conf, ParentOf[objs[o].name] = n
      PROVE  o \in gone
  <2>1. o \in objs[objs[o].parent].children
    BY <1>0, <1>8 DEF QueuesOf, AttachedIn
  <2>2. objs[o].parent \in Ids /\ objs[objs[o].parent].name = n
    BY <1>0, <1>8, ShapeFacts
  <2>3. objs[reload.at[n]].name = n
    BY <1>0, <1>1, LinkageFacts DEF WalkOf
  <2>4. objs[o].parent = reload.at[n]
    BY <1>0, <1>1, <2>2, <2>3, ShapeFacts
  <2> QED
    BY <1>8, <1>11, <2>1, <2>4
<1> HIDE DEF steps, rest
<1>9. DrainOf(objs, steps)
  BY <1>0, <1>2, <1>5 DEF DrainOf
<1>10. WalkOf(objs, conf, steps, reload.at)
  <2>1. \A m \in conf \ {Root} : reload.at[ParentOf[m]] # Nil => reload.at[m] # Nil \/ Pend(steps, "update", m)
    BY <1>0, <1>2, <1>5 DEF WalkOf
  <2>2. \A o \in DOMAIN objs : Pend(steps, "mark", o) => objs[o].name \notin conf
    BY <1>0, <1>2, <1>5, <1>11 DEF WalkOf
  <2>3. \A o \in DOMAIN objs \ {1} :
          RunningIn(objs, o) /\ objs[o].name \notin conf /\ ParentOf[objs[o].name] \in conf =>
            \/ Pend(steps, "mark", o)
            \/ Pend(steps, "prune", ParentOf[objs[o].name])
            \/ reload.at[ParentOf[objs[o].name]] = Nil
    <3> HIDE DEF gone, n
    <3> QED
      BY <1>0, <1>2, <1>5, <1>8 DEF WalkOf
  <2> QED
    BY <1>0, <2>1, <2>2, <2>3 DEF WalkOf
<1> QED
  BY <1>6, <1>7, <1>9, <1>10, WalkTree

(* Children of a queue that goes are not configured either. *)
LEMMA MarkQueueForRemovalTree ==
  ASSUME TreeInv, ConfigsApart, TypeInv', MarkQueueForRemoval
  PROVE  TreeInv'
<1> DEFINE o == Head(reload.steps).on
           rest == Tail(reload.steps)
           T == Task(conf, reload.at, Ids)
           unlock == [do |-> "unlock", on |-> o]
           marks == Steps("mark", objs[o].children)
           steps == marks \o <<unlock>> \o rest
<1>0. /\ Linkage /\ Shape /\ QueuesOf(objs, conf) /\ Ids = DOMAIN objs /\ Refs /\ Plain
      /\ DrainOf(objs, reload.steps) /\ Reloading /\ Step("mark")
      /\ WalkOf(objs, conf, reload.steps, reload.at)
  BY DEF TreeInv, TypeInv, Ids, Step, MarkQueueForRemoval
<1>1. o \in Ids /\ conf \subseteq Names /\ conf \in Configs
  BY <1>0, StepFacts
<1>2. /\ rest \in Seq(T) /\ MarksFirst(rest)
      /\ \A d, on : Pend(reload.steps, d, on) <=> (d = "mark" /\ on = o) \/ Pend(rest, d, on)
  BY <1>0, HeadAndRest
<1>3. objs[o].name \notin conf
  BY <1>0, <1>1, <1>2 DEF WalkOf
<1> HIDE DEF rest
<1>4. CASE objs[o].managed
  <2>1. objs[o].children \in SUBSET Ids /\ IsFiniteSet(objs[o].children)
    BY <1>0, <1>1, LinkageFacts, QueuesFinite
  <2>2. <<unlock>> \in Seq(T)
    BY <1>1 DEF Task
  <2>3. /\ marks \in Seq(T)
        /\ \A d, on : Pend(marks, d, on) <=> d = "mark" /\ on \in objs[o].children
        /\ \A i \in DOMAIN marks : marks[i].do = "mark"
    BY <2>1, MarkStepsTyped, StepsDown, PendSteps
  <2>4. \A d, on : Pend(<<unlock>>, d, on) => d = "unlock"
    <3> SUFFICES ASSUME NEW d, NEW on, Pend(<<unlock>>, d, on)
                 PROVE  d = "unlock"
      OBVIOUS
    <3>1. unlock = [do |-> d, on |-> on]
      BY DEF Pend
    <3> QED
      BY <3>1
  <2>5. Marks(<<unlock>>)
    BY DEF Marks
  <2> HIDE DEF marks, unlock, T
  <2>6. marks \o <<unlock>> \in Seq(T)
    BY <2>2, <2>3, Joined
  <2>7. \A d, on : Pend(steps, d, on) <=> Pend(marks, d, on) \/ Pend(<<unlock>>, d, on) \/ Pend(rest, d, on)
    BY <1>2, <2>2, <2>3, <2>6, PendJoined
  <2>8. \A on : Pend(steps, "mark", on) <=> on \in objs[o].children \/ Pend(rest, "mark", on)
    BY <2>3, <2>4, <2>7
  <2>9. \A d, on : d \in {"update", "prune"} => (Pend(steps, d, on) <=> Pend(reload.steps, d, on))
    BY <1>2, <2>3, <2>4, <2>7
  <2>10. MarksFirst(steps)
    <3>1. MarksFirst(<<unlock>> \o rest)
      BY <1>2, <2>2, <2>5, MarksJoined
    <3>2. <<unlock>> \o rest \in Seq(T)
      BY <1>2, <2>2, Joined
    <3>3. Marks(marks)
      BY <2>3 DEF Marks
    <3>4. Marks(marks \o <<unlock>>)
      <4>1. \A i \in DOMAIN (marks \o <<unlock>>) :
               \/ \E j \in DOMAIN marks : (marks \o <<unlock>>)[i] = marks[j]
               \/ \E j \in DOMAIN <<unlock>> : (marks \o <<unlock>>)[i] = <<unlock>>[j]
        BY <2>2, <2>3, Joined
      <4> QED
        BY <2>5, <3>3, <4>1 DEF Marks
    <3> QED
      BY <1>2, <2>6, <3>4, MarksJoined
  <2>11. objs' = [objs EXCEPT ![o].state = "Draining"] /\ Continue(steps, reload.at)
    BY <1>4 DEF MarkQueueForRemoval, marks, unlock, rest
  <2> HIDE DEF steps
  <2>12. /\ Ids' = Ids
         /\ \A i \in Ids : /\ objs'[i].name = objs[i].name /\ objs'[i].parent = objs[i].parent
                           /\ objs'[i].managed = objs[i].managed /\ objs'[i].alloc = objs[i].alloc
                           /\ objs'[i].children = objs[i].children
                           /\ objs'[i].state = IF i = o THEN "Draining" ELSE objs[i].state
    BY <1>0, <1>1, <2>11, Marked
  <2> HIDE DEF o
  <2>13. \A i \in Ids : RunningIn(objs', i) <=> RunningIn(objs, i) /\ i # o
    BY <2>12 DEF RunningIn
  <2>14. DOMAIN objs' = Ids
    BY <2>12 DEF Ids
  <2>15. Shape' /\ \A i \in Ids : AttachedIn(objs', i) <=> Attached(i)
    BY <1>0, <2>12, SameShape
  <2>16. QueuesOf(objs', conf)
    BY <1>0, <1>3, <2>12, <2>13, <2>14, <2>15 DEF QueuesOf, Attached
  <2>17. DrainOf(objs', steps)
    <3> SUFFICES ASSUME NEW i \in Ids \ {1}, RunningIn(objs, i), i # o
                 PROVE  RunningIn(objs', objs'[i].parent) \/ Pend(steps, "mark", i)
      BY <2>13, <2>14 DEF DrainOf
    <3>1. RunningIn(objs, objs[i].parent) \/ Pend(rest, "mark", i)
      BY <1>0, <1>2 DEF DrainOf
    <3>2. objs[i].parent \in Ids /\ i \in objs[objs[i].parent].children
      BY <1>0, ShapeFacts DEF QueuesOf, AttachedIn
    <3> QED
      BY <2>8, <2>12, <2>13, <3>1, <3>2
  <2>18. WalkOf(objs', conf, steps, reload.at)
    <3>1. \A m \in conf \ {Root} : reload.at[ParentOf[m]] # Nil => reload.at[m] # Nil \/ Pend(steps, "update", m)
      BY <1>0, <2>9 DEF WalkOf
    <3>2. \A i \in DOMAIN objs' : Pend(steps, "mark", i) => objs'[i].name \notin conf
      <4> SUFFICES ASSUME NEW i \in Ids, i \in objs[o].children
                   PROVE  objs[i].name \notin conf
        BY <1>0, <1>2, <2>8, <2>12, <2>14 DEF WalkOf
      <4>1. objs[i].parent = o /\ Nil \notin Ids
        BY <1>0, <1>1, LinkageFacts
      <4>2. i # 1
        BY <1>0, <1>1, <4>1, ShapeFacts
      <4>3. objs[i].name # Root /\ objs[o].name = ParentOf[objs[i].name]
        BY <1>0, <4>1, <4>2, ShapeFacts
      <4> QED
        BY <1>1, <1>3, <4>3, NamesAssumption
    <3>3. \A i \in DOMAIN objs' \ {1} :
            RunningIn(objs', i) /\ objs'[i].name \notin conf /\ ParentOf[objs'[i].name] \in conf =>
              \/ Pend(steps, "mark", i)
              \/ Pend(steps, "prune", ParentOf[objs'[i].name])
              \/ reload.at[ParentOf[objs'[i].name]] = Nil
      BY <1>0, <1>2, <2>8, <2>9, <2>12, <2>13, <2>14 DEF WalkOf
    <3>4. \A m \in Names : reload.at[m] # Nil => m \in conf /\ objs'[reload.at[m]].name = m
      BY <1>0, <2>12 DEF WalkOf, Refs
    <3> QED
      BY <1>0, <3>1, <3>2, <3>3, <3>4 DEF WalkOf
  <2>19. sched' = sched /\ cleaner' = cleaner
    BY <2>11 DEF Continue
  <2>20. CleanerInv'
    <3>1. cleaner.phase # "idle" => cleaner.queue \in Ids
      BY <1>0 DEF Refs
    <3>2. cleaner.phase = "unlink" => cleaner.queue \in Ids
      BY <3>1
    <3> QED
      BY <2>12, <2>13, <2>19, <3>2, CleanerKept
  <2>21. SchedNamed'
    BY <2>12, <2>19, SchedKeptNamed
  <2>22. reload.at \in [Names -> Ids' \cup {Nil}]
    BY <1>0, <2>12 DEF Refs
  <2> QED
    BY <2>10, <2>11, <2>15, <2>16, <2>17, <2>18, <2>20, <2>21, <2>22, ContinueTree
<1>5. CASE ~objs[o].managed
  <2>1. Continue(rest, reload.at) /\ UNCHANGED objs
    BY <1>5 DEF MarkQueueForRemoval, rest
  <2>2. ~RunningIn(objs, o)
    BY <1>5 DEF RunningIn
  <2> HIDE DEF o
  <2>3. DrainOf(objs, rest)
    BY <1>0, <1>2, <2>2 DEF DrainOf
  <2>4. WalkOf(objs, conf, rest, reload.at)
    BY <1>0, <1>2, <2>2 DEF WalkOf
  <2> QED
    BY <1>2, <2>1, <2>3, <2>4, WalkTree
<1> QED
  BY <1>4, <1>5

(* The end of MarkQueueForRemoval changes no queue.                        *)
LEMMA UnlockQueueTree ==
  ASSUME TreeInv, TypeInv', UnlockQueue
  PROVE  TreeInv'
<1> DEFINE rest == Tail(reload.steps)
<1>0. /\ DrainOf(objs, reload.steps) /\ WalkOf(objs, conf, reload.steps, reload.at) /\ Step("unlock")
  BY DEF TreeInv, Step, UnlockQueue
<1>1. /\ MarksFirst(rest)
      /\ \A d, on : Pend(reload.steps, d, on) <=> (d = "unlock" /\ on = Head(reload.steps).on) \/ Pend(rest, d, on)
  BY <1>0, HeadAndRest
<1>2. Continue(rest, reload.at) /\ UNCHANGED objs
  BY DEF UnlockQueue
<1> HIDE DEF rest
<1>3. DrainOf(objs, rest) /\ WalkOf(objs, conf, rest, reload.at)
  BY <1>0, <1>1 DEF DrainOf, WalkOf
<1> QED
  BY <1>1, <1>2, <1>3, WalkTree

(* Steps that change no queue and are no part of an update. *)
LEMMA ElsewhereTree ==
  ASSUME TreeInv, TypeInv', UNCHANGED <<objs, conf, applied, reload>>, CleanerInv', SchedNamed'
  PROVE  TreeInv'
<1>1. Shape' /\ Reloading' = Reloading
  BY DEF TreeInv, Shape, Reloading
<1> QED
  BY <1>1 DEF TreeInv

(* The queues that the scheduler gets from the cache have their names. *)
LEMMA SyncNamed ==
  ASSUME TreeInv, UNCHANGED objs, NEW S, sched' = WithSchedulingQueues(S)
  PROVE  SchedNamed'
<1>1. SchedNamed /\ Looked
  BY GetQueueLooked DEF TreeInv, TypeInv
<1> QED
  BY <1>1 DEF SchedNamed, Looked, WithSchedulingQueues

(* What the cleaner knows stays true as long as the queues and its own     *)
(* state stay.                                                             *)
LEMMA SameCleaner ==
  ASSUME TreeInv, UNCHANGED <<objs, cleaner>>
  PROVE  CleanerInv'
  BY DEF TreeInv, CleanerInv

(* What placements add are queues that can be found, below one that can.   *)
LEMMA PlaceTree ==
  ASSUME TreeInv, ConfigsApart, TypeInv', NEW app \in Apps, NEW n \in Placed, PlaceApplication(app, n)
  PROVE  TreeInv'
<1> DEFINE top == GetQueue[Existing[n]]
<1>0. Linkage /\ Shape /\ Refs /\ QueuesOf(objs, conf) /\ n \in Names /\ Ids = DOMAIN objs
  BY NamesAssumption DEF TreeInv, TypeInv, Ids
<1>1. UNCHANGED <<sched, conf, applied, reload, cleaner>>
  BY DEF PlaceApplication, confVars
<1>2. cleaner.phase = "unlink" => cleaner.queue \in Ids
  <2>1. cleaner.phase # "idle" => cleaner.queue \in Ids
    BY <1>0 DEF Refs
  <2> QED
    BY <2>1
<1>3. \A m \in NamePath[n] : (GetQueue[m] # Nil \/ m \in Created) /\ Fresh(m)
  BY DEF PlaceApplication, ConfigsApart
<1>4. CASE objs' = objs
  <2>1. CleanerInv' /\ SchedNamed'
    BY <1>1, <1>4, SameCleaner DEF TreeInv, SchedNamed
  <2> QED
    BY <1>1, <1>4, <2>1, ElsewhereTree
<1>5. CASE objs' = CreateQueues(n) /\ GetQueue[n] = Nil /\ Free(top)
  <2>1. \A m \in NamePath[n] : GetQueue[m] = Nil => \A i \in Ids : objs[i].name # m
    BY <1>3 DEF Fresh
  <2>2. /\ Shape' /\ Ids \subseteq Ids'
        /\ \A i \in Ids : /\ SameBut(objs'[i], objs[i]) /\ (Attached(i) => AttachedIn(objs', i))
                          /\ i # top => objs'[i].children = objs[i].children
        /\ \A i \in Ids' \ Ids : /\ ~objs'[i].managed
                                 /\ objs'[i].name \in NamePath[n] /\ GetQueue[objs'[i].name] = Nil
    BY <1>0, <1>5, <2>1, CreatedShape DEF Attached
  <2> HIDE DEF top
  <2>3. \A i \in Ids : /\ objs'[i].name = objs[i].name /\ objs'[i].parent = objs[i].parent
                       /\ objs'[i].managed = objs[i].managed /\ objs'[i].state = objs[i].state
                       /\ objs'[i].alloc = objs[i].alloc
    BY <2>2 DEF SameBut
  <2>4. \A i \in Ids : RunningIn(objs, i) => AttachedIn(objs', i)
    BY <1>0, <2>2 DEF QueuesOf, Attached
  <2>5. \A i \in Ids' \ Ids : ~objs'[i].managed /\ objs'[i].name \in Created
    BY <1>3, <2>2
  <2>6. CleanerInv'
    <3>1. cleaner.phase = "unlink" => cleaner.queue # top
      BY <1>5 DEF Free, CleanerHolds
    <3>2. \A i \in Ids : RunningIn(objs', i) <=> RunningIn(objs, i)
      BY <2>3 DEF RunningIn
    <3> QED
      BY <1>1, <1>2, <2>2, <2>3, <3>1, <3>2, CleanerKept
  <2>7. SchedNamed'
    BY <1>1, <2>3, SchedKeptNamed
  <2> QED
    BY <1>1, <2>2, <2>3, <2>4, <2>5, <2>6, <2>7, OthersTree
<1> QED
  BY <1>4, <1>5 DEF PlaceApplication

(* A queue that is charged is not one that the cleaner holds. *)
LEMMA ChargeTree ==
  ASSUME TreeInv, ConfigsApart, TypeInv', NEW app \in Apps, ChargeQueue(app)
  PROVE  TreeInv'
<1> DEFINE up == Ancestors(GetQueue[appQueue[app]])
<1>0. Linkage /\ Shape /\ Refs /\ TypeInv /\ QueuesOf(objs, conf) /\ Ids = DOMAIN objs
  BY DEF TreeInv, TypeInv, Ids
<1>1. UNCHANGED <<sched, conf, applied, reload, cleaner>> /\ \A p \in up : Free(p)
  BY DEF ChargeQueue, confVars
<1>2. /\ Ids' = Ids
      /\ \A o \in Ids : /\ objs'[o].name = objs[o].name /\ objs'[o].parent = objs[o].parent
                        /\ objs'[o].managed = objs[o].managed /\ objs'[o].state = objs[o].state
                        /\ objs'[o].children = objs[o].children
                        /\ objs'[o].alloc = objs[o].alloc + (IF o \in up THEN 1 ELSE 0)
  BY <1>0, ChargeTyped
<1> HIDE DEF up
<1>3. cleaner.phase = "unlink" => cleaner.queue \in Ids /\ cleaner.queue \notin up
  <2>1. cleaner.phase # "idle" => cleaner.queue \in Ids
    BY <1>0 DEF Refs
  <2> QED
    BY <1>1, <2>1 DEF Free, CleanerHolds
<1>4. \A o \in Ids : RunningIn(objs', o) <=> RunningIn(objs, o)
  BY <1>2 DEF RunningIn
<1>41. \A o \in Ids : objs[o].alloc \in Nat
  BY <1>0, LinkageFacts DEF QueueInfo
<1>5. CleanerInv'
  BY <1>1, <1>2, <1>3, <1>4, <1>41, CleanerKept
<1>6. SchedNamed'
  BY <1>1, <1>2, SchedKeptNamed
<1>7. Shape' /\ \A o \in Ids : AttachedIn(objs', o) <=> Attached(o)
  BY <1>0, <1>2, SameShape
<1>8. \A o \in Ids : RunningIn(objs, o) => AttachedIn(objs', o)
  BY <1>0, <1>7 DEF QueuesOf, Attached
<1> QED
  BY <1>1, <1>2, <1>5, <1>6, <1>7, <1>8, OthersTree

(* A release takes a charge from a queue and its parents and leaves the    *)
(* tree alone.                                                             *)
LEMMA ReleaseTree ==
  ASSUME TreeInv, ConfigsApart, TypeInv', NEW app \in Apps, ReleaseQueue(app)
  PROVE  TreeInv'
<1> DEFINE up == IF leafQueue[app] = Nil THEN {} ELSE Ancestors(leafQueue[app])
<1>0. Linkage /\ Shape /\ Refs /\ TypeInv /\ QueuesOf(objs, conf) /\ Ids = DOMAIN objs
  BY DEF TreeInv, TypeInv, Ids
<1>1. /\ UNCHANGED <<sched, conf, applied, reload, cleaner>> /\ \A p \in up : Free(p)
      /\ objs' = objs \/ objs' = AddTo(up, 0 - 1)
  BY DEF ReleaseQueue, confVars
<1>2. /\ Ids' = Ids
      /\ \A o \in Ids : /\ objs'[o].name = objs[o].name /\ objs'[o].parent = objs[o].parent
                        /\ objs'[o].managed = objs[o].managed /\ objs'[o].state = objs[o].state
                        /\ objs'[o].children = objs[o].children
  BY <1>0, ReleaseTyped
<1> HIDE DEF up
<1>21. \A o \in Ids : o \notin up => objs'[o].alloc = objs[o].alloc
  BY <1>1 DEF AddTo
<1>3. cleaner.phase = "unlink" => cleaner.queue \in Ids /\ cleaner.queue \notin up
  <2>1. cleaner.phase # "idle" => cleaner.queue \in Ids
    BY <1>0 DEF Refs
  <2> QED
    BY <1>1, <2>1 DEF Free, CleanerHolds
<1>4. \A o \in Ids : RunningIn(objs', o) <=> RunningIn(objs, o)
  BY <1>2 DEF RunningIn
<1>5. CleanerInv'
  BY <1>1, <1>2, <1>21, <1>3, <1>4, CleanerKept
<1>6. SchedNamed'
  BY <1>1, <1>2, SchedKeptNamed
<1>7. Shape' /\ \A o \in Ids : AttachedIn(objs', o) <=> Attached(o)
  BY <1>0, <1>2, SameShape
<1>8. \A o \in Ids : RunningIn(objs, o) => AttachedIn(objs', o)
  BY <1>0, <1>7 DEF QueuesOf, Attached
<1> QED
  BY <1>1, <1>2, <1>5, <1>6, <1>7, <1>8, OthersTree

(* The cleaner takes one queue from the tree: the one it has checked, as   *)
(* no other has its name.                                                  *)
LEMMA UnlinkFacts ==
  ASSUME TreeInv, UnlinkQueue
  PROVE  /\ Linkage' /\ Ids' = Ids /\ cleaner.queue \in Ids \ {1} /\ ~RunningIn(objs, cleaner.queue)
         /\ objs[cleaner.queue].children = {} /\ objs[cleaner.queue].alloc = 0
         /\ \A o \in Ids : SameBut(objs'[o], objs[o]) /\ objs'[o].children \subseteq objs[o].children
         /\ \A o \in Ids : Attached(o) /\ o # cleaner.queue => AttachedIn(objs', o)
<1> DEFINE q == cleaner.queue
           p == objs[q].parent
<1>0. Linkage /\ Shape /\ Refs /\ CleanerInv
  BY DEF TreeInv, TypeInv
<1>1. cleaner.phase = "unlink" /\ objs' = [objs EXCEPT ![p].children = { c \in @ : objs[c].name # cleaner.name }]
  BY DEF UnlinkQueue
<1>2. /\ q \in Ids /\ objs[q].name = cleaner.name /\ cleaner.name # Root
      /\ ~RunningIn(objs, q) /\ objs[q].children = {} /\ objs[q].alloc = 0
  <2>1. cleaner.phase # "idle"
    BY <1>1
  <2> QED
    BY <1>0, <1>1, <2>1 DEF CleanerInv, Refs
<1>3. q # 1
  BY <1>0, <1>2, LinkageFacts
<1> HIDE DEF q, p
<1>4. /\ Linkage' /\ Ids' = Ids
      /\ \A o \in Ids : /\ SameBut(objs'[o], objs[o])
                        /\ o # p => objs'[o].children = objs[o].children
                        /\ o = p => objs'[o].children = Others(objs, p, cleaner.name)
  BY <1>0, <1>1, Unlinked
<1>5. ASSUME NEW o \in Ids, Attached(o), o # q
      PROVE  AttachedIn(objs', o)
  <2>1. CASE o = 1
    BY <2>1 DEF AttachedIn
  <2>2. CASE o # 1
    <3>1. objs[o].parent \in Ids /\ o \in objs[objs[o].parent].children
      BY <1>0, <1>5, <2>2, ShapeFacts DEF Attached, AttachedIn
    <3>2. objs[o].name # cleaner.name
      BY <1>0, <1>2, <1>5, ShapeFacts
    <3>3. o \in objs'[objs[o].parent].children
      BY <1>4, <3>1, <3>2 DEF Others
    <3> QED
      BY <1>4, <3>3 DEF AttachedIn, SameBut
  <2> QED
    BY <2>1, <2>2
<1>6. \A o \in Ids : objs'[o].children \subseteq objs[o].children
  BY <1>4 DEF Others
<1> QED
  BY <1>2, <1>3, <1>4, <1>5, <1>6 DEF q

(* The cleaner takes a queue away from its parent: the queue is draining   *)
(* and empty, so that the configuration does not have it.                  *)
LEMMA UnlinkQueueTree ==
  ASSUME TreeInv, ConfigsApart, TypeInv', UnlinkQueue
  PROVE  TreeInv'
<1>0. Linkage /\ Shape /\ Refs /\ TypeInv /\ QueuesOf(objs, conf) /\ Ids = DOMAIN objs /\ CleanerInv
      /\ FindableInv
  BY DEF TreeInv, TypeInv, Ids
<1>1. /\ UNCHANGED <<sched, conf, applied, reload>> /\ cleaner' = [cleaner EXCEPT !.phase = "unlinked"]
      /\ cleaner.phase = "unlink"
  BY DEF UnlinkQueue, confVars
<1>2. /\ Ids' = Ids /\ cleaner.queue \in Ids \ {1} /\ ~RunningIn(objs, cleaner.queue)
      /\ objs[cleaner.queue].children = {}
      /\ \A o \in Ids : SameBut(objs'[o], objs[o]) /\ objs'[o].children \subseteq objs[o].children
      /\ \A o \in Ids : Attached(o) /\ o # cleaner.queue => AttachedIn(objs', o)
  BY UnlinkFacts
<1>3. \A o \in Ids : /\ objs'[o].name = objs[o].name /\ objs'[o].parent = objs[o].parent
                     /\ objs'[o].managed = objs[o].managed /\ objs'[o].state = objs[o].state
  BY <1>2 DEF SameBut
<1>4. Shape'
  <2>0. 1 \in Ids /\ DOMAIN objs' = Ids
    BY <1>0, <1>2, LinkageFacts DEF Ids
  <2>1. \A o \in Ids \ {1} : /\ objs'[o].parent \in Ids /\ objs'[o].name # Root
                             /\ objs'[objs'[o].parent].name = ParentOf[objs'[o].name]
    BY <1>0, <1>3, ShapeFacts
  <2>2. \A o \in Ids : objs'[o].children # {} => AttachedIn(objs', o)
    BY <1>0, <1>2, ShapeFacts
  <2>3. \A o, p \in Ids : objs'[o].name = objs'[p].name => o = p
    BY <1>0, <1>3, ShapeFacts
  <2>4. objs'[1].parent = Nil
    BY <1>0, <1>3, <2>0, ShapeFacts
  <2> QED
    BY <2>0, <2>1, <2>2, <2>3, <2>4 DEF Shape, ShapeOf
<1>5. \A o \in Ids : RunningIn(objs, o) => AttachedIn(objs', o)
  BY <1>0, <1>2 DEF QueuesOf, Attached
<1>6. CleanerInv'
  <2>1. cleaner.phase # "idle"
    BY <1>1
  <2>2. objs[cleaner.queue].name = cleaner.name /\ cleaner.name # Root
    BY <1>0, <2>1 DEF CleanerInv
  <2>3. cleaner'.queue = cleaner.queue /\ cleaner'.name = cleaner.name /\ cleaner'.phase = "unlinked"
    BY <1>0, <1>1 DEF FindableInv, FindableTypes
  <2>4. objs'[cleaner'.queue].name = cleaner'.name
    BY <1>2, <1>3, <2>2, <2>3
  <2>5. cleaner'.phase # "unlink"
    BY <2>3
  <2> QED
    BY <2>2, <2>3, <2>4, <2>5 DEF CleanerInv
<1>7. SchedNamed'
  BY <1>1, <1>3, SchedKeptNamed
<1> QED
  BY <1>1, <1>2, <1>3, <1>4, <1>5, <1>6, <1>7, OthersTree

(* The first configuration makes a tree that is as the configuration says. *)
LEMMA TreeInit == Init => TreeInv
<1> SUFFICES ASSUME Init
             PROVE  TreeInv
  OBVIOUS
<1>1. conf \in Configs /\ objs = FirstObjs(conf) /\ TypeInv
  BY TypeInit DEF Init
<1>2. /\ LinkageOf(objs) /\ objs[1].parent = Nil
      /\ \A o \in DOMAIN objs : /\ objs[o].name \in conf /\ objs[o].managed /\ objs[o].state = "Active" /\ objs[o].alloc = 0
                                /\ o # 1 => /\ objs[o].name # Root /\ objs[o].parent \in DOMAIN objs
                                            /\ objs[objs[o].parent].name = ParentOf[objs[o].name]
                                            /\ o \in objs[objs[o].parent].children
      /\ \A o, p \in DOMAIN objs : objs[o].name = objs[p].name => o = p
      /\ \A n \in conf : \E o \in DOMAIN objs : objs[o].name = n
  BY <1>1, FirstObjsAre
<1>3. \A o \in DOMAIN objs : AttachedIn(objs, o) /\ RunningIn(objs, o)
  BY <1>2 DEF AttachedIn, RunningIn
<1>4. Shape
  BY <1>2, <1>3 DEF Shape, ShapeOf
<1>5. QueuesOf(objs, conf)
  BY <1>1, <1>2, <1>3 DEF QueuesOf
<1>6. reload.steps = <<>> /\ ~Reloading
  BY DEF Init, NoReload, Reloading
<1>7. DrainOf(objs, reload.steps) /\ MarksFirst(reload.steps)
  <2>1. DrainOf(objs, reload.steps)
    BY <1>2, <1>3 DEF DrainOf
  <2>2. MarksFirst(reload.steps)
    BY <1>6 DEF MarksFirst
  <2> QED
    BY <2>1, <2>2
<1>8. AppliedOf(objs, conf)
  BY <1>2, <1>3 DEF AppliedOf
<1>9. CleanerInv
  BY DEF Init, Resting, CleanerInv
<1>10. SchedNamed
  <2>1. sched = [n \in Names |-> IF n \in conf THEN CHOOSE o \in Ids : objs[o].name = n ELSE Nil]
    BY DEF Init
  <2>2. \A n \in conf : objs[CHOOSE o \in Ids : objs[o].name = n].name = n
    BY <1>2 DEF Ids
  <2> QED
    BY <2>1, <2>2 DEF SchedNamed
<1> QED
  BY <1>1, <1>4, <1>5, <1>6, <1>7, <1>8, <1>9, <1>10 DEF TreeInv

(* Every step keeps TreeInv: one step of the proof for each action.        *)
LEMMA TreeNext == ConfigsApart /\ TreeInv /\ [Next]_vars => TreeInv'
<1> SUFFICES ASSUME ConfigsApart, TreeInv, [Next]_vars
             PROVE  TreeInv'
  OBVIOUS
<1>0. TypeInv' /\ TypeInv /\ CleanerInv /\ SchedNamed /\ FindableTypes
  BY TypeNext DEF TreeInv, TypeInv, FindableInv
<1>1. ASSUME UNCHANGED <<objs, conf, applied, reload, sched, cleaner>>
      PROVE  TreeInv'
  <2>1. CleanerInv' /\ SchedNamed'
    BY <1>0, <1>1, SameCleaner DEF SchedNamed
  <2> QED
    BY <1>0, <1>1, <2>1, ElsewhereTree
<1>3. CASE UNCHANGED vars
  BY <1>1, <1>3 DEF vars, confVars
<1>4. ASSUME NEW c \in Configs, StartReload(c)
      PROVE  TreeInv'
  BY <1>0, <1>4, StartReloadTree
<1>5. CASE UpdateQueue
  BY <1>0, <1>5, UpdateQueueTree
<1>6. CASE PruneQueues
  BY <1>0, <1>6, PruneQueuesTree
<1>7. CASE MarkQueueForRemoval
  BY <1>0, <1>7, MarkQueueForRemovalTree
<1>8. CASE UnlockQueue
  BY <1>0, <1>8, UnlockQueueTree
<1>9. CASE SyncScheduler
  <2>1. UNCHANGED <<objs, conf, applied, reload, cleaner>> /\ sched' = WithSchedulingQueues(Names)
    BY <1>9 DEF SyncScheduler
  <2>2. CleanerInv' /\ SchedNamed'
    BY <2>1, SameCleaner, SyncNamed
  <2> QED
    BY <1>0, <2>1, <2>2, ElsewhereTree
<1>10. ASSUME NEW app \in Apps, NEW n \in Submitted, SubmitApplication(app, n)
       PROVE  TreeInv'
  BY <1>1, <1>10 DEF SubmitApplication, confVars
<1>11. ASSUME NEW app \in Apps, NEW n \in Placed, PlaceApplication(app, n)
       PROVE  TreeInv'
  BY <1>0, <1>11, PlaceTree
<1>12. ASSUME NEW app \in Apps, RefusePlacement(app)
       PROVE  TreeInv'
  BY <1>1, <1>12 DEF RefusePlacement, confVars
<1>13. ASSUME NEW app \in Apps, UseSubmitted(app)
       PROVE  TreeInv'
  BY <1>1, <1>13 DEF UseSubmitted, confVars
<1>14. CASE SetQueue
  BY <1>1, <1>14 DEF SetQueue, confVars
<1>15. CASE FindQueue
  <2>1. UNCHANGED <<objs, conf, applied, reload, cleaner>>
    BY <1>15 DEF FindQueue, confVars
  <2>2. sched' = sched \/ sched' = WithSchedulingQueues({ m \in Names : placing.name \in NamePath[m] })
    BY <1>15 DEF FindQueue
  <2>3. CleanerInv'
    BY <2>1, SameCleaner
  <2>4. SchedNamed'
    <3>1. CASE sched' = sched
      BY <1>0, <2>1, <3>1 DEF SchedNamed
    <3>2. CASE sched' = WithSchedulingQueues({ m \in Names : placing.name \in NamePath[m] })
      BY <2>1, <3>2, SyncNamed
    <3> QED
      BY <2>2, <3>1, <3>2
  <2> QED
    BY <1>0, <2>1, <2>3, <2>4, ElsewhereTree
<1>16. CASE AddSchedulingApplication
  BY <1>1, <1>16 DEF AddSchedulingApplication, confVars
<1>17. ASSUME NEW app \in Apps, RemoveSchedulingApplication(app)
       PROVE  TreeInv'
  BY <1>1, <1>17 DEF RemoveSchedulingApplication, confVars
<1>18. ASSUME NEW app \in Apps, ChargeQueue(app)
       PROVE  TreeInv'
  BY <1>0, <1>18, ChargeTree
<1>19. ASSUME NEW app \in Apps, ReleaseQueue(app)
       PROVE  TreeInv'
  BY <1>0, <1>19, ReleaseTree
<1>20. ASSUME NEW n \in Names, CleanQueue(n)
       PROVE  TreeInv'
  <2>1. UNCHANGED <<objs, sched, conf, applied, reload>> /\ sched[n] # Nil /\ n # Root
        /\ cleaner' = [phase |-> "check", queue |-> sched[n], name |-> n]
    BY <1>20 DEF CleanQueue, confVars
  <2>2. CleanerInv' /\ SchedNamed'
    BY <1>0, <2>1 DEF CleanerInv, SchedNamed
  <2> QED
    BY <1>0, <2>1, <2>2, ElsewhereTree
<1>21. CASE CheckRemoval
  <2>1. UNCHANGED <<objs, sched, conf, applied, reload>> /\ cleaner.phase = "check"
    BY <1>21 DEF CheckRemoval, confVars
  <2>2. cleaner.phase # "idle"
    BY <2>1
  <2>3. objs[cleaner.queue].name = cleaner.name /\ cleaner.name # Root
    BY <1>0, <2>2 DEF CleanerInv
  <2>4. CASE cleaner' = Resting
    <3>1. CleanerInv' /\ SchedNamed'
      BY <1>0, <2>1, <2>4 DEF CleanerInv, SchedNamed, Resting
    <3> QED
      BY <1>0, <2>1, <3>1, ElsewhereTree
  <2>5. CASE /\ cleaner' = [cleaner EXCEPT !.phase = "unlink"] /\ Removable(cleaner.queue)
             /\ objs[cleaner.queue].children = {} /\ objs[cleaner.queue].alloc = 0
    <3>1. cleaner'.queue = cleaner.queue /\ cleaner'.name = cleaner.name
      BY <1>0, <2>5 DEF FindableTypes
    <3>2. ~RunningIn(objs, cleaner.queue)
      BY <2>5 DEF Removable, RunningIn
    <3>3. CleanerInv' /\ SchedNamed'
      BY <1>0, <2>1, <2>3, <2>5, <3>1, <3>2 DEF CleanerInv, SchedNamed
    <3> QED
      BY <1>0, <2>1, <3>3, ElsewhereTree
  <2> QED
    BY <1>21, <2>4, <2>5 DEF CheckRemoval
<1>22. CASE UnlinkQueue
  BY <1>0, <1>22, UnlinkQueueTree
<1>23. CASE UnlinkSchedulingQueue
  <2>1. UNCHANGED <<objs, conf, applied, reload>> /\ cleaner' = Resting
    BY <1>23 DEF UnlinkSchedulingQueue, confVars
  <2>2. sched' = sched \/ sched' = DeleteKey(ParentOf[cleaner.name], cleaner.name)
    BY <1>23 DEF UnlinkSchedulingQueue
  <2>3. \A n \in Names : sched'[n] = sched[n] \/ sched'[n] = Nil
    BY <2>2 DEF DeleteKey
  <2>4. CleanerInv' /\ SchedNamed'
    BY <1>0, <2>1, <2>3 DEF CleanerInv, SchedNamed, Resting
  <2> QED
    BY <1>0, <2>1, <2>4, ElsewhereTree
<1> QED
  BY <1>3, <1>4, <1>5, <1>6, <1>7, <1>8, <1>9, <1>10, <1>11, <1>12, <1>13, <1>14, <1>15, <1>16,
     <1>17, <1>18, <1>19, <1>20, <1>21, <1>22, <1>23 DEF Next

(* TreeInv holds in every reachable state as long as the names of removed  *)
(* and of draining queues are not configured again, and no configuration   *)
(* has a queue that a placement rule may create or writes a name with      *)
(* capitals.                                                               *)
THEOREM TreeInvariant ==
  ASSUME ConfigsApart
  PROVE  Spec => []TreeInv
<1>1. TreeInv /\ [Next]_vars => TreeInv'
  BY TreeNext
<1> QED
  BY <1>1, TreeInit, PTL DEF Spec

(* After an update the managed queues that do not drain are those that are *)
(* configured.                                                             *)
LEMMA TreeApplied == ConfigsApart /\ TreeInv => ConfigApplied
<1> SUFFICES ASSUME ConfigsApart, TreeInv, applied, NEW n \in Names
             PROVE  ManagedActive(n) <=> n \in conf
  BY DEF ConfigApplied
<1>1. /\ Linkage /\ Shape /\ QueuesOf(objs, conf) /\ AppliedOf(objs, conf) /\ Ids = DOMAIN objs
      /\ conf \in Configs
  BY DEF TreeInv, TypeInv, Plain, Ids
<1>2. ASSUME n \in conf
      PROVE  ManagedActive(n)
  <2>1. PICK o \in Ids : objs[o].name = n
    BY <1>1, <1>2 DEF AppliedOf
  <2>2. RunningIn(objs, o) /\ Attached(o)
    BY <1>1, <1>2, <2>1 DEF QueuesOf, Attached
  <2>3. GetQueue[n] = o
    BY <1>1, <2>1, <2>2, AttachedFound
  <2> QED
    BY <1>1, <2>2, <2>3, LinkageFacts DEF RunningIn, ManagedActive
<1>3. ASSUME ManagedActive(n)
      PROVE  n \in conf
  <2>1. GetQueue[n] # Nil
    BY <1>3 DEF ManagedActive
  <2>2. GetQueue[n] \in Ids /\ objs[GetQueue[n]].name = n
    BY <1>1, <2>1, FoundAttached
  <2>3. RunningIn(objs, GetQueue[n])
    BY <1>3 DEF ManagedActive, RunningIn
  <2> QED
    BY <1>1, <2>2, <2>3 DEF AppliedOf
<1> QED
  BY <1>2, <1>3

(* ConfigApplied holds in every reachable state: when an update is done,   *)
(* and until the next one begins, every queue of the configuration that    *)
(* was loaded is there, managed and does not drain, and a queue that it    *)
(* does not have drains or is no managed one.                              *)
THEOREM ConfigurationsApplied ==
  ASSUME ConfigsApart
  PROVE  Spec => []ConfigApplied
<1>1. TreeInv => ConfigApplied
  BY TreeApplied
<1> QED
  BY <1>1, TreeInvariant, PTL

-----------------------------------------------------------------------------
(* Ancestors is defined by recursion along the parent pointers.  Again the *)
(* sets that are closed under the step up show that there is such a        *)
(* function.                                                               *)
ClosedUp(T) == T \subseteq Ids /\ \A p \in T : objs[p].parent # Nil => objs[p].parent \in T
UpFrom(o) == { p \in Ids : \A T \in SUBSET Ids : ClosedUp(T) /\ o \in T => p \in T }

(* The parent of a queue is a queue or nothing.                            *)
LEMMA ParentsThere ==
  ASSUME Linkage, Shape, NEW o \in Ids
  PROVE  /\ objs[o].parent # Nil => objs[o].parent \in Ids
         /\ objs[o].parent = Nil <=> o = 1
<1>1. Nil \notin Ids
  BY LinkageFacts
<1>2. objs[1].parent = Nil /\ (o # 1 => objs[o].parent \in Ids)
  BY ShapeFacts
<1> QED
  BY <1>1, <1>2

(* What is up from a queue is the queue and what is up from its parent.    *)
LEMMA UpFromUnfold ==
  ASSUME Linkage, Shape, NEW o \in Ids
  PROVE  UpFrom(o) = IF objs[o].parent = Nil THEN {o} ELSE {o} \cup UpFrom(objs[o].parent)
<1> DEFINE up == objs[o].parent
<1>1. o \in UpFrom(o)
  BY DEF UpFrom
<1>2. CASE up = Nil
  <2>1. ClosedUp({o})
    BY <1>2 DEF ClosedUp
  <2> QED
    BY <1>1, <1>2, <2>1 DEF UpFrom
<1>3. CASE up # Nil
  <2>0. up \in Ids
    BY <1>3, ParentsThere
  <2>1. ASSUME NEW p \in UpFrom(up)
        PROVE  p \in UpFrom(o)
    <3> SUFFICES ASSUME NEW T \in SUBSET Ids, ClosedUp(T), o \in T
                 PROVE  p \in T
      BY <2>1 DEF UpFrom
    <3>1. up \in T
      BY <1>3 DEF ClosedUp
    <3> QED
      BY <2>1, <3>1 DEF UpFrom
  <2>2. ASSUME NEW p \in UpFrom(o), p # o
        PROVE  p \in UpFrom(up)
    <3> SUFFICES ASSUME NEW T \in SUBSET Ids, ClosedUp(T), up \in T
                 PROVE  p \in T
      BY <2>2 DEF UpFrom
    <3>1. ClosedUp(T \cup {o})
      BY DEF ClosedUp
    <3>2. p \in T \cup {o}
      BY <2>2, <3>1 DEF UpFrom
    <3> QED
      BY <2>2, <3>2
  <2> QED
    BY <1>1, <1>3, <2>1, <2>2
<1> QED
  BY <1>2, <1>3

(* The recursive definition of Ancestors has a solution.                   *)
LEMMA AncestorsUnfold ==
  ASSUME Linkage, Shape, NEW o \in Ids
  PROVE  Ancestors(o) = IF objs[o].parent = Nil THEN {o} ELSE {o} \cup Ancestors(objs[o].parent)
<1> DEFINE step(f) == [p \in Ids |-> IF objs[p].parent = Nil THEN {p} ELSE {p} \cup f[objs[p].parent]]
           f0 == [p \in Ids |-> UpFrom(p)]
           a == CHOOSE f : f = step(f)
<1>1. f0 = step(f0)
  <2>1. \A p \in Ids : UpFrom(p) = IF objs[p].parent = Nil THEN {p} ELSE {p} \cup f0[objs[p].parent]
    BY UpFromUnfold, ParentsThere
  <2> QED
    BY <2>1
<1>2. a = step(a)
  <2> HIDE DEF step
  <2> QED
    BY <1>1
<1>3. \A p : Ancestors(p) = a[p]
  BY DEF Ancestors
<1> HIDE DEF a
<1>4. a[o] = IF objs[o].parent = Nil THEN {o} ELSE {o} \cup a[objs[o].parent]
  BY <1>2
<1> QED
  BY <1>3, <1>4

(* The ancestors of a queue are the queues of the names on its path, and   *)
(* every name on its path has one.                                         *)
LEMMA AncestorsAre ==
  ASSUME Linkage, Shape, NEW o \in Ids
  PROVE  /\ Ancestors(o) = { p \in Ids : objs[p].name \in NamePath[objs[o].name] }
         /\ \A m \in NamePath[objs[o].name] : \E p \in Ids : objs[p].name = m
         /\ objs[o].name \in NamePath[objs[o].name]
<1> DEFINE On(q) == /\ Ancestors(q) = { p \in Ids : objs[p].name \in NamePath[objs[q].name] }
                    /\ \A m \in NamePath[objs[q].name] : \E p \in Ids : objs[p].name = m
           S == { n \in Names : \A q \in Ids : objs[q].name = n => On(q) }
<1>1. Root \in Names /\ NamePath[Root] = {Root}
  BY NamePathUnfold, NamesAssumption
<1>2. 1 \in Ids /\ objs[1].name = Root /\ \A q \in Ids : objs[q].name \in Names
  BY LinkageFacts DEF QueueInfo
<1>3. Root \in S
  <2> SUFFICES ASSUME NEW q \in Ids, objs[q].name = Root
               PROVE  On(q)
    BY <1>1
  <2>1. q = 1
    BY <1>2, ShapeFacts
  <2>2. Ancestors(q) = {q}
    BY <2>1, AncestorsUnfold, ParentsThere
  <2>3. {q} = { p \in Ids : objs[p].name \in NamePath[objs[q].name] }
    BY <1>1, <1>2, <2>1, ShapeFacts
  <2>4. \A m \in NamePath[objs[q].name] : \E p \in Ids : objs[p].name = m
    BY <1>1, <1>2
  <2> QED
    BY <2>2, <2>3, <2>4
<1>4. ASSUME NEW n \in Names \ {Root}, ParentOf[n] \in S
      PROVE  n \in S
  <2> SUFFICES ASSUME NEW q \in Ids, objs[q].name = n
               PROVE  On(q)
    OBVIOUS
  <2>1. q # 1
    BY <1>2
  <2>2. objs[q].parent \in Ids /\ objs[objs[q].parent].name = ParentOf[n] /\ objs[q].parent # Nil
    BY <2>1, ShapeFacts, ParentsThere
  <2>3. On(objs[q].parent)
    BY <1>4, <2>2
  <2>4. Ancestors(q) = {q} \cup Ancestors(objs[q].parent)
    BY <2>2, AncestorsUnfold
  <2>5. NamePath[n] = {n} \cup NamePath[ParentOf[n]]
    BY PathFacts
  <2>6. {q} = { p \in Ids : objs[p].name = n }
    BY ShapeFacts
  <2>7. Ancestors(q) = { p \in Ids : objs[p].name \in NamePath[objs[q].name] }
    BY <2>2, <2>3, <2>4, <2>5, <2>6
  <2>8. \A m \in NamePath[objs[q].name] : \E p \in Ids : objs[p].name = m
    BY <2>2, <2>3, <2>5
  <2> QED
    BY <2>7, <2>8
<1>5. S \in SUBSET Names
  OBVIOUS
<1>6. objs[o].name \in S
  <2> HIDE DEF S
  <2> QED
    BY <1>2, <1>3, <1>4, <1>5, NamesInduction
<1> QED
  BY <1>2, <1>6, PathFacts

-----------------------------------------------------------------------------
(* The charges.  Under(o) are the applications with a charge on o or below *)
(* it; Pledged(a) says that an application points to the queue it names.   *)
Under(o) == { a \in Apps : charged[a] # Nil /\ objs[o].name \in NamePath[objs[charged[a]].name] }
Charged == { a \in Apps : charged[a] # Nil }
Pledged(a) == leafQueue[a] \in Ids /\ objs[leafQueue[a]].name = appQueue[a]

Counts == /\ IsFiniteSet(Charged)
          /\ \A o \in Ids : objs[o].alloc = Cardinality(Under(o))

Pledges ==
  /\ \A a \in Apps : appState[a] \in {"accepted", "leaving"} => Pledged(a)
  /\ \A a \in Apps : appState[a] = "cached" /\ ~rules => Pledged(a)
  /\ placing.phase \in {"find", "add"} => placing.name = appQueue[placing.app] /\ Pledged(placing.app)

Holding ==
  \A a \in Apps : charged[a] # Nil =>
    appState[a] \in {"accepted", "leaving"} /\ leafQueue[a] = charged[a] /\ Attached(charged[a])

ChargeInv == TreeInv /\ Counts /\ Pledges /\ Holding

(* The charge of a queue is the number of the applications that hold one,  *)
(* at it or below.                                                         *)
LEMMA ChargesCounted ==
  ASSUME TreeInv, Counts, Holding
  PROVE  ChargesReturn
<1>0. Linkage /\ Shape /\ Refs
  BY DEF TreeInv, TypeInv
<1>1. ASSUME NEW a \in Apps, charged[a] # Nil
      PROVE  leafQueue[a] = charged[a] /\ Linked(charged[a]) /\ charged[a] \in Ids
  <2>1. charged[a] \in Ids /\ Attached(charged[a]) /\ leafQueue[a] = charged[a]
    BY <1>0, <1>1 DEF Holding, Refs
  <2> QED
    BY <1>0, <2>1, AttachedFound DEF Linked
<1>2. ASSUME NEW o \in Ids
      PROVE  Under(o) = { a \in Apps : charged[a] # Nil /\ o \in Ancestors(charged[a]) }
  BY <1>0, <1>1, <1>2, AncestorsAre DEF Under
<1> QED
  BY <1>1, <1>2 DEF Counts, ChargesReturn

(* Charges stay when queues keep their names and counters, and new ones    *)
(* have nothing.                                                           *)
LEMMA CountsKept ==
  ASSUME TreeInv, Shape', Counts, UNCHANGED charged, Ids \subseteq Ids',
         \A o \in Ids : objs'[o].name = objs[o].name /\ objs'[o].alloc = objs[o].alloc
         , \A o \in Ids' \ Ids : objs'[o].alloc = 0
  PROVE  Counts'
<1>0. Linkage /\ Shape /\ Refs
  BY DEF TreeInv, TypeInv
<1>1. \A a \in Apps : charged[a] # Nil => charged[a] \in Ids
  BY <1>0 DEF Refs
<1>2. IsFiniteSet(Charged') /\ Charged' = Charged
  BY DEF Counts, Charged
<1>3. ASSUME NEW o \in Ids
      PROVE  objs'[o].alloc = Cardinality(Under(o)')
  <2>1. Under(o)' = Under(o)
    BY <1>1 DEF Under
  <2> QED
    BY <2>1 DEF Counts
<1>4. ASSUME NEW o \in Ids' \ Ids
      PROVE  objs'[o].alloc = Cardinality(Under(o)')
  <2>1. ASSUME NEW a \in Apps, charged[a] # Nil, objs'[o].name \in NamePath[objs'[charged[a]].name]
        PROVE  FALSE
    <3>1. charged[a] \in Ids /\ objs'[charged[a]].name = objs[charged[a]].name
      BY <1>1, <2>1
    <3>2. PICK p \in Ids : objs[p].name = objs'[o].name
      BY <1>0, <2>1, <3>1, AncestorsAre
    <3>3. p \in DOMAIN objs' /\ o \in DOMAIN objs' /\ objs'[p].name = objs'[o].name
      BY <3>2 DEF Ids
    <3>4. p = o
      BY <3>3 DEF Shape, ShapeOf
    <3> QED
      BY <3>4
  <2>2. Under(o)' = {}
    BY <2>1 DEF Under
  <2> QED
    BY <2>2, FS_EmptySet
<1> QED
  BY <1>2, <1>3, <1>4 DEF Counts

(* Steps that change no application. *)
LEMMA SameApps ==
  ASSUME Pledges, Holding, UNCHANGED <<appState, appQueue, leafQueue, charged, rules, placing>>,
         Ids \subseteq Ids', \A o \in Ids : objs'[o].name = objs[o].name,
         \A a \in Apps : charged[a] # Nil => AttachedIn(objs', charged[a])
  PROVE  Pledges' /\ Holding'
<1>1. \A a : Pledged(a) => Pledged(a)'
  BY DEF Pledged
<1>2. Pledges'
  BY <1>1 DEF Pledges
<1>3. Holding'
  BY DEF Holding, Attached
<1> QED
  BY <1>2, <1>3

(* Steps of the update and of the cleaner. *)
LEMMA QueuesSame ==
  ASSUME ChargeInv, TreeInv', UNCHANGED <<objs, appVars, rules, placing>>
  PROVE  ChargeInv'
<1>1. TreeInv /\ Counts /\ Pledges /\ Holding /\ Shape' /\ Ids' = Ids
  BY DEF ChargeInv, TreeInv, Ids
<1>2. Counts'
  BY <1>1, CountsKept DEF appVars
<1>3. Pledges' /\ Holding'
  BY <1>1, SameApps DEF appVars, Holding, Attached
<1> QED
  BY <1>2, <1>3 DEF ChargeInv

(* updateQueues keeps the charges: a queue that it creates has none.       *)
LEMMA UpdateQueueCharges ==
  ASSUME ChargeInv, TreeInv', UpdateQueue
  PROVE  ChargeInv'
<1> DEFINE n == Head(reload.steps).on
           o == GetQueue[n]
           parent == reload.at[ParentOf[n]]
           leaf == n \notin Parents /\ Children(n) \cap conf = {}
<1>0. /\ TreeInv /\ Counts /\ Pledges /\ Holding /\ Shape' /\ Linkage /\ Shape /\ Refs /\ Plain /\ Step("update")
      /\ TypeInv
  BY DEF ChargeInv, TreeInv, TypeInv, UpdateQueue
<1>1. n \in conf \ {Root} /\ parent \in Ids /\ conf \subseteq Names
  BY <1>0, StepFacts
<1>2. UNCHANGED <<appVars, rules, placing>>
  BY DEF UpdateQueue, Continue, Abort
<1>3. ASSUME Ids \subseteq Ids',
             \A i \in Ids : objs'[i].name = objs[i].name /\ objs'[i].alloc = objs[i].alloc
             , \A i \in Ids' \ Ids : objs'[i].alloc = 0,
             \A i \in Ids : Attached(i) => AttachedIn(objs', i)
      PROVE  ChargeInv'
  <2>1. Counts'
    BY <1>0, <1>2, <1>3, CountsKept DEF appVars
  <2>2. \A a \in Apps : charged[a] # Nil => AttachedIn(objs', charged[a])
    BY <1>0, <1>3 DEF Holding, Refs
  <2>3. Pledges' /\ Holding'
    BY <1>0, <1>2, <1>3, <2>2, SameApps DEF appVars
  <2> QED
    BY <2>1, <2>3 DEF ChargeInv
<1>4. CASE o # Nil /\ objs' = [objs EXCEPT ![o].managed = TRUE, ![o].leaf = @ /\ Children(n) \cap conf = {}]
  <2>1. o \in Ids
    BY <1>0, <1>1, <1>4, FoundAttached
  <2>2. /\ Ids' = Ids
        /\ \A i \in Ids : /\ objs'[i].name = objs[i].name /\ objs'[i].parent = objs[i].parent
                          /\ objs'[i].alloc = objs[i].alloc /\ objs'[i].children = objs[i].children
    BY <1>0, <1>4, <2>1, Updated
  <2>3. \A i \in Ids : AttachedIn(objs', i) <=> Attached(i)
    BY <1>0, <2>2, SameShape
  <2> HIDE DEF o, n
  <2> QED
    BY <1>3, <2>2, <2>3
<1>5. CASE o = Nil /\ objs' = WithChild(objs, parent, n, NewQueue(n, parent, leaf, TRUE))
  <2> DEFINE q == NewQueue(n, parent, leaf, TRUE)
             k == Len(objs) + 1
  <2>1. q \in QueueInfo /\ q.parent = parent /\ q.children = {} /\ q.alloc = 0
    BY <1>0, <1>1, LinkageFacts DEF NewQueue, QueueInfo
  <2>11. objs' = WithChild(objs, parent, n, q) /\ Linkage /\ parent \in Ids
    BY <1>0, <1>1, <1>5
  <2> HIDE DEF q, parent, n
  <2>2. /\ Ids' = Ids \cup {k} /\ objs'[k] = q
        /\ \A i \in Ids : /\ SameBut(objs'[i], objs[i])
                          /\ i # parent => objs'[i].children = objs[i].children
                          /\ i = parent => objs'[i].children = Others(objs, parent, n) \cup {k}
    BY <2>1, <2>11, Added
  <2> HIDE DEF k
  <2>3. \A i \in Ids : objs'[i].name = objs[i].name /\ objs'[i].parent = objs[i].parent /\ objs'[i].alloc = objs[i].alloc
    BY <2>2 DEF SameBut
  <2>4. ASSUME NEW i \in Ids, Attached(i)
        PROVE  AttachedIn(objs', i)
    <3>1. CASE i = 1
      BY <3>1 DEF AttachedIn
    <3>2. CASE i # 1
      <4>1. objs[i].parent \in Ids /\ i \in objs[objs[i].parent].children
        BY <1>0, <2>4, <3>2, ShapeFacts DEF Attached, AttachedIn
      <4>2. objs[i].name # n
        BY <1>0, <1>5, <2>4, AttachedFound, LinkageFacts
      <4>3. i \in objs'[objs[i].parent].children
        BY <2>2, <4>1, <4>2 DEF Others
      <4> QED
        BY <2>3, <4>3 DEF AttachedIn
    <3> QED
      BY <3>1, <3>2
  <2>5. \A i \in Ids' \ Ids : objs'[i].alloc = 0
    BY <2>1, <2>2
  <2> QED
    BY <1>3, <2>2, <2>3, <2>4, <2>5
<1>6. CASE Abort
  BY <1>0, <1>2, <1>6, QueuesSame DEF Abort
<1> QED
  BY <1>4, <1>5, <1>6 DEF UpdateQueue

(* MarkQueueForRemoval changes states of queues and no charge.             *)
LEMMA MarkCharges ==
  ASSUME ChargeInv, TreeInv', MarkQueueForRemoval
  PROVE  ChargeInv'
<1> DEFINE o == Head(reload.steps).on
<1>0. /\ TreeInv /\ Counts /\ Pledges /\ Holding /\ Shape' /\ Linkage /\ Shape /\ Refs /\ Plain /\ Step("mark")
  BY DEF ChargeInv, TreeInv, TypeInv, MarkQueueForRemoval
<1>1. o \in Ids
  BY <1>0, StepFacts
<1>2. UNCHANGED <<appVars, rules, placing>>
  BY DEF MarkQueueForRemoval, Continue
<1>3. CASE objs' = objs
  BY <1>0, <1>2, <1>3, QueuesSame
<1>4. CASE objs' = [objs EXCEPT ![o].state = "Draining"]
  <2>1. /\ Ids' = Ids
        /\ \A i \in Ids : /\ objs'[i].name = objs[i].name /\ objs'[i].parent = objs[i].parent
                          /\ objs'[i].alloc = objs[i].alloc /\ objs'[i].children = objs[i].children
    BY <1>0, <1>1, <1>4, Marked
  <2>2. \A i \in Ids : AttachedIn(objs', i) <=> Attached(i)
    BY <1>0, <2>1, SameShape
  <2>3. Counts'
    BY <1>0, <1>2, <2>1, CountsKept DEF appVars
  <2>4. \A a \in Apps : charged[a] # Nil => AttachedIn(objs', charged[a])
    BY <1>0, <2>2 DEF Holding, Refs
  <2>5. Pledges' /\ Holding'
    BY <1>0, <1>2, <2>1, <2>4, SameApps DEF appVars
  <2> QED
    BY <2>3, <2>5 DEF ChargeInv
<1> QED
  BY <1>3, <1>4 DEF MarkQueueForRemoval

(* The queue that the cleaner takes away has nothing, so that nothing is   *)
(* charged to it.                                                          *)
LEMMA UnlinkCharges ==
  ASSUME ChargeInv, TreeInv', UnlinkQueue
  PROVE  ChargeInv'
<1>0. TreeInv /\ Counts /\ Pledges /\ Holding /\ Shape' /\ Linkage /\ Shape /\ Refs
  BY DEF ChargeInv, TreeInv, TypeInv
<1>1. UNCHANGED <<appVars, rules, placing>>
  BY DEF UnlinkQueue, confVars
<1>2. /\ Ids' = Ids /\ cleaner.queue \in Ids /\ objs[cleaner.queue].alloc = 0
      /\ \A i \in Ids : objs'[i].name = objs[i].name /\ objs'[i].alloc = objs[i].alloc
      /\ \A i \in Ids : Attached(i) /\ i # cleaner.queue => AttachedIn(objs', i)
  BY <1>0, UnlinkFacts DEF SameBut
<1>3. ASSUME NEW a \in Apps, charged[a] # Nil
      PROVE  charged[a] # cleaner.queue
  <2> SUFFICES ASSUME charged[a] = cleaner.queue
               PROVE  FALSE
    OBVIOUS
  <2>1. a \in Under(cleaner.queue)
    BY <1>0, <1>2, <1>3, AncestorsAre DEF Under
  <2>2. Under(cleaner.queue) \subseteq Charged
    BY DEF Under, Charged
  <2>3. IsFiniteSet(Under(cleaner.queue)) /\ Cardinality(Under(cleaner.queue)) = 0
    BY <1>0, <1>2, <2>2, FS_Subset DEF Counts
  <2> QED
    BY <2>1, <2>3, FS_EmptySet
<1>4. Counts'
  BY <1>0, <1>1, <1>2, CountsKept DEF appVars
<1>5. \A a \in Apps : charged[a] # Nil => AttachedIn(objs', charged[a])
  BY <1>0, <1>2, <1>3 DEF Holding, Refs
<1>6. Pledges' /\ Holding'
  BY <1>0, <1>1, <1>2, <1>5, SameApps DEF appVars
<1> QED
  BY <1>4, <1>6 DEF ChargeInv

(* Steps of the applications that change no queue and no charge. *)
LEMMA AppsStep ==
  ASSUME ChargeInv, TreeInv', UNCHANGED <<objs, charged>>, Pledges',
         \A a \in Apps : charged[a] # Nil => /\ appState'[a] \in {"accepted", "leaving"}
                                             /\ leafQueue'[a] = leafQueue[a]
  PROVE  ChargeInv'
<1>1. TreeInv /\ Counts /\ Holding /\ Shape' /\ Ids' = Ids
  BY DEF ChargeInv, TreeInv, Ids
<1>2. Counts'
  BY <1>1, CountsKept
<1>3. Holding'
  BY <1>1 DEF Holding, Attached
<1> QED
  BY <1>2, <1>3 DEF ChargeInv

(* A submitted application points to the queue of its name when there are  *)
(* no placement rules.                                                     *)
LEMMA SubmitCharges ==
  ASSUME ChargeInv, TreeInv', "submitUnknown" \notin May,
         NEW app \in Apps, NEW n \in Submitted, SubmitApplication(app, n)
  PROVE  ChargeInv'
<1>0. /\ Pledges /\ Holding /\ Linkage /\ n \in Names /\ Refs /\ FindableTypes /\ PlacingFound /\ Ids' = Ids
      /\ UNCHANGED objs
  BY NamesAssumption DEF ChargeInv, TreeInv, TypeInv, FindableInv, SubmitApplication, Ids
<1>1. /\ appState[app] = "none" /\ UNCHANGED <<rules, placing, charged>>
      /\ appState'  = [appState EXCEPT ![app] = "cached"]
      /\ appQueue'  = [appQueue EXCEPT ![app] = n]
      /\ leafQueue' = [leafQueue EXCEPT ![app] = GetQueue[n]]
      /\ rules \/ GetQueue[n] # Nil
  BY DEF SubmitApplication, confVars
<1>2. /\ \A a \in Apps : a # app => /\ appState'[a] = appState[a] /\ appQueue'[a] = appQueue[a]
                                    /\ leafQueue'[a] = leafQueue[a]
      /\ appState'[app] = "cached" /\ appQueue'[app] = n /\ leafQueue'[app] = GetQueue[n]
  BY <1>0, <1>1 DEF FindableTypes, Refs
<1>3. \A a \in Apps : a # app /\ Pledged(a) => Pledged(a)'
  BY <1>0, <1>2 DEF Pledged
<1>4. ~rules => Pledged(app)'
  BY <1>0, <1>1, <1>2, FoundAttached DEF Pledged
<1>5. placing.phase # "idle" => placing.app \in Apps /\ placing.app # app
  BY <1>0, <1>1 DEF PlacingFound
<1>6. placing.phase \in {"find", "add"} => placing.phase # "idle"
  OBVIOUS
<1>7. Pledges'
  BY <1>0, <1>1, <1>2, <1>3, <1>4, <1>5, <1>6 DEF Pledges
<1>8. charged[app] = Nil
  BY <1>0, <1>1 DEF Holding
<1> QED
  BY <1>0, <1>1, <1>2, <1>7, <1>8, AppsStep DEF Holding

(* An application is answered. *)
LEMMA AnswerPledges ==
  ASSUME ChargeInv, NEW app \in Apps, NEW s \in {"rejected", "accepted"}, Answer(app, s), appState[app] = "cached",
         Ids \subseteq Ids', \A o \in Ids : objs'[o].name = objs[o].name,
         UNCHANGED <<appQueue, leafQueue, charged, rules>>,
         s = "accepted" => Pledged(app)
  PROVE  /\ Pledges'
         /\ \A a \in Apps : charged[a] # Nil => appState'[a] \in {"accepted", "leaving"}
<1>0. Pledges /\ Holding /\ FindableTypes
  BY DEF ChargeInv, TreeInv, TypeInv, FindableInv
<1>1. /\ placing'.phase = "idle" /\ appState'[app] = s
      /\ \A a \in Apps : a # app => appState'[a] = appState[a]
  BY <1>0 DEF Answer, Idle, FindableTypes
<1>2. \A a \in Apps : Pledged(a) => Pledged(a)'
  BY DEF Pledged
<1>3. Pledges'
  BY <1>0, <1>1, <1>2 DEF Pledges
<1>4. charged[app] = Nil
  BY <1>0 DEF Holding
<1> QED
  BY <1>0, <1>1, <1>3, <1>4 DEF Holding

(* A placement that begins keeps the charges.                              *)
LEMMA PlaceCharges ==
  ASSUME ChargeInv, TreeInv', ConfigsApart, NEW app \in Apps, NEW n \in Placed, PlaceApplication(app, n)
  PROVE  ChargeInv'
<1>0. /\ TreeInv /\ Counts /\ Pledges /\ Holding /\ Shape' /\ Linkage /\ Shape /\ Refs /\ n \in Names
      /\ FindableTypes
  BY NamesAssumption DEF ChargeInv, TreeInv, TypeInv, FindableInv
<1>1. UNCHANGED <<appQueue, leafQueue, charged, rules>> /\ appState[app] = "cached"
  BY DEF PlaceApplication, confVars
<1>2. /\ Ids \subseteq Ids'
      /\ \A i \in Ids : /\ objs'[i].name = objs[i].name /\ objs'[i].alloc = objs[i].alloc
                        /\ Attached(i) => AttachedIn(objs', i)
      /\ \A i \in Ids' \ Ids : objs'[i].alloc = 0
  <2>1. CASE objs' = objs
    BY <2>1 DEF Ids, Attached
  <2>2. CASE objs' = CreateQueues(n)
    <3>1. \A m \in NamePath[n] : Fresh(m)
      BY DEF PlaceApplication, ConfigsApart
    <3>2. \A m \in NamePath[n] : GetQueue[m] = Nil => \A i \in Ids : objs[i].name # m
      BY <3>1 DEF Fresh
    <3>3. /\ Ids \subseteq Ids'
          /\ \A i \in Ids : /\ SameBut(objs'[i], objs[i])
                            /\ Attached(i) => AttachedIn(objs', i)
          /\ \A i \in Ids' \ Ids : objs'[i].alloc = 0
      BY <1>0, <2>2, <3>2, CreatedShape DEF Attached
    <3> QED
      BY <3>3 DEF SameBut
  <2> QED
    BY <2>1, <2>2 DEF PlaceApplication
<1>3. Counts'
  BY <1>0, <1>1, <1>2, CountsKept
<1>4. CASE Answer(app, "rejected")
  <2>1. Pledges' /\ \A a \in Apps : charged[a] # Nil => appState'[a] \in {"accepted", "leaving"}
    BY <1>1, <1>2, <1>4, AnswerPledges
  <2>2. Holding'
    BY <1>0, <1>1, <1>2, <2>1 DEF Holding, Attached, Refs
  <2> QED
    BY <1>3, <2>1, <2>2 DEF ChargeInv
<1>5. CASE placing' = [phase |-> "set", app |-> app, name |-> n] /\ UNCHANGED appState
  <2>1. \A a \in Apps : Pledged(a) => Pledged(a)'
    BY <1>1, <1>2 DEF Pledged
  <2>2. placing'.phase \notin {"find", "add"}
    BY <1>5
  <2>3. Pledges'
    BY <1>0, <1>1, <1>5, <2>1, <2>2 DEF Pledges
  <2>4. Holding'
    BY <1>0, <1>1, <1>2, <1>5 DEF Holding, Attached, Refs
  <2> QED
    BY <1>3, <2>3, <2>4 DEF ChargeInv
<1> QED
  BY <1>4, <1>5 DEF PlaceApplication

(* A rule that names a queue changes the name in an application that holds *)
(* no charge yet.                                                          *)
LEMMA SetQueueCharges ==
  ASSUME ChargeInv, TreeInv', SetQueue
  PROVE  ChargeInv'
<1> DEFINE o == GetQueue[placing.name]
<1>0. /\ Pledges /\ Holding /\ Linkage /\ Refs /\ FindableTypes /\ Ids' = Ids
      /\ UNCHANGED <<objs, charged, appState, rules>>
      /\ placing.phase = "set" /\ placing.app \in Apps /\ appState[placing.app] = "cached" /\ placing.name \in Names
  <2>1. placing.phase = "set"
    BY DEF SetQueue
  <2>2. placing.phase # "idle"
    BY <2>1
  <2> QED
    BY <2>1, <2>2 DEF ChargeInv, TreeInv, TypeInv, FindableInv, PlacingFound, SetQueue, confVars, Ids
<1>1. CASE UNCHANGED <<appQueue, leafQueue, placing>>
  <2>1. \A a : Pledged(a) => Pledged(a)'
    BY <1>0, <1>1 DEF Pledged
  <2>2. Pledges'
    BY <1>0, <1>1, <2>1 DEF Pledges
  <2> QED
    BY <1>0, <1>1, <2>2, AppsStep DEF Holding
<1>2. CASE /\ o # Nil
           /\ leafQueue' = [leafQueue EXCEPT ![placing.app] = o]
           /\ appQueue'  = [appQueue EXCEPT ![placing.app] = placing.name]
           /\ placing' = [placing EXCEPT !.phase = "find"]
  <2>1. o \in Ids /\ objs[o].name = placing.name
    BY <1>0, <1>2, FoundAttached
  <2>2. /\ placing'.app = placing.app /\ placing'.name = placing.name
        /\ leafQueue'[placing.app] = o /\ appQueue'[placing.app] = placing.name
        /\ \A a \in Apps : a # placing.app => leafQueue'[a] = leafQueue[a] /\ appQueue'[a] = appQueue[a]
    BY <1>0, <1>2 DEF FindableTypes, Refs
  <2> HIDE DEF o
  <2>3. Pledged(placing.app)'
    <3>1. leafQueue'[placing'.app] = o /\ appQueue'[placing'.app] = placing.name
      BY <2>2
    <3> QED
      BY <1>0, <2>1, <3>1 DEF Pledged
  <2>4. \A a \in Apps : a # placing.app /\ Pledged(a) => Pledged(a)'
    BY <1>0, <2>2 DEF Pledged
  <2>5. \A a \in Apps : a = placing.app => Pledged(a)'
    BY <2>2, <2>3 DEF Pledged
  <2>6. Pledges'
    BY <1>0, <2>2, <2>3, <2>4, <2>5 DEF Pledges
  <2>7. charged[placing.app] = Nil
    BY <1>0 DEF Holding
  <2> QED
    BY <1>0, <2>2, <2>6, <2>7, AppsStep DEF Holding
<1> QED
  BY <1>1, <1>2 DEF SetQueue

(* A placement without rules keeps the name that the application was       *)
(* submitted with.                                                         *)
LEMMA UseSubmittedCharges ==
  ASSUME ChargeInv, TreeInv', NEW app \in Apps, UseSubmitted(app)
  PROVE  ChargeInv'
<1>0. /\ Pledges /\ Holding /\ UNCHANGED <<objs, appState, appQueue, leafQueue, charged, rules>>
      /\ placing' = [phase |-> "find", app |-> app, name |-> appQueue[app]]
      /\ ~rules /\ appState[app] = "cached" /\ Ids' = Ids
  BY DEF ChargeInv, UseSubmitted, appVars, confVars, Ids
<1>1. \A a : Pledged(a) => Pledged(a)'
  BY <1>0 DEF Pledged
<1>2. Pledged(app)
  BY <1>0 DEF Pledges
<1>3. placing'.app = app /\ placing'.name = appQueue'[app]
  BY <1>0
<1>4. Pledged(placing.app)'
  BY <1>0, <1>2, <1>3 DEF Pledged
<1>5. Pledges'
  BY <1>0, <1>1, <1>3, <1>4 DEF Pledges
<1> QED
  BY <1>0, <1>5, AppsStep DEF Holding

(* The scheduler's search for the queue keeps the charges.                 *)
LEMMA FindQueueCharges ==
  ASSUME ChargeInv, TreeInv', FindQueue
  PROVE  ChargeInv'
<1>0. /\ Pledges /\ Holding /\ UNCHANGED <<objs, appQueue, leafQueue, charged, rules>> /\ Ids' = Ids
      /\ placing.phase = "find" /\ placing.app \in Apps /\ appState[placing.app] = "cached" /\ FindableTypes
  <2>1. placing.phase = "find"
    BY DEF FindQueue
  <2>2. placing.phase # "idle"
    BY <2>1
  <2> QED
    BY <2>1, <2>2 DEF ChargeInv, TreeInv, TypeInv, FindableInv, PlacingFound, FindQueue, confVars, Ids
<1>1. CASE Answer(placing.app, "rejected")
  <2>1. Pledges' /\ \A a \in Apps : charged[a] # Nil => appState'[a] \in {"accepted", "leaving"}
    BY <1>0, <1>1, AnswerPledges
  <2> QED
    BY <1>0, <2>1, AppsStep
<1>2. CASE UNCHANGED appState /\ (placing' = placing \/ placing' = [placing EXCEPT !.phase = "add"])
  <2>1. placing'.app = placing.app /\ placing'.name = placing.name /\ placing.phase \in {"find", "add"}
    BY <1>0, <1>2 DEF FindableTypes
  <2>2. \A a : Pledged(a) => Pledged(a)'
    BY <1>0 DEF Pledged
  <2>3. Pledged(placing.app)'
    BY <1>0, <2>1 DEF Pledges, Pledged
  <2>4. placing'.name = appQueue'[placing'.app]
    BY <1>0, <2>1 DEF Pledges
  <2>5. Pledges'
    BY <1>0, <1>2, <2>2, <2>3, <2>4 DEF Pledges
  <2> QED
    BY <1>0, <1>2, <2>5, AppsStep DEF Holding
<1> QED
  BY <1>1, <1>2 DEF FindQueue

(* An application that the scheduler accepts points to the queue that it   *)
(* names.                                                                  *)
LEMMA AddApplicationCharges ==
  ASSUME ChargeInv, TreeInv', AddSchedulingApplication
  PROVE  ChargeInv'
<1>0. /\ Pledges /\ UNCHANGED <<objs, appQueue, leafQueue, charged, rules>> /\ Ids' = Ids
      /\ placing.phase = "add" /\ placing.app \in Apps /\ appState[placing.app] = "cached"
      /\ Answer(placing.app, "accepted")
  <2>1. placing.phase = "add"
    BY DEF AddSchedulingApplication
  <2>2. placing.phase # "idle"
    BY <2>1
  <2> QED
    BY <2>1, <2>2 DEF ChargeInv, TreeInv, TypeInv, FindableInv, PlacingFound, AddSchedulingApplication, confVars, Ids
<1>1. Pledged(placing.app)
  BY <1>0 DEF Pledges
<1>2. Pledges' /\ \A a \in Apps : charged[a] # Nil => appState'[a] \in {"accepted", "leaving"}
  BY <1>0, <1>1, AnswerPledges
<1> QED
  BY <1>0, <1>2, AppsStep

(* An application that leaves keeps its charge, and its queue, until it is *)
(* released.                                                               *)
LEMMA RemoveCharges ==
  ASSUME ChargeInv, TreeInv', NEW app \in Apps, RemoveSchedulingApplication(app)
  PROVE  ChargeInv'
<1>0. /\ Pledges /\ Holding /\ UNCHANGED <<objs, appQueue, leafQueue, charged, rules, placing>> /\ Ids' = Ids
      /\ FindableTypes
      /\ \/ appState' = appState
         \/ (appState' = [appState EXCEPT ![app] = "leaving"] /\ appState[app] = "accepted")
  BY DEF ChargeInv, TreeInv, TypeInv, FindableInv, RemoveSchedulingApplication, confVars, Ids
<1>1. \A a : Pledged(a) => Pledged(a)'
  BY <1>0 DEF Pledged
<1>2. \A a \in Apps : appState'[a] = appState[a] \/ (appState[a] = "accepted" /\ appState'[a] = "leaving")
  BY <1>0 DEF FindableTypes
<1>3. Pledges'
  <2>1. \A a \in Apps : appState'[a] \in {"accepted", "leaving"} => Pledged(a)'
    BY <1>0, <1>1, <1>2 DEF Pledges
  <2>2. \A a \in Apps : appState'[a] = "cached" /\ ~rules' => Pledged(a)'
    BY <1>0, <1>1, <1>2 DEF Pledges
  <2>3. placing.phase = "idle"
    BY DEF RemoveSchedulingApplication, SchedulerFree, Idle
  <2> QED
    BY <1>0, <2>1, <2>2, <2>3 DEF Pledges
<1> QED
  BY <1>0, <1>2, <1>3, AppsStep DEF Holding

(* One more or one less in a finite set. *)
LEMMA OneMoreIn ==
  ASSUME NEW S, IsFiniteSet(S), NEW x, x \notin S
  PROVE  IsFiniteSet(S \cup {x}) /\ Cardinality(S \cup {x}) = Cardinality(S) + 1
  BY FS_AddElement

(* One element less in a finite set.                                       *)
LEMMA OneLessIn ==
  ASSUME NEW S, IsFiniteSet(S), NEW x \in S
  PROVE  IsFiniteSet(S \ {x}) /\ Cardinality(S \ {x}) = Cardinality(S) - 1 /\ Cardinality(S) > 0
<1>1. IsFiniteSet(S \ {x}) /\ Cardinality(S \ {x}) = Cardinality(S) - 1
  BY FS_RemoveElement
<1>2. Cardinality(S) \in Nat /\ Cardinality(S) # 0
  BY FS_CardinalityType, FS_EmptySet
<1> QED
  BY <1>1, <1>2

(* The charge goes to the queue that the application points to: both have  *)
(* the name that the application has, and no two queues have one name.     *)
LEMMA ChargeCharges ==
  ASSUME ChargeInv, TreeInv', NEW app \in Apps, ChargeQueue(app)
  PROVE  ChargeInv'
<1> DEFINE o == GetQueue[appQueue[app]]
           up == Ancestors(o)
<1>0. /\ TreeInv /\ Counts /\ Pledges /\ Holding /\ Linkage /\ Shape /\ Refs /\ TypeInv
  BY DEF ChargeInv, TreeInv, TypeInv
<1>1. /\ UNCHANGED <<appState, appQueue, leafQueue, placing, rules>>
      /\ appState[app] = "accepted" /\ charged[app] = Nil /\ o # Nil
      /\ charged' = [charged EXCEPT ![app] = o]
  BY DEF ChargeQueue, confVars
<1>2. /\ Ids' = Ids /\ o \in Ids /\ appQueue[app] \in Names
      /\ \A p \in Ids : /\ objs'[p].name = objs[p].name /\ objs'[p].parent = objs[p].parent
                        /\ objs'[p].children = objs[p].children
                        /\ objs'[p].alloc = objs[p].alloc + (IF p \in up THEN 1 ELSE 0)
  BY <1>0, ChargeTyped
<1>3. Attached(o) /\ objs[o].name = appQueue[app]
  BY <1>0, <1>1, <1>2, FoundAttached
<1>4. leafQueue[app] = o
  <2>1. leafQueue[app] \in Ids /\ objs[leafQueue[app]].name = appQueue[app]
    BY <1>0, <1>1 DEF Pledges, Pledged
  <2> QED
    BY <1>0, <1>2, <1>3, <2>1, ShapeFacts
<1>5. up = { p \in Ids : objs[p].name \in NamePath[objs[o].name] } /\ Nil \notin Ids
  BY <1>0, <1>2, AncestorsAre, LinkageFacts
<1> HIDE DEF up, o
<1>6. charged'[app] = o /\ \A a \in Apps : a # app => charged'[a] = charged[a]
  BY <1>0, <1>1 DEF Refs
<1>7. \A a \in Apps : charged[a] # Nil => charged[a] \in Ids
  BY <1>0 DEF Refs
<1>8. \A p \in Ids : AttachedIn(objs', p) <=> Attached(p)
  BY <1>0, <1>2, SameShape
<1>9. Counts'
  <2>1. IsFiniteSet(Charged) /\ Charged' = Charged \cup {app} /\ app \notin Charged
    BY <1>0, <1>1, <1>2, <1>5, <1>6 DEF Charged, Counts
  <2>2. IsFiniteSet(Charged')
    BY <2>1, OneMoreIn
  <2>3. ASSUME NEW p \in Ids
        PROVE  objs'[p].alloc = Cardinality(Under(p)')
    <3>1. objs[p].alloc = Cardinality(Under(p)) /\ app \notin Under(p) /\ Under(p) \subseteq Charged
      BY <1>0, <1>1 DEF Counts, Under, Charged
    <3>2. IsFiniteSet(Under(p))
      BY <2>1, <3>1, FS_Subset
    <3>3. CASE p \in up
      <4>1. Under(p)' = Under(p) \cup {app}
        BY <1>2, <1>5, <1>6, <1>7, <3>3 DEF Under
      <4> QED
        BY <1>2, <3>1, <3>2, <3>3, <4>1, OneMoreIn
    <3>4. CASE p \notin up
      <4>1. Under(p)' = Under(p)
        BY <1>1, <1>2, <1>5, <1>6, <1>7, <3>4 DEF Under
      <4>2. objs[p].alloc \in Nat
        BY <1>0, LinkageFacts DEF QueueInfo
      <4> QED
        BY <1>2, <3>1, <3>4, <4>1, <4>2
    <3> QED
      BY <3>3, <3>4
  <2> QED
    BY <1>2, <2>2, <2>3 DEF Counts
<1>10. \A a : Pledged(a) => Pledged(a)'
  BY <1>1, <1>2 DEF Pledged
<1>11. Pledges'
  BY <1>0, <1>1, <1>10 DEF Pledges
<1>12. Holding'
  BY <1>0, <1>1, <1>2, <1>3, <1>4, <1>6, <1>7, <1>8 DEF Holding, Attached
<1> QED
  BY <1>9, <1>11, <1>12 DEF ChargeInv

(* A release goes to the queue that was charged, and all its ancestors     *)
(* have something to give back.                                            *)
LEMMA ReleaseCharges ==
  ASSUME ChargeInv, TreeInv', NEW app \in Apps, ReleaseQueue(app)
  PROVE  ChargeInv'
<1> DEFINE o == leafQueue[app]
           up == IF o = Nil THEN {} ELSE Ancestors(o)
<1>0. /\ TreeInv /\ Counts /\ Pledges /\ Holding /\ Linkage /\ Shape /\ Refs /\ TypeInv /\ FindableTypes
  BY DEF ChargeInv, TreeInv, TypeInv, FindableInv
<1>1. /\ UNCHANGED <<appQueue, leafQueue, placing, rules>>
      /\ charged' = [charged EXCEPT ![app] = Nil]
      /\ appState' = [appState EXCEPT ![app] = IF @ = "leaving" THEN "gone" ELSE @]
      /\ objs' = IF charged[app] # Nil /\ \A p \in up : objs[p].alloc > 0 THEN AddTo(up, 0 - 1) ELSE objs
  BY DEF ReleaseQueue, confVars
<1>2. /\ Ids' = Ids
      /\ \A p \in Ids : /\ objs'[p].name = objs[p].name /\ objs'[p].parent = objs[p].parent
                        /\ objs'[p].children = objs[p].children
  BY <1>0, ReleaseTyped
<1>3. /\ charged'[app] = Nil /\ \A a \in Apps : a # app => charged'[a] = charged[a]
      /\ \A a \in Apps : appState'[a] = appState[a] \/ appState'[a] = "gone"
      /\ \A a \in Apps : a # app => appState'[a] = appState[a]
  BY <1>0, <1>1 DEF Refs, FindableTypes
<1>4. \A a \in Apps : charged[a] # Nil => charged[a] \in Ids
  BY <1>0 DEF Refs
<1>5. \A p \in Ids : AttachedIn(objs', p) <=> Attached(p)
  BY <1>0, <1>2, SameShape
<1>6. IsFiniteSet(Charged) /\ \A p \in Ids : /\ objs[p].alloc = Cardinality(Under(p)) /\ Under(p) \subseteq Charged
                                             /\ IsFiniteSet(Under(p)) /\ objs[p].alloc \in Nat
  <2>1. \A p \in Ids : objs[p].alloc \in Nat
    BY <1>0, LinkageFacts DEF QueueInfo
  <2>2. \A p \in Ids : Under(p) \subseteq Charged
    BY DEF Under, Charged
  <2> QED
    BY <1>0, <2>1, <2>2, FS_Subset DEF Counts
<1>7. Counts'
  <2>1. CASE charged[app] = Nil
    <3>1. objs' = objs /\ \A a \in Apps : charged'[a] = charged[a]
      BY <1>1, <1>3, <2>1
    <3>2. Charged' = Charged /\ \A p \in Ids : Under(p)' = Under(p)
      BY <3>1 DEF Charged, Under
    <3> QED
      BY <1>2, <1>6, <3>1, <3>2 DEF Counts
  <2>2. CASE charged[app] # Nil
    <3>1. o = charged[app] /\ o \in Ids /\ o # Nil
      BY <1>0, <1>4, <2>2 DEF Holding
    <3>2. up = { p \in Ids : objs[p].name \in NamePath[objs[o].name] }
      BY <1>0, <3>1, AncestorsAre
    <3> HIDE DEF up, o
    <3>3. \A p \in up : p \in Ids /\ app \in Under(p)
      BY <2>2, <3>1, <3>2 DEF Under
    <3>4. \A p \in up : objs[p].alloc > 0
      BY <1>6, <3>3, OneLessIn
    <3>5. objs' = AddTo(up, 0 - 1)
      BY <1>1, <2>2, <3>4
    <3>6. \A p \in Ids : objs'[p].alloc = objs[p].alloc + (IF p \in up THEN 0 - 1 ELSE 0)
      <4>1. 0 - 1 \in Int /\ \A p \in up \cap Ids : objs[p].alloc + (0 - 1) >= 0
        BY <1>6, <3>4
      <4> QED
        BY <1>0, <3>5, <4>1, Counted
    <3>7. IsFiniteSet(Charged')
      <4>1. Charged' \subseteq Charged
        BY <1>3 DEF Charged
      <4> QED
        BY <1>6, <4>1, FS_Subset
    <3>8. ASSUME NEW p \in Ids
          PROVE  objs'[p].alloc = Cardinality(Under(p)')
      <4>1. CASE p \in up
        <5>1. Under(p)' = Under(p) \ {app}
          BY <1>2, <1>3, <1>4 DEF Under
        <5>2. app \in Under(p)
          BY <3>3, <4>1
        <5>3. Cardinality(Under(p) \ {app}) = Cardinality(Under(p)) - 1
          BY <1>6, <5>2, OneLessIn
        <5> QED
          BY <1>6, <3>6, <4>1, <5>1, <5>3
      <4>2. CASE p \notin up
        <5>1. Under(p)' = Under(p)
          BY <1>2, <1>3, <1>4, <3>1, <3>2, <4>2 DEF Under
        <5> QED
          BY <1>6, <3>6, <4>2, <5>1
      <4> QED
        BY <4>1, <4>2
    <3> QED
      BY <1>2, <3>7, <3>8 DEF Counts
  <2> QED
    BY <2>1, <2>2
<1>8. \A a : Pledged(a) => Pledged(a)'
  BY <1>1, <1>2 DEF Pledged
<1>9. Pledges'
  BY <1>0, <1>1, <1>3, <1>8 DEF Pledges
<1>10. Holding'
  BY <1>0, <1>1, <1>2, <1>3, <1>4, <1>5 DEF Holding, Attached
<1> QED
  BY <1>7, <1>9, <1>10 DEF ChargeInv

(* At the start nothing is charged.                                        *)
LEMMA ChargeInit == Init => ChargeInv
<1> SUFFICES ASSUME Init
             PROVE  ChargeInv
  OBVIOUS
<1>1. TreeInv
  BY TreeInit
<1>2. Charged = {} /\ \A o \in Ids : Under(o) = {}
  BY DEF Init, Charged, Under
<1>3. \A o \in Ids : objs[o].alloc = 0
  BY FirstObjsAre DEF Init, Ids
<1>4. Counts
  BY <1>2, <1>3, FS_EmptySet DEF Counts
<1>5. Pledges /\ Holding
  BY DEF Init, Pledges, Holding, Idle
<1> QED
  BY <1>1, <1>4, <1>5 DEF ChargeInv

(* Every step keeps ChargeInv: one step of the proof for each action.      *)
LEMMA ChargeNext ==
  ConfigsApart /\ "submitUnknown" \notin May /\ ChargeInv /\ [Next]_vars => ChargeInv'
<1> SUFFICES ASSUME ConfigsApart, "submitUnknown" \notin May, ChargeInv, [Next]_vars
             PROVE  ChargeInv'
  OBVIOUS
<1>0. TreeInv'
  BY TreeNext DEF ChargeInv
<1>3. CASE UNCHANGED vars
  BY <1>0, <1>3, QueuesSame DEF vars, confVars
<1>4. ASSUME NEW c \in Configs, StartReload(c)
      PROVE  ChargeInv'
  BY <1>0, <1>4, QueuesSame DEF StartReload
<1>5. CASE UpdateQueue
  BY <1>0, <1>5, UpdateQueueCharges
<1>6. CASE PruneQueues
  BY <1>0, <1>6, QueuesSame DEF PruneQueues, Continue
<1>7. CASE MarkQueueForRemoval
  BY <1>0, <1>7, MarkCharges
<1>8. CASE UnlockQueue
  BY <1>0, <1>8, QueuesSame DEF UnlockQueue, Continue
<1>9. CASE SyncScheduler
  BY <1>0, <1>9, QueuesSame DEF SyncScheduler
<1>10. ASSUME NEW app \in Apps, NEW n \in Submitted, SubmitApplication(app, n)
       PROVE  ChargeInv'
  BY <1>0, <1>10, SubmitCharges
<1>11. ASSUME NEW app \in Apps, NEW n \in Placed, PlaceApplication(app, n)
       PROVE  ChargeInv'
  BY <1>0, <1>11, PlaceCharges
<1>12. ASSUME NEW app \in Apps, RefusePlacement(app)
       PROVE  ChargeInv'
  <2>1. /\ UNCHANGED <<objs, appQueue, leafQueue, charged, rules>> /\ Ids' = Ids
        /\ Answer(app, "rejected") /\ appState[app] = "cached"
    BY <1>12 DEF RefusePlacement, confVars, Ids
  <2>2. Pledges' /\ \A a \in Apps : charged[a] # Nil => appState'[a] \in {"accepted", "leaving"}
    BY <2>1, AnswerPledges
  <2> QED
    BY <1>0, <2>1, <2>2, AppsStep
<1>13. ASSUME NEW app \in Apps, UseSubmitted(app)
       PROVE  ChargeInv'
  BY <1>0, <1>13, UseSubmittedCharges
<1>14. CASE SetQueue
  BY <1>0, <1>14, SetQueueCharges
<1>15. CASE FindQueue
  BY <1>0, <1>15, FindQueueCharges
<1>16. CASE AddSchedulingApplication
  BY <1>0, <1>16, AddApplicationCharges
<1>17. ASSUME NEW app \in Apps, RemoveSchedulingApplication(app)
       PROVE  ChargeInv'
  BY <1>0, <1>17, RemoveCharges
<1>18. ASSUME NEW app \in Apps, ChargeQueue(app)
       PROVE  ChargeInv'
  BY <1>0, <1>18, ChargeCharges
<1>19. ASSUME NEW app \in Apps, ReleaseQueue(app)
       PROVE  ChargeInv'
  BY <1>0, <1>19, ReleaseCharges
<1>20. ASSUME NEW n \in Names, CleanQueue(n)
       PROVE  ChargeInv'
  BY <1>0, <1>20, QueuesSame DEF CleanQueue, confVars
<1>21. CASE CheckRemoval
  BY <1>0, <1>21, QueuesSame DEF CheckRemoval, confVars
<1>22. CASE UnlinkQueue
  BY <1>0, <1>22, UnlinkCharges
<1>23. CASE UnlinkSchedulingQueue
  BY <1>0, <1>23, QueuesSame DEF UnlinkSchedulingQueue, confVars
<1> QED
  BY <1>3, <1>4, <1>5, <1>6, <1>7, <1>8, <1>9, <1>10, <1>11, <1>12, <1>13, <1>14, <1>15, <1>16,
     <1>17, <1>18, <1>19, <1>20, <1>21, <1>22, <1>23 DEF Next

(* ChargeInv holds in every reachable state under the same conditions, and *)
(* if nobody submits to a queue that is not there.                         *)
THEOREM ChargeInvariant ==
  ASSUME ConfigsApart, "submitUnknown" \notin May
  PROVE  Spec => []ChargeInv
<1>1. ChargeInv /\ [Next]_vars => ChargeInv'
  BY ChargeNext
<1> QED
  BY <1>1, ChargeInit, PTL DEF Spec

(* ChargesReturn: what is charged sits on a queue that can be found and    *)
(* that the application gives it back to, and the counter of every queue   *)
(* is the sum of what is charged on it and below it, whatever is created   *)
(* and removed meanwhile.                                                  *)
THEOREM ChargesAreReturned ==
  ASSUME ConfigsApart, "submitUnknown" \notin May
  PROVE  Spec => []ChargesReturn
<1>1. ChargeInv => ChargesReturn
  BY ChargesCounted DEF ChargeInv
<1> QED
  BY <1>1, ChargeInvariant, PTL
=============================================================================
