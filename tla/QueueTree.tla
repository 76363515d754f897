----------------------------- MODULE QueueTree ------------------------------
(***************************************************************************)
(* The queues of a partition while they come and go.  A queue is a         *)
(* QueueInfo object in the cache and a SchedulingQueue in the scheduler    *)
(* that links to it.  Four goroutines change them:                         *)
(*   the cache's RM goroutine, which applies a configuration:              *)
(*     updatePartitionDetails, updateQueues, MarkQueueForRemoval;          *)
(*   the scheduler's event goroutine, which places applications (queues    *)
(*     may be created on the way) and follows a new configuration;         *)
(*   the cache's scheduler goroutine, which charges and releases queues;   *)
(*   the partition manager's cleaner, which removes queues.                *)
(*                                                                         *)
(* A queue object is one entry of objs and keeps its number for ever, as a *)
(* pointer does; objs[1] is the root.  A name may belong to several        *)
(* objects in turn.  Maps from names to children are sets of objects.      *)
(* Names are in lower case, as NewManagedQueue stores them and both        *)
(* getQueue look them up; a configuration may write some with capitals.    *)
(* updatePartitionDetails holds the partition's read lock, so that new     *)
(* applications, charges and releases wait for it; the cleaner and the     *)
(* placement of applications do not.                                       *)
(***************************************************************************)
EXTENDS Integers, Sequences, FiniteSets, SequencesExt

CONSTANTS
  Names,       \* full names of the queues there can be
  Root,        \* the name of the root
  ParentOf,    \* ParentOf[n]: the name one level up
  ShortName,   \* ShortName[n]: the last part of the name
  Parents,     \* names that a configuration declares to be parents
  Configs,     \* the configurations: finite sets of names with all their ancestors
  Capitals,    \* names that configurations write with a capital in the last part
  Apps,        \* application ids
  Submitted,   \* names that applications are submitted with
  Placed,      \* names that the placement rules return
  Created,     \* names with a rule that may create them
  May,         \* what users and administrators may do beyond the ordinary course
  MaxReloads,  \* bound: configuration updates
  NoName

ASSUME NamesAssumption ==
  /\ Root \in Names /\ NoName \notin Names
  /\ ParentOf \in [Names \ {Root} -> Names]
  /\ \A S \in SUBSET (Names \ {Root}) : S # {} => \E n \in S : ParentOf[n] \notin S
  /\ \A n \in Names \ {Root} : ShortName[n] \notin Names
  /\ Parents \subseteq Names
  /\ Capitals \subseteq Names \ {Root}
  /\ \A c \in Configs : /\ Root \in c /\ c \subseteq Names /\ IsFiniteSet(c)
                        /\ \A n \in c \ {Root} : ParentOf[n] \in c \cap Parents
  /\ Submitted \cup Placed \cup Created \subseteq Names
  /\ May \subseteq {"reuseRemoved", "reuseDraining", "submitUnknown"} /\ MaxReloads \in Nat

VARIABLES
  objs,       \* the QueueInfo objects
  sched,      \* sched[n]: SchedulingQueue.CachedQueueInfo of the queue n, or Nil
  schedApps,  \* SchedulingQueue.applications
  appState,   \* where an application is
  appQueue,   \* ApplicationInfo.QueueName
  leafQueue,  \* ApplicationInfo.leafQueue
  charged,    \* the object that was charged for the application's allocation
  conf,       \* the configuration that was last applied or tried
  applied,    \* TRUE: ... and could be applied
  rules,      \* TRUE: there are placement rules; an update does not change them
  reload,     \* what updateQueues has left to do, and the objects it found
  locked,     \* the objects MarkQueueForRemoval has locked
  sync,       \* TRUE: the scheduler has not followed the configuration yet
  placing,    \* where the scheduler's event goroutine is
  cleaner,    \* where the cleaner is
  process,    \* "up", "hung" in a loop without end, or "crashed"
  reloads     \* number of configuration updates

appVars   == <<schedApps, appState, appQueue, leafQueue, charged>>
confVars  == <<conf, applied, rules, reload, locked, sync, reloads>>
vars == <<objs, sched, appVars, confVars, placing, cleaner, process>>

Nil == 0
Ids == DOMAIN objs
Children(n) == { m \in Names \ {Root} : ParentOf[m] = n }

NamePath[n \in Names] == IF n = Root THEN {Root} ELSE {n} \cup NamePath[ParentOf[n]]

QueueInfo == [name : Names, parent : Nat, leaf : BOOLEAN, managed : BOOLEAN,
              state : {"Active", "Draining"}, children : SUBSET Nat, alloc : Nat]

-----------------------------------------------------------------------------
(* The tree of the cache *)

(* The child map holds one object per name. *)
ChildNamed(o, n) ==
  LET named == { c \in objs[o].children : objs[c].name = n } IN
  IF named = {} THEN Nil ELSE CHOOSE c \in named : TRUE

(* PartitionInfo.getQueue: down from the root, name by name. *)
GetQueue[n \in Names] ==
  IF n = Root THEN 1
  ELSE LET up == GetQueue[ParentOf[n]] IN IF up = Nil THEN Nil ELSE ChildNamed(up, n)

Linked(o) == GetQueue[objs[o].name] = o

(* A queue and its ancestors, along the parent pointers. *)
Ancestors(o) ==
  LET up[p \in Ids] == IF objs[p].parent = Nil THEN {p} ELSE {p} \cup up[objs[p].parent]
  IN  up[o]

NewQueue(n, parent, leaf, managed) ==
  [name |-> n, parent |-> parent, leaf |-> leaf, managed |-> managed,
   state |-> "Active", children |-> {}, alloc |-> 0]

(* AddChildQueue refuses below a leaf or a draining queue, and replaces a  *)
(* child of the same name.                                                 *)
CanAddChild(o) == ~objs[o].leaf /\ objs[o].state # "Draining"

WithChild(os, o, n, q) ==
  LET new == Len(os) + 1
      others == { c \in os[o].children : os[c].name # n } IN
  Append([os EXCEPT ![o].children = others \cup {new}], q)

(* Queue locks: the cleaner holds the queue it is about to unlink, the     *)
(* configuration update those that MarkQueueForRemoval is inside.          *)
CleanerHolds(o) == cleaner.phase = "unlink" /\ cleaner.queue = o
Free(o) == o \notin locked /\ ~CleanerHolds(o)

-----------------------------------------------------------------------------
(* Configuration updates *)

(* updateQueues as a list of steps.  It updates the configured children of *)
(* a queue one by one, each followed by all that is below it, and prunes   *)
(* the other children.                                                     *)
Steps(do, S) == LET s == SetToSeq(S) IN [i \in DOMAIN s |-> [do |-> do, on |-> s[i]]]

UpdateSteps(n, c) == Steps("update", Children(n) \cap c) \o <<[do |-> "prune", on |-> n]>>

NoReload == [steps |-> <<>>, at |-> [n \in Names |-> Nil]]
Reloading == reload.steps # <<>>

(* The name of a removed queue is not used again. *)
Fresh(n) == GetQueue[n] # Nil \/ \A o \in Ids : objs[o].name # n

Draining(n) == GetQueue[n] # Nil /\ objs[GetQueue[n]].state = "Draining"

(* processRMConfigUpdateEvent: the configuration is current from now on,   *)
(* whether or not it can be applied.                                       *)
StartReload(c) ==
  /\ process # "crashed"
  /\ ~Reloading /\ ~sync
  /\ reloads < MaxReloads
  /\ c # conf
  /\ \A n \in c : /\ "reuseRemoved" \in May \/ Fresh(n)
                  /\ "reuseDraining" \in May \/ ~Draining(n)
  /\ conf' = c
  /\ reload' = [NoReload EXCEPT !.steps = UpdateSteps(Root, c), !.at[Root] = 1]
  /\ reloads' = reloads + 1
  /\ applied' = FALSE
  /\ UNCHANGED <<objs, sched, appVars, rules, locked, sync, placing, cleaner, process>>

(* The update goes on; after its last step the scheduler is told. *)
Continue(steps, at) ==
  /\ reload' = IF steps = <<>> THEN NoReload ELSE [steps |-> steps, at |-> at]
  /\ sync' = (steps = <<>>)
  /\ UNCHANGED <<sched, appVars, conf, rules, reloads, placing, cleaner, process>>
  /\ applied' = (steps = <<>>)

(* An error ends the update half way and the scheduler is not told. *)
Abort ==
  /\ reload' = NoReload
  /\ UNCHANGED <<objs, sched, appVars, conf, applied, rules, locked, sync, reloads, placing, cleaner, process>>

Step(do) == process # "crashed" /\ Reloading /\ Head(reload.steps).do = do

(* One queue of the configuration: updateQueueProps of the object found by *)
(* its name, which takes no lock and leaves the state alone, or            *)
(* NewManagedQueue below the parent that was updated before.               *)
UpdateQueue ==
  LET n == Head(reload.steps).on
      o == GetQueue[n]
      parent == reload.at[ParentOf[n]]
      leaf == n \notin Parents /\ Children(n) \cap conf = {} IN
  /\ Step("update")
  /\ \/ /\ o # Nil
        /\ objs' = [objs EXCEPT ![o].managed = TRUE,
                                ![o].leaf = @ /\ Children(n) \cap conf = {}]
        /\ UNCHANGED locked
        /\ Continue(UpdateSteps(n, conf) \o Tail(reload.steps), [reload.at EXCEPT ![n] = o])
     \/ /\ o = Nil /\ Free(parent) /\ CanAddChild(parent)
        /\ objs' = WithChild(objs, parent, n, NewQueue(n, parent, leaf, TRUE))
        /\ UNCHANGED locked
        /\ Continue(UpdateSteps(n, conf) \o Tail(reload.steps),
                    [reload.at EXCEPT ![n] = Len(objs) + 1])
     \/ /\ o = Nil /\ Free(parent) /\ ~CanAddChild(parent)
        /\ Abort

(* Queues that were visited under the key their parent has for them: the   *)
(* mark is set for the name as the configuration writes it.                *)
Visited == conf \ Capitals

(* The children that were not visited are to be marked: those that the     *)
(* configuration no longer has, and those that it writes with capitals.    *)
PruneQueues ==
  LET n == Head(reload.steps).on
      gone == { c \in objs[reload.at[n]].children : objs[c].name \notin Visited } IN
  /\ Step("prune")
  /\ Continue(Steps("mark", gone) \o Tail(reload.steps), reload.at)
  /\ UNCHANGED <<objs, locked>>

(* Mutant: only the topmost queue drains, its children are left alone. *)
MarkTopmostOnly ==
  LET o == Head(reload.steps).on IN
  /\ Step("mark")
  /\ ~CleanerHolds(o)
  /\ objs' = [objs EXCEPT ![o].state = IF objs[o].managed THEN "Draining" ELSE @]
  /\ UNCHANGED locked
  /\ Continue(Tail(reload.steps), reload.at)

(* MarkQueueForRemoval: a managed queue drains, and with its lock held all *)
(* its children are marked.                                                *)
MarkQueueForRemoval ==
  LET o == Head(reload.steps).on IN
  /\ Step("mark")
  /\ ~CleanerHolds(o)
  /\ IF objs[o].managed
     THEN /\ objs' = [objs EXCEPT ![o].state = "Draining"]
          /\ locked' = locked \cup {o}
          /\ Continue(Steps("mark", objs[o].children) \o <<[do |-> "unlock", on |-> o]>>
                        \o Tail(reload.steps), reload.at)
     ELSE /\ UNCHANGED <<objs, locked>>
          /\ Continue(Tail(reload.steps), reload.at)

UnlockQueue ==
  /\ Step("unlock")
  /\ locked' = locked \ {Head(reload.steps).on}
  /\ Continue(Tail(reload.steps), reload.at)
  /\ UNCHANGED objs

-----------------------------------------------------------------------------
(* The scheduler's event goroutine *)

(* NewSchedulingQueueInfo for a queue and for all that the cache has below *)
(* it; updateSchedulingQueueInfo does so for every queue that is missing.  *)
(* A queue that exists keeps its link.                                     *)
WithSchedulingQueues(S) ==
  [n \in Names |-> IF sched[n] = Nil /\ n \in S THEN GetQueue[n] ELSE sched[n]]

Idle == [phase |-> "idle", app |-> Nil, name |-> NoName]
SchedulerFree == process = "up" /\ placing = Idle

(* updateSchedulingPartitions, then the waiting update is answered. *)
SyncScheduler ==
  /\ SchedulerFree /\ sync
  /\ sched' = WithSchedulingQueues(Names)
  /\ sync' = FALSE
  /\ UNCHANGED <<objs, appVars, conf, applied, rules, reload, locked, reloads, placing, cleaner, process>>

(* addNewApplication of the cache: the queue need not exist. *)
SubmitApplication(app, n) ==
  /\ process # "crashed" /\ ~Reloading
  /\ appState[app] = "none"
  /\ rules \/ "submitUnknown" \in May \/ GetQueue[n] # Nil
  /\ appState'  = [appState EXCEPT ![app] = "cached"]
  /\ appQueue'  = [appQueue EXCEPT ![app] = n]
  /\ leafQueue' = [leafQueue EXCEPT ![app] = GetQueue[n]]
  /\ UNCHANGED <<objs, sched, schedApps, charged, confVars, placing, cleaner, process>>

Answer(app, s) ==
  /\ appState' = [appState EXCEPT ![app] = s]
  /\ placing' = Idle

(* CreateQueues: unmanaged queues from the first missing level down to n,  *)
(* where only n is a leaf.  When the first cannot be added the others hang *)
(* in the air and nobody finds them.                                       *)
Existing[n \in Names] == IF GetQueue[n] # Nil THEN n ELSE Existing[ParentOf[n]]

CreateQueues(n) ==
  LET make[m \in Names] ==
        IF GetQueue[m] # Nil THEN [objs |-> objs, at |-> GetQueue[m]]
        ELSE LET up == make[ParentOf[m]] IN
             [objs |-> WithChild(up.objs, up.at, m, NewQueue(m, up.at, m = n, FALSE)),
              at |-> Len(up.objs) + 1]
  IN  make[n].objs

(* PlaceApplication: the rules return n, which is created when it is not   *)
(* there.                                                                  *)
PlaceApplication(app, n) ==
  LET top == GetQueue[Existing[n]] IN
  /\ SchedulerFree /\ rules /\ appState[app] = "cached"
  /\ \A m \in NamePath[n] : /\ GetQueue[m] # Nil \/ m \in Created
                            /\ "reuseRemoved" \in May \/ Fresh(m)
  /\ \/ /\ GetQueue[n] = Nil /\ objs[top].leaf
        /\ Answer(app, "rejected")
        /\ UNCHANGED objs
     \/ /\ GetQueue[n] # Nil \/ ~objs[top].leaf
        /\ GetQueue[n] = Nil => Free(top)
        /\ objs' = IF GetQueue[n] = Nil /\ CanAddChild(top) THEN CreateQueues(n) ELSE objs
        /\ placing' = [phase |-> "set", app |-> app, name |-> n]
        /\ UNCHANGED appState
  /\ UNCHANGED <<sched, schedApps, appQueue, leafQueue, charged, confVars, cleaner, process>>

(* ... or no rule returns a queue that the user may submit to. *)
RefusePlacement(app) ==
  /\ SchedulerFree /\ rules /\ appState[app] = "cached"
  /\ Answer(app, "rejected")
  /\ UNCHANGED <<objs, sched, schedApps, appQueue, leafQueue, charged, confVars, cleaner, process>>

(* SetQueue looks the queue up again and panics when it is not there. *)
SetQueue ==
  LET o == GetQueue[placing.name] IN
  /\ process = "up" /\ placing.phase = "set"
  /\ \/ /\ o = Nil
        /\ process' = "crashed"
        /\ UNCHANGED <<appQueue, leafQueue, placing>>
     \/ /\ o # Nil
        /\ leafQueue' = [leafQueue EXCEPT ![placing.app] = o]
        /\ appQueue'  = [appQueue EXCEPT ![placing.app] = placing.name]
        /\ placing' = [placing EXCEPT !.phase = "find"]
        /\ UNCHANGED process
  /\ UNCHANGED <<objs, sched, schedApps, appState, charged, confVars, cleaner>>

(* Without placement rules the submitted name is used. *)
UseSubmitted(app) ==
  /\ SchedulerFree /\ ~rules /\ appState[app] = "cached"
  /\ placing' = [phase |-> "find", app |-> app, name |-> appQueue[app]]
  /\ UNCHANGED <<objs, sched, appVars, confVars, cleaner, process>>

(* AddSchedulingApplication finds a leaf queue, or createSchedulingQueue   *)
(* makes one for a queue of the cache.  The search for an existing parent  *)
(* cuts the full name in every round, so that it never looks further up    *)
(* than one level; the new queue is not checked to be a leaf.  The user    *)
(* may have no access to the queue, or to the parent of the new one.       *)
FindQueue ==
  LET n == placing.name IN
  /\ process = "up" /\ placing.phase = "find"
  /\ \/ /\ sched[n] # Nil
        /\ IF objs[sched[n]].leaf
           THEN placing' = [placing EXCEPT !.phase = "add"] /\ UNCHANGED appState
           ELSE Answer(placing.app, "rejected")
        /\ UNCHANGED <<sched, process>>
     \/ /\ sched[n] = Nil /\ sched[ParentOf[n]] = Nil
        /\ process' = "hung"
        /\ UNCHANGED <<sched, placing, appState>>
     \/ /\ sched[n] = Nil /\ sched[ParentOf[n]] # Nil
        /\ IF GetQueue[n] = Nil
           THEN Answer(placing.app, "rejected") /\ UNCHANGED sched
           ELSE /\ sched' = WithSchedulingQueues({ m \in Names : n \in NamePath[m] })
                /\ placing' = [placing EXCEPT !.phase = "add"]
                /\ UNCHANGED appState
        /\ UNCHANGED process
     \/ /\ sched[n] # Nil \/ sched[ParentOf[n]] # Nil
        /\ Answer(placing.app, "rejected")
        /\ UNCHANGED <<sched, process>>
  /\ UNCHANGED <<objs, schedApps, appQueue, leafQueue, charged, confVars, cleaner>>

AddSchedulingApplication ==
  /\ process = "up" /\ placing.phase = "add"
  /\ schedApps' = [schedApps EXCEPT ![placing.name] = @ \cup {placing.app}]
  /\ Answer(placing.app, "accepted")
  /\ UNCHANGED <<objs, sched, appQueue, leafQueue, charged, confVars, cleaner, process>>

(* RemoveSchedulingApplication panics when it cannot find the queue. *)
RemoveSchedulingApplication(app) ==
  LET n == appQueue[app] IN
  /\ SchedulerFree /\ appState[app] = "accepted"
  /\ IF sched[n] = Nil
     THEN process' = "crashed" /\ UNCHANGED <<schedApps, appState>>
     ELSE /\ schedApps' = [schedApps EXCEPT ![n] = @ \ {app}]
          /\ appState' = [appState EXCEPT ![app] = "leaving"]
          /\ UNCHANGED process
  /\ UNCHANGED <<objs, sched, appQueue, leafQueue, charged, confVars, placing, cleaner>>

-----------------------------------------------------------------------------
(* The cache's scheduler goroutine: one allocation per application.        *)

AddTo(S, k) == [o \in Ids |-> IF o \in S THEN [objs[o] EXCEPT !.alloc = @ + k] ELSE objs[o]]

(* addNewAllocation charges the queue that has the name now. *)
ChargeQueue(app) ==
  LET o == GetQueue[appQueue[app]] IN
  /\ process = "up" /\ ~Reloading
  /\ appState[app] = "accepted" /\ charged[app] = Nil
  /\ o # Nil /\ objs[o].leaf
  /\ \A p \in Ancestors(o) : Free(p)
  /\ objs' = AddTo(Ancestors(o), 1)
  /\ charged' = [charged EXCEPT ![app] = o]
  /\ UNCHANGED <<sched, schedApps, appState, appQueue, leafQueue, confVars, placing, cleaner, process>>

(* Mutant: the check against going below zero is missing, and a release   *)
(* is repeated when the application is removed.                            *)
ReleaseQueueAgain(app) ==
  LET o == leafQueue[app]
      up == IF o = Nil THEN {} ELSE Ancestors(o) IN
  /\ process = "up" /\ ~Reloading
  /\ charged[app] # Nil \/ appState[app] = "leaving"
  /\ \A p \in up : Free(p)
  /\ objs' = AddTo(up, 0 - 1)
  /\ charged' = [charged EXCEPT ![app] = Nil]
  /\ appState' = [appState EXCEPT ![app] = IF @ = "leaving" THEN "gone" ELSE @]
  /\ UNCHANGED <<sched, schedApps, appQueue, leafQueue, confVars, placing, cleaner, process>>

(* A release, and RemoveApplication after the scheduler let go, give back  *)
(* to the queue the application points to, as far as that is possible.     *)
ReleaseQueue(app) ==
  LET o == leafQueue[app]
      up == IF o = Nil THEN {} ELSE Ancestors(o) IN
  /\ process = "up" /\ ~Reloading
  /\ charged[app] # Nil \/ appState[app] = "leaving"
  /\ \A p \in up : Free(p)
  /\ objs' = IF charged[app] # Nil /\ \A p \in up : objs[p].alloc > 0 THEN AddTo(up, 0 - 1) ELSE objs
  /\ charged' = [charged EXCEPT ![app] = Nil]
  /\ appState' = [appState EXCEPT ![app] = IF @ = "leaving" THEN "gone" ELSE @]
  /\ UNCHANGED <<sched, schedApps, appQueue, leafQueue, confVars, placing, cleaner, process>>

-----------------------------------------------------------------------------
(* The partition manager's cleaner: again and again it walks over the      *)
(* scheduling queues.  What a queue looked like at one step may have       *)
(* changed at the next.                                                    *)

Resting == [phase |-> "idle", queue |-> Nil, name |-> NoName]

Removable(o) == objs[o].state = "Draining" \/ ~objs[o].managed

(* cleanQueues looks at one scheduling queue. *)
CleanQueue(n) ==
  /\ process # "crashed" /\ cleaner = Resting
  /\ n # Root /\ sched[n] # Nil
  /\ Removable(sched[n])
  /\ schedApps[n] = {}
  /\ cleaner' = [phase |-> "check", queue |-> sched[n], name |-> n]
  /\ UNCHANGED <<objs, sched, appVars, confVars, placing, process>>

(* Mutant: the queue is removed although something is allocated in it. *)
CheckRemovalIgnoringAllocated ==
  LET o == cleaner.queue IN
  /\ process # "crashed" /\ cleaner.phase = "check"
  /\ o \notin locked
  /\ cleaner' = IF Removable(o) /\ objs[o].children = {}
                THEN [cleaner EXCEPT !.phase = "unlink"]
                ELSE Resting
  /\ UNCHANGED <<objs, sched, appVars, confVars, placing, process>>

(* Mutant: a managed queue is never removed, whatever its state. *)
CheckRemovalUnmanaged ==
  LET o == cleaner.queue IN
  /\ process # "crashed" /\ cleaner.phase = "check"
  /\ o \notin locked
  /\ cleaner' = IF ~objs[o].managed /\ objs[o].children = {} /\ objs[o].alloc = 0
                THEN [cleaner EXCEPT !.phase = "unlink"]
                ELSE Resting
  /\ UNCHANGED <<objs, sched, appVars, confVars, placing, process>>

(* QueueInfo.RemoveQueue takes the lock of the queue and checks it ... *)
CheckRemoval ==
  LET o == cleaner.queue IN
  /\ process # "crashed" /\ cleaner.phase = "check"
  /\ o \notin locked
  /\ cleaner' = IF Removable(o) /\ objs[o].children = {} /\ objs[o].alloc = 0
                THEN [cleaner EXCEPT !.phase = "unlink"]
                ELSE Resting
  /\ UNCHANGED <<objs, sched, appVars, confVars, placing, process>>

(* ... and with that lock held takes the lock of the parent, to delete the *)
(* name from its children, whatever object the name stands for by now.     *)
UnlinkQueue ==
  LET parent == objs[cleaner.queue].parent IN
  /\ process # "crashed" /\ cleaner.phase = "unlink"
  /\ parent \notin locked
  /\ objs' = [objs EXCEPT ![parent].children =
                            { c \in @ : objs[c].name # cleaner.name }]
  /\ cleaner' = [cleaner EXCEPT !.phase = "unlinked"]
  /\ UNCHANGED <<sched, appVars, confVars, placing, process>>

(* Mutant: the child is deleted under the key it was stored with. *)
DeleteShortKey(parent, name) ==
  [n \in Names |-> IF n # Root /\ ParentOf[n] = parent /\ ShortName[n] = ShortName[name]
                   THEN Nil ELSE sched[n]]

(* SchedulingQueue.removeChildQueue: children are stored under their short *)
(* name.                                                                   *)
DeleteKey(parent, key) ==
  [n \in Names |-> IF n # Root /\ ParentOf[n] = parent /\ ShortName[n] = key
                   THEN Nil ELSE sched[n]]

(* SchedulingQueue.RemoveQueue asks the parent to delete the full name. *)
UnlinkSchedulingQueue ==
  LET n == cleaner.name IN
  /\ process # "crashed" /\ cleaner.phase = "unlinked"
  /\ sched' = IF /\ Removable(cleaner.queue)
                 /\ \A m \in Children(n) : sched[m] = Nil
                 /\ schedApps[n] = {}
              THEN DeleteKey(ParentOf[n], n) ELSE sched
  /\ cleaner' = Resting
  /\ UNCHANGED <<objs, appVars, confVars, placing, process>>

-----------------------------------------------------------------------------
(* addQueueInfo and NewSchedulingQueueInfo for the first configuration. *)
FirstObjs(c) ==
  LET order == <<Root>> \o SetToSeq(c \ {Root})
      id(n) == CHOOSE i \in DOMAIN order : order[i] = n IN
  [i \in DOMAIN order |->
     LET n == order[i] IN
     [NewQueue(n, IF n = Root THEN Nil ELSE id(ParentOf[n]), n \notin Parents, TRUE)
        EXCEPT !.children = { id(m) : m \in Children(n) \cap c }]]

Init ==
  /\ conf \in Configs
  /\ objs = FirstObjs(conf)
  /\ sched = [n \in Names |-> IF n \in conf THEN CHOOSE o \in Ids : objs[o].name = n ELSE Nil]
  /\ schedApps = [n \in Names |-> {}]
  /\ appState = [a \in Apps |-> "none"]
  /\ appQueue = [a \in Apps |-> NoName]
  /\ leafQueue = [a \in Apps |-> Nil]
  /\ charged = [a \in Apps |-> Nil]
  /\ applied = TRUE /\ rules \in BOOLEAN /\ reload = NoReload /\ locked = {} /\ sync = FALSE /\ reloads = 0
  /\ placing = Idle /\ cleaner = Resting /\ process = "up"

Next ==
  \/ \E c \in Configs : StartReload(c)
  \/ UpdateQueue \/ PruneQueues \/ MarkQueueForRemoval \/ UnlockQueue
  \/ SyncScheduler
  \/ \E app \in Apps, n \in Submitted : SubmitApplication(app, n)
  \/ \E app \in Apps, n \in Placed : PlaceApplication(app, n)
  \/ \E app \in Apps : RefusePlacement(app) \/ UseSubmitted(app)
  \/ SetQueue \/ FindQueue \/ AddSchedulingApplication
  \/ \E app \in Apps : \/ RemoveSchedulingApplication(app)
                        \/ ChargeQueue(app) \/ ReleaseQueue(app)
  \/ \E n \in Names : CleanQueue(n)
  \/ CheckRemoval \/ UnlinkQueue \/ UnlinkSchedulingQueue

Spec == Init /\ [][Next]_vars

(* Every goroutine goes on unless it is blocked.  The cleaner comes to     *)
(* every queue again.  Nothing is assumed of users and administrators.     *)
Reload == UpdateQueue \/ PruneQueues \/ MarkQueueForRemoval \/ UnlockQueue
Clean  == CheckRemoval \/ UnlinkQueue \/ UnlinkSchedulingQueue
Place(app) == RefusePlacement(app) \/ UseSubmitted(app) \/ \E n \in Placed : PlaceApplication(app, n)

CleanerFairness ==
  /\ WF_vars(Reload)
  /\ \A n \in Names \ {Root} : SF_vars(CleanQueue(n))
  /\ WF_vars(Clean)

SchedulerFairness ==
  /\ SF_vars(SyncScheduler)
  /\ \A app \in Apps : SF_vars(Place(app))
  /\ WF_vars(SetQueue \/ FindQueue \/ AddSchedulingApplication)

CleanedSpec == Spec /\ CleanerFairness
FairSpec == CleanedSpec /\ SchedulerFairness

-----------------------------------------------------------------------------
(* Properties *)

(* Every variable has its type, and every object is reached only through   *)
(* the parent it points to.                                                *)
QueueTypeOK ==
  /\ objs \in Seq(QueueInfo)
  /\ \A o \in Ids : \A c \in objs[o].children : c \in Ids /\ objs[c].parent = o
  /\ sched \in [Names -> Ids \cup {Nil}]
  /\ schedApps \in [Names -> SUBSET Apps]
  /\ appState \in [Apps -> {"none", "cached", "accepted", "rejected", "leaving", "gone"}]
  /\ appQueue \in [Apps -> Names \cup {NoName}]
  /\ leafQueue \in [Apps -> Ids \cup {Nil}]
  /\ charged \in [Apps -> Ids \cup {Nil}]
  /\ conf \in Configs /\ {applied, rules} \subseteq BOOLEAN /\ locked \subseteq Ids /\ sync \in BOOLEAN /\ reloads \in 0 .. MaxReloads
  /\ process \in {"up", "hung", "crashed"}

(* RemoveSchedulingApplication finds the queue of every application it may *)
(* be called for ("This is not normal", panic): no interleaving of the     *)
(* cleaner with the placement leaves an application in a queue that cannot *)
(* be found.                                                               *)
AppsFindable ==
  \A n \in Names : schedApps[n] # {} => sched[n] # Nil

(* "A managed queue will only be removed if it is removed from the         *)
(* configuration": after an update was applied every configured queue is   *)
(* there and does not drain, and a queue that is not configured drains, or *)
(* was never managed.                                                      *)
ManagedActive(n) ==
  GetQueue[n] # Nil /\ objs[GetQueue[n]].managed /\ objs[GetQueue[n]].state = "Active"

ConfigApplied ==
  applied => \A n \in Names : ManagedActive(n) <=> n \in conf

(* Whatever is created and removed: a charge sits on a queue that can be   *)
(* found by its name and that the application will give it back to, and    *)
(* the counter of every queue is the sum of what is charged below it.      *)
ChargesReturn ==
  /\ \A app \in Apps : charged[app] # Nil =>
       leafQueue[app] = charged[app] /\ Linked(charged[app])
  /\ \A o \in Ids :
       objs[o].alloc = Cardinality({ a \in Apps : charged[a] # Nil /\ o \in Ancestors(charged[a]) })

(* The cleaner holds a queue and waits for its parent, the configuration   *)
(* update holds the parent and waits for the queue.                        *)
Deadlocked ==
  /\ cleaner.phase = "unlink" /\ objs[cleaner.queue].parent \in locked
  /\ Reloading /\ Head(reload.steps) = [do |-> "mark", on |-> cleaner.queue]

(* "All managed queues that are draining and empty are removed", "Whenever *)
(* an unmanaged queue is empty it will get removed": no such queue stays   *)
(* for ever, as long as the process lives and the two do not block each    *)
(* other.                                                                  *)
Finished(n) ==
  LET o == GetQueue[n] IN
  /\ o # Nil /\ n # Root /\ sched[n] = o
  /\ Removable(o) /\ objs[o].children = {} /\ objs[o].alloc = 0 /\ schedApps[n] = {}

EmptyQueuesGo ==
  \A n \in Names : []<>(~Finished(n) \/ Deadlocked \/ process = "crashed")

(* Every application is accepted or rejected. *)
SubmissionsAnswered ==
  \A app \in Apps : appState[app] = "cached" ~> appState[app] # "cached"
=============================================================================
