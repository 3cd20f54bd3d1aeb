------------------------------ MODULE TaskStore ------------------------------
(***************************************************************************)
(* task_store.rs and replica_registry.rs over the gateway's remote         *)
(* storage, which is external.                                             *)
(*                                                                         *)
(* Each replica writes tasks and indexes under keys of its own; reads fan  *)
(* out over the replicas of the registry.  A call runs on one replica and  *)
(* gives up control at its storage calls: an action is one storage call    *)
(* with the computation up to the next.  The calls are                     *)
(*                                                                         *)
(*   persist   create -> (readIndex -> writeIndex)* | (reread -> rewrite)* *)
(*   put       create -> (readIndex -> writeIndex)* | overwrite            *)
(*   list      replicas -> index* -> (fanOut -> slice* )*                  *)
(*   load      fanOut -> slice*                                            *)
(*   register  readRegistry -> writeRegistry                               *)
(*                                                                         *)
(* put is what dispatch makes of the interface: create, else update, with  *)
(* times and histories left empty.  The policy itself calls put only; the  *)
(* others are called by the tests.  A key's version counts its writes, as  *)
(* in the storage of the tests; a key without a value has version 0.       *)
(*                                                                         *)
(* A fault is a storage call that fails, a write that takes effect         *)
(* although its answer was lost, or a crash.                               *)
(***************************************************************************)
EXTENDS Integers, FiniteSets, SequencesExt

CONSTANTS
  Replicas, Tasks, Contexts, Users,
  NoUser,         \* the empty user id
  ContextOf,      \* the context of each task
  UserOf,         \* the user of each task, or NoUser
  PutTasks,       \* the tasks that are written with put; the others, with persist
  Writers,        \* the calls that write a task
  Readers,        \* the calls that read
  Starting,       \* the replicas that start, and register, while others run
  Registered,     \* the registry at first
  MaxClock,       \* bound on the clock, in seconds
  FaultKinds,     \* the kinds of faults that happen
  MaxFaults       \* bound: how many of them

Keys  == Contexts \union Users
Calls == Writers \union Readers \union Starting   \* a start is named by its replica

ASSUME TaskStoreAssumption ==
  /\ Replicas # {} /\ Tasks # {}
  /\ NoUser \notin Keys /\ Contexts \intersect Users = {}
  /\ ContextOf \in [Tasks -> Contexts]
  /\ UserOf \in [Tasks -> Users \union {NoUser}]
  /\ PutTasks \subseteq Tasks
  /\ Starting \subseteq Replicas
  /\ Registered \in Seq(Replicas \ Starting)
  /\ Writers \intersect Readers = {}
  /\ (Writers \union Readers) \intersect Replicas = {}
  /\ MaxClock \in Nat
  /\ FaultKinds \subseteq {"error", "timeout", "crash"}
  /\ MaxFaults \in Nat

MaxRetries == 3

VARIABLES
  task,       \* pod:{replica}:task:{id}
  index,      \* pod:{replica}:ctx:{id} and pod:{replica}:user:{id}
  registry,   \* replica-registry
  call,       \* the calls
  clock,      \* now_unix_secs
  faults      \* how many faults have happened

vars == <<task, index, registry, call, clock, faults>>
stored == <<task, index, registry>>

\* A task record: when it was created, when its snapshot was taken, and the turns
\* of this replica.  A turn is named by the call that wrote it.
NoTask  == [ver |-> 0, created |-> 0, updated |-> 0, turns |-> <<>>]
NoIndex == [ver |-> 0, ids |-> <<>>]

\* The first four fields are the arguments of a call, the last four are recorded
\* for the properties; the others are its locals.
Fresh ==
  [pc |-> "new", replica |-> CHOOSE p \in Replicas : TRUE,
   task |-> CHOOSE t \in Tasks : TRUE, key |-> NoUser,
   now |-> 0, ver |-> 0, ids |-> <<>>, turns |-> <<>>, made |-> 0, tries |-> 0,
   left |-> <<>>, todo |-> <<>>, newest |-> {}, found |-> {},
   created |-> FALSE,  \* the call created the record
   hit |-> FALSE,      \* a fault met the call
   due |-> {},         \* the tasks that were listed when the call began to read
   owed |-> {}]        \* the turns that were there when it began to load a task

At(x, pc) == call[x].pc = pc
Becomes(x, c) == call' = [call EXCEPT ![x] = c]

NoFault == UNCHANGED faults
Fault(kind) ==
  /\ kind \in FaultKinds
  /\ faults < MaxFaults
  /\ faults' = faults + 1

\* The call returns; what it has found is the answer of a reader.
Done(c) ==
  [c EXCEPT !.pc = "done", !.ver = 0, !.ids = <<>>, !.turns = <<>>, !.made = 0,
            !.tries = 0, !.left = <<>>, !.todo = <<>>, !.newest = {}]

Hit(c) == [c EXCEPT !.hit = TRUE]

\* A replica takes calls once it has registered.
Up(p) == p \notin {s \in Starting : ~At(s, "done")}

----------------------------------------------------------------------------
(* create *)

\* persist stamps the record with the time it is called at; dispatch, with 0.
BeginWrite(x, p, t) ==
  /\ At(x, "new") /\ Up(p)
  /\ Becomes(x, [call[x] EXCEPT !.pc = "create", !.replica = p, !.task = t,
                                !.now = IF t \in PutTasks THEN 0 ELSE clock])
  /\ UNCHANGED <<stored, clock, faults>>

\* The turns of this call: dispatch keeps none.
OwnTurns(x) == IF call[x].task \in PutTasks THEN <<>> ELSE <<x>>

Snapshot(x, ver, created, turns) ==
  [ver |-> ver, created |-> created, updated |-> call[x].now, turns |-> turns]

\* Mutant: the record is indexed whether or not it was written.
CreateTaskRegardless(x) ==
  LET c == call[x]
      next == [c EXCEPT !.pc = "readIndex", !.key = ContextOf[c.task]]
  IN
  /\ At(x, "create")
  /\ \/ /\ NoFault /\ task[c.replica][c.task].ver = 0
        /\ task' = [task EXCEPT ![c.replica][c.task] = Snapshot(x, 1, c.now, OwnTurns(x))]
        /\ Becomes(x, next)
     \/ Fault("error") /\ UNCHANGED task /\ Becomes(x, Hit(next))
  /\ UNCHANGED <<index, registry, clock>>

\* StoreMode::Absent.  A call that is told of any error takes the record for an
\* existing one.
CreateTask(x) ==
  LET c == call[x]
      absent  == task[c.replica][c.task].ver = 0
      Write   == task' = [task EXCEPT ![c.replica][c.task] =
                            Snapshot(x, 1, c.now, OwnTurns(x))]
      refused == [c EXCEPT !.pc = IF c.task \in PutTasks THEN "overwrite" ELSE "reread"]
  IN
  /\ At(x, "create")
  /\ \/ /\ NoFault /\ absent /\ Write
        /\ Becomes(x, [c EXCEPT !.pc = "readIndex", !.key = ContextOf[c.task],
                                !.created = TRUE])
     \/ NoFault /\ ~absent /\ UNCHANGED task /\ Becomes(x, refused)
     \/ Fault("error") /\ UNCHANGED task /\ Becomes(x, Hit(refused))
     \/ Fault("timeout") /\ absent /\ Write /\ Becomes(x, Hit(refused))
  /\ UNCHANGED <<index, registry, clock>>

----------------------------------------------------------------------------
(* append_to_index: for the context, then for the user if there is one. *)

\* Mutant: the empty user id gets an index too.
NextKeyAlways(c) ==
  IF c.key = ContextOf[c.task]
    THEN [c EXCEPT !.pc = "readIndex", !.key = UserOf[c.task], !.tries = 0]
    ELSE Done(c)

NextKey(c) ==
  IF c.key = ContextOf[c.task] /\ UserOf[c.task] # NoUser
    THEN [c EXCEPT !.pc = "readIndex", !.key = UserOf[c.task], !.tries = 0]
    ELSE Done(c)

ReadIndex(x) ==
  LET c == call[x]
      i == index[c.replica][c.key]
  IN
  /\ At(x, "readIndex")
  /\ \/ NoFault /\ Becomes(x, [c EXCEPT !.pc = "writeIndex", !.ver = i.ver, !.ids = i.ids])
     \/ Fault("error") /\ Becomes(x, NextKey(Hit(c)))
  /\ UNCHANGED <<stored, clock>>

\* Mutant: the version is not checked.
WriteIndexAlways(x) ==
  LET c == call[x] IN
  /\ At(x, "writeIndex") /\ NoFault
  /\ index' = [index EXCEPT ![c.replica][c.key] =
                 [ver |-> @.ver + 1, ids |-> Append(c.ids, c.task)]]
  /\ Becomes(x, NextKey(c))
  /\ UNCHANGED <<task, registry, clock>>

\* StoreMode::Cas of the version read, or Absent.
WriteIndex(x) ==
  LET c == call[x]
      fresh == index[c.replica][c.key].ver = c.ver
      Write == index' = [index EXCEPT ![c.replica][c.key] =
                           [ver |-> c.ver + 1, ids |-> Append(c.ids, c.task)]]
  IN
  /\ At(x, "writeIndex")
  /\ \/ NoFault /\ fresh /\ Write /\ Becomes(x, NextKey(c))
     \/ /\ NoFault /\ ~fresh /\ UNCHANGED index
        /\ Becomes(x, IF c.tries + 1 < MaxRetries
                        THEN [c EXCEPT !.pc = "readIndex", !.tries = @ + 1]
                        ELSE NextKey(c))
     \/ Fault("error") /\ UNCHANGED index /\ Becomes(x, NextKey(Hit(c)))
     \/ Fault("timeout") /\ fresh /\ Write /\ Becomes(x, NextKey(Hit(c)))
  /\ UNCHANGED <<task, registry, clock>>

----------------------------------------------------------------------------
(* update_task_entry, and update. *)

RereadTask(x) ==
  LET c   == call[x]
      old == task[c.replica][c.task]
  IN
  /\ At(x, "reread")
  /\ \/ /\ NoFault
        /\ Becomes(x, [c EXCEPT !.pc = "rewrite", !.ver = old.ver, !.turns = old.turns,
                                !.made = IF old.ver = 0 THEN c.now ELSE old.created])
     \/ Fault("error") /\ Becomes(x, Done(Hit(c)))
  /\ UNCHANGED <<stored, clock>>

\* Mutant: a lost round ends the call.
RewriteTaskOnce(x) ==
  LET c == call[x] IN
  /\ At(x, "rewrite") /\ NoFault
  /\ task' = IF task[c.replica][c.task].ver # c.ver THEN task
             ELSE [task EXCEPT ![c.replica][c.task] =
                     Snapshot(x, c.ver + 1, c.made, c.turns \o OwnTurns(x))]
  /\ Becomes(x, Done(c))
  /\ UNCHANGED <<index, registry, clock>>

\* Mutant: created_at is this call's own.
RewriteTaskAnew(x) ==
  LET c == call[x] IN
  /\ At(x, "rewrite") /\ NoFault /\ task[c.replica][c.task].ver = c.ver
  /\ task' = [task EXCEPT ![c.replica][c.task] =
                Snapshot(x, c.ver + 1, c.now, c.turns \o OwnTurns(x))]
  /\ Becomes(x, Done(c))
  /\ UNCHANGED <<index, registry, clock>>

RewriteTask(x) ==
  LET c == call[x]
      fresh == task[c.replica][c.task].ver = c.ver
      Write == task' = [task EXCEPT ![c.replica][c.task] =
                          Snapshot(x, c.ver + 1, c.made, c.turns \o OwnTurns(x))]
  IN
  /\ At(x, "rewrite")
  /\ \/ NoFault /\ fresh /\ Write /\ Becomes(x, Done(c))
     \/ /\ NoFault /\ ~fresh /\ UNCHANGED task
        /\ Becomes(x, IF c.tries + 1 < MaxRetries
                        THEN [c EXCEPT !.pc = "reread", !.tries = @ + 1]
                        ELSE Done(c))
     \/ Fault("error") /\ UNCHANGED task /\ Becomes(x, Done(Hit(c)))
     \/ Fault("timeout") /\ fresh /\ Write /\ Becomes(x, Done(Hit(c)))
  /\ UNCHANGED <<index, registry, clock>>

\* StoreMode::Always.
OverwriteTask(x) ==
  LET c == call[x]
      Write == task' = [task EXCEPT ![c.replica][c.task] =
                          Snapshot(x, @.ver + 1, c.now, OwnTurns(x))]
  IN
  /\ At(x, "overwrite")
  /\ \/ NoFault /\ Write /\ Becomes(x, Done(c))
     \/ Fault("error") /\ UNCHANGED task /\ Becomes(x, Done(Hit(c)))
     \/ Fault("timeout") /\ Write /\ Becomes(x, Done(Hit(c)))
  /\ UNCHANGED <<index, registry, clock>>
----------------------------------------------------------------------------
(* load, list and list_by_user. *)

\* k is the context or the user whose tasks are listed.
BeginList(x, p, k) ==
  /\ At(x, "new") /\ Up(p)
  /\ Becomes(x, [call[x] EXCEPT !.pc = "replicas", !.replica = p, !.key = k])
  /\ UNCHANGED <<stored, clock, faults>>

BeginLoad(x, p, t) ==
  /\ At(x, "new") /\ Up(p)
  /\ Becomes(x, [call[x] EXCEPT !.pc = "fanOut", !.replica = p, !.todo = <<t>>])
  /\ UNCHANGED <<stored, clock, faults>>

\* list_replicas: without a registry there is only this replica.
Listing(p) == IF registry = <<>> THEN <<p>> ELSE registry

Tell(c, replicas, pc) ==
  [c EXCEPT !.pc = pc, !.left = replicas,
     !.due = @ \union IF pc = "index"
                        THEN UNION {ToSet(index[p][c.key].ids) : p \in ToSet(replicas)}
                        ELSE {},
     !.owed = @ \union IF pc = "slice"
                         THEN {Head(c.todo)} \X
                              UNION {ToSet(task[p][Head(c.todo)].turns) : p \in ToSet(replicas)}
                         ELSE {}]

ListReplicas(x) ==
  LET c  == call[x]
      pc == IF At(x, "replicas") THEN "index" ELSE "slice"
  IN
  /\ At(x, "replicas") \/ At(x, "fanOut")
  /\ \/ NoFault /\ Becomes(x, Tell(c, Listing(c.replica), pc))
     \/ Fault("error") /\ Becomes(x, Hit(Tell(c, <<c.replica>>, pc)))
  /\ UNCHANGED <<stored, clock>>

\* Mutant: the index of the first replica is enough.
ReadNextIndexOnly(x) ==
  LET c == call[x] IN
  /\ At(x, "index") /\ NoFault
  /\ Becomes(x, LET all == index[Head(c.left)][c.key].ids IN
                IF all = <<>> THEN Done(c) ELSE [c EXCEPT !.pc = "fanOut", !.todo = all])
  /\ UNCHANGED <<stored, clock>>

\* The index of one replica; each id that is new is loaded afterwards, once, in some
\* order.
ReadNextIndex(x) ==
  LET c == call[x]
      With(ids) ==
        LET all  == c.todo \o SetToSeq(ToSet(ids) \ ToSet(c.todo))
            left == Tail(c.left)
        IN  IF left # <<>>     THEN [c EXCEPT !.todo = all, !.left = left]
            ELSE IF all = <<>> THEN Done(c)
            ELSE [c EXCEPT !.todo = all, !.left = left, !.pc = "fanOut"]
  IN
  /\ At(x, "index")
  /\ \/ NoFault /\ Becomes(x, With(index[Head(c.left)][c.key].ids))
     \/ Fault("error") /\ Becomes(x, Hit(With(<<>>)))
  /\ UNCHANGED <<stored, clock>>

\* One replica's slice of the task: the newest snapshot, and the turns of all.
ReadNextSlice(x) ==
  LET c == call[x]
      t == Head(c.todo)
      With(r) ==
        LET newer  == r.ver # 0 /\ \A b \in c.newest : r.updated > b
            newest == IF newer THEN {r.updated} ELSE c.newest
            turns  == c.turns \o r.turns
            found  == IF newest = {} THEN c.found
                      ELSE c.found \union {[task |-> t, turns |-> ToSet(turns)]}
        IN  IF Tail(c.left) # <<>>
              THEN [c EXCEPT !.newest = newest, !.turns = turns, !.left = Tail(c.left)]
            ELSE IF Tail(c.todo) # <<>>
              THEN [c EXCEPT !.pc = "fanOut", !.todo = Tail(c.todo), !.left = <<>>,
                             !.newest = {}, !.turns = <<>>, !.found = found]
            ELSE Done([c EXCEPT !.found = found])
  IN
  /\ At(x, "slice")
  /\ \/ NoFault /\ Becomes(x, With(task[Head(c.left)][t]))
     \/ Fault("error") /\ Becomes(x, Hit(With(NoTask)))
  /\ UNCHANGED <<stored, clock>>

----------------------------------------------------------------------------
(* register, at the start of a replica. *)

ReadRegistry(p) ==
  LET c == call[p] IN
  /\ At(p, "new")
  /\ \/ /\ NoFault
        /\ Becomes(p, IF p \in ToSet(registry) THEN Done(c)
                      ELSE [c EXCEPT !.pc = "writeRegistry", !.replica = p,
                                     !.left = Append(registry, p)])
     \/ Fault("error") /\ Becomes(p, Done(Hit(c)))
  /\ UNCHANGED <<stored, clock>>

\* StoreMode::Always.
WriteRegistry(p) ==
  LET c == call[p] IN
  /\ At(p, "writeRegistry")
  /\ \/ NoFault /\ registry' = c.left /\ Becomes(p, Done(c))
     \/ Fault("error") /\ UNCHANGED registry /\ Becomes(p, Done(Hit(c)))
     \/ Fault("timeout") /\ registry' = c.left /\ Becomes(p, Done(Hit(c)))
  /\ UNCHANGED <<task, index, clock>>

----------------------------------------------------------------------------
\* The replica restarts, or the caller goes away.
Crash(x) ==
  /\ call[x].pc \notin {"new", "done"}
  /\ Fault("crash")
  /\ Becomes(x, Done(Hit(call[x])))
  /\ UNCHANGED <<stored, clock>>

Tick ==
  /\ clock < MaxClock
  /\ clock' = clock + 1
  /\ UNCHANGED <<stored, call, faults>>

Init ==
  /\ task     = [p \in Replicas |-> [t \in Tasks |-> NoTask]]
  /\ index    = [p \in Replicas |-> [k \in Keys |-> NoIndex]]
  /\ registry = Registered
  /\ call     = [x \in Calls |-> Fresh]
  /\ clock = 0 /\ faults = 0

Write(x) ==
  \/ \E p \in Replicas, t \in Tasks : BeginWrite(x, p, t)
  \/ CreateTask(x) \/ ReadIndex(x) \/ WriteIndex(x)
  \/ RereadTask(x) \/ RewriteTask(x) \/ OverwriteTask(x)

Read(x) ==
  \/ \E p \in Replicas, k \in Keys : BeginList(x, p, k)
  \/ \E p \in Replicas, t \in Tasks : BeginLoad(x, p, t)
  \/ ListReplicas(x) \/ ReadNextIndex(x) \/ ReadNextSlice(x)

Next ==
  \/ \E x \in Writers : Write(x)
  \/ \E x \in Readers : Read(x)
  \/ \E p \in Starting : ReadRegistry(p) \/ WriteRegistry(p)
  \/ \E x \in Calls : Crash(x)
  \/ Tick

Spec == Init /\ [][Next]_vars

----------------------------------------------------------------------------
(* Properties. *)

TypeOK ==
  /\ \A p \in Replicas, t \in Tasks :
       LET r == task[p][t] IN
       /\ {r.ver, r.created, r.updated} \subseteq Nat
       /\ r.turns \in Seq(Writers)
  /\ \A p \in Replicas, k \in Keys :
       index[p][k].ver \in Nat /\ index[p][k].ids \in Seq(Tasks)
  /\ registry \in Seq(Replicas)
  /\ \A x \in Calls :
       LET c == call[x] IN
       /\ c.replica \in Replicas /\ c.task \in Tasks
       /\ c.pc \in {"readIndex", "writeIndex", "index"} => c.key \in Keys
       /\ c.pc \in {"index", "slice"} => c.left # <<>>
       /\ c.pc \in {"fanOut", "slice"} => c.todo # <<>>
       /\ c.tries < MaxRetries

Occurrences(seq, e) == Cardinality({i \in DOMAIN seq : seq[i] = e})

\* What a persist has returned from is in the history, once: of up to MaxRetries
\* calls none is overwritten, dropped or repeated.
TurnsKept ==
  \A x \in Writers :
    LET c == call[x] IN
    At(x, "done") /\ ~c.hit /\ c.task \notin PutTasks =>
      Occurrences(task[c.replica][c.task].turns, x) = 1

\* A later persist keeps the turns before its own and the time of the creation.
RecordsOnlyGrow ==
  [][\A p \in Replicas, t \in Tasks \ PutTasks :
       LET old == task[p][t]
           new == task'[p][t]
       IN  old.ver # 0 => IsPrefix(old.turns, new.turns) /\ new.created = old.created]_vars

\* A task whose creation has returned is in the index of its context and of its
\* user, once, whatever else is created at the same time.
CreatedIsListed ==
  \A x \in Writers :
    LET c == call[x] IN
    At(x, "done") /\ c.created /\ ~c.hit =>
      \A k \in {ContextOf[c.task], UserOf[c.task]} \ {NoUser} :
        Occurrences(index[c.replica][k].ids, c.task) = 1

\* No index names a task that its replica does not have, also after a fault.
ListedExists ==
  \A p \in Replicas, k \in Keys : \A t \in ToSet(index[p][k].ids) : task[p][t].ver # 0

\* A read finds every task that was in an index of a listed replica when it began,
\* and every turn that was in a slice when it began to load the task: writes that
\* go on meanwhile hide nothing, nor does a replica that starts and adds itself to a
\* list with an entry.
ReadsAreComplete ==
  \A x \in Readers :
    LET c == call[x] IN
    At(x, "done") /\ ~c.hit =>
      /\ c.due \subseteq {f.task : f \in c.found}
      /\ \A o \in c.owed : \E f \in c.found : f.task = o[1] /\ o[2] \in f.turns

\* replica_registry.rs, register: a replica that has registered is in the registry.
RegistrationsKept ==
  \A p \in Starting : At(p, "done") /\ ~call[p].hit => p \in ToSet(registry)
=============================================================================
