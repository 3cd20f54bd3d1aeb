--------------------------- MODULE TaskStoreProofs ---------------------------
(***************************************************************************)
(* Theorems about TaskStore: what holds for any number of replicas, tasks, *)
(* calls and faults.                                                       *)
(*                                                                         *)
(* The argument of the first part is that of compare-and-set: a version    *)
(* grows with each write, so a call that finds the version it has read     *)
(* writes back what is there, with its own contribution added.             *)
(*                                                                         *)
(* The second part, about the calls that have returned, rests on counting. *)
(* A call that loses a round of compare-and-set has lost it to another     *)
(* call, and a call writes an index once, and a record once after its      *)
(* creation.  So as long as no more than MaxRetries calls write, no call   *)
(* gives up.                                                               *)
(***************************************************************************)
EXTENDS TaskStore, SequenceTheorems, FiniteSetTheorems, TLAPS

\* Sequences are expanded in few places only.
Ids      == Seq(Tasks)
Turns    == Seq(Writers)
Paths    == Seq(Replicas)

Record == [ver : Nat, created : Nat, updated : Nat, turns : Turns]
Index  == [ver : Nat, ids : Ids]

\* The record of a call that writes.
WriteCall ==
  [pc : {"new", "create", "readIndex", "writeIndex", "reread", "rewrite",
         "overwrite", "done"},
   replica : Replicas, task : Tasks, key : Keys \union {NoUser},
   now : Nat, ver : Nat, ids : Ids, turns : Turns, made : Nat,
   tries : Nat,
   left : Paths, todo : Ids, newest : SUBSET Nat,
   found : SUBSET [task : Tasks, turns : SUBSET Writers],
   created : BOOLEAN, hit : BOOLEAN, due : SUBSET Tasks,
   owed : SUBSET (Tasks \X Writers)]

\* A call that is about to index its task has made sure that the record exists.
Indexing(c, tasks) ==
  c.pc \in {"readIndex", "writeIndex"} =>
    c.key \in Keys /\ tasks[c.replica][c.task].ver # 0

\* What the call has read is what is there, unless the version has grown since.
IndexRead(c, indexes) ==
  c.pc = "writeIndex" =>
    LET i == indexes[c.replica][c.key] IN
    c.ver <= i.ver /\ (c.ver = i.ver => c.ids = i.ids)

TaskRead(c, tasks) ==
  /\ c.pc \in {"reread", "rewrite"} => c.task \notin PutTasks
  /\ c.pc = "overwrite" => c.task \in PutTasks
  /\ c.pc = "rewrite" =>
       LET t == tasks[c.replica][c.task] IN
       /\ c.ver <= t.ver
       /\ c.ver = t.ver => c.turns = t.turns /\ (t.ver # 0 => c.made = t.created)

CallOK(x) ==
  /\ call[x] \in WriteCall
  /\ Indexing(call[x], task) /\ IndexRead(call[x], index) /\ TaskRead(call[x], task)

Typed ==
  /\ task \in [Replicas -> [Tasks -> Record]]
  /\ index \in [Replicas -> [Keys -> Index]]
  /\ clock \in Nat

StoreInv ==
  /\ Typed
  /\ ListedExists
  /\ call \in [Calls -> {call[x] : x \in Calls}]
  /\ \A x \in Writers : CallOK(x)

\* What a step may do to the storage.
Grows ==
  /\ Typed'
  /\ ListedExists'
  /\ \A p \in Replicas, t \in Tasks :
       task'[p][t] = task[p][t] \/ task[p][t].ver < task'[p][t].ver
  /\ \A p \in Replicas, k \in Keys :
       index'[p][k] = index[p][k] \/ index[p][k].ver < index'[p][k].ver

----------------------------------------------------------------------------
(* Steps on the storage. *)

\* What a call has read stays true, or stays known to be old.
LEMMA ReadsKept ==
  ASSUME StoreInv, Grows, NEW c \in WriteCall, Indexing(c, task), IndexRead(c, index), TaskRead(c, task)
  PROVE  Indexing(c, task') /\ IndexRead(c, index') /\ TaskRead(c, task')
<1>1. c.replica \in Replicas /\ c.task \in Tasks /\ c.ver \in Nat
  BY DEF WriteCall
<1>2. /\ task[c.replica][c.task] \in Record /\ task'[c.replica][c.task] \in Record
      /\ \/ task'[c.replica][c.task] = task[c.replica][c.task]
         \/ task[c.replica][c.task].ver < task'[c.replica][c.task].ver
  BY <1>1 DEF StoreInv, Typed, Grows
<1>3. Indexing(c, task')
  BY <1>2 DEF Indexing, Record
<1>4. TaskRead(c, task')
  BY <1>1, <1>2 DEF TaskRead, Record
<1>5. IndexRead(c, index')
  <2>1. CASE c.pc = "writeIndex"
    <3>1. c.key \in Keys
      BY <2>1 DEF Indexing
    <3>2. /\ index[c.replica][c.key] \in Index /\ index'[c.replica][c.key] \in Index
          /\ \/ index'[c.replica][c.key] = index[c.replica][c.key]
             \/ index[c.replica][c.key].ver < index'[c.replica][c.key].ver
      BY <1>1, <3>1 DEF StoreInv, Typed, Grows
    <3> QED
      BY <1>1, <3>2 DEF IndexRead, Index
  <2> QED
    BY <2>1 DEF IndexRead
<1> QED
  BY <1>3, <1>4, <1>5

\* A step that leaves the storage alone.
LEMMA NothingStored ==
  ASSUME StoreInv, UNCHANGED <<task, index, clock>>
  PROVE  Grows
  BY DEF StoreInv, Grows, Typed, ListedExists

\* A record that is written with a new version.
LEMMA TaskWritten ==
  ASSUME StoreInv, UNCHANGED <<index, clock>>,
         NEW p \in Replicas, NEW t \in Tasks, NEW r \in Record,
         task[p][t].ver < r.ver, task' = [task EXCEPT ![p][t] = r]
  PROVE  Grows
<1> USE DEF StoreInv, Typed, Record
<1>1. \A q \in Replicas, u \in Tasks :
        task'[q][u] = IF q = p /\ u = t THEN r ELSE task[q][u]
  OBVIOUS
<1>2. task' \in [Replicas -> [Tasks -> Record]]
  OBVIOUS
<1>3. \A q \in Replicas, u \in Tasks : task[q][u].ver # 0 => task'[q][u].ver # 0
  BY <1>1
<1>4. \A q \in Replicas, k \in Keys : ToSet(index[q][k].ids) \subseteq Tasks
  BY DEF Index, ToSet, Ids
<1>5. ListedExists'
  BY <1>3, <1>4 DEF ListedExists
<1> QED
  BY <1>1, <1>2, <1>5 DEF Grows

\* An index that is written with a new version and a task that exists.
LEMMA IndexWritten ==
  ASSUME StoreInv, UNCHANGED <<task, clock>>,
         NEW p \in Replicas, NEW k \in Keys, NEW t \in Tasks, task[p][t].ver # 0,
         NEW j \in Index, index[p][k].ver < j.ver,
         ToSet(j.ids) = ToSet(index[p][k].ids) \union {t},
         index' = [index EXCEPT ![p][k] = j]
  PROVE  Grows
<1> USE DEF StoreInv, Typed
<1>1. \A q \in Replicas, l \in Keys :
        index'[q][l] = IF q = p /\ l = k THEN j ELSE index[q][l]
  OBVIOUS
<1>2. index' \in [Replicas -> [Keys -> Index]]
  OBVIOUS
<1>3. ListedExists'
  BY <1>1 DEF ListedExists
<1> QED
  BY <1>1, <1>2, <1>3 DEF Grows

LEMMA AppendToSet ==
  ASSUME NEW S, NEW s \in Seq(S), NEW e \in S
  PROVE  Append(s, e) \in Seq(S) /\ ToSet(Append(s, e)) = ToSet(s) \union {e}
<1>1. /\ Append(s, e) \in Seq(S)
      /\ Len(Append(s, e)) = Len(s) + 1
      /\ \A i \in 1..Len(s) : Append(s, e)[i] = s[i]
      /\ Append(s, e)[Len(s) + 1] = e
  BY AppendProperties
<1>2. /\ Len(s) \in Nat /\ DOMAIN s = 1..Len(s)
      /\ DOMAIN Append(s, e) = 1..(Len(s) + 1)
  BY <1>1, LenProperties
<1>3. \A i \in DOMAIN Append(s, e) : i \in DOMAIN s \/ i = Len(s) + 1
  BY <1>2
<1>4. DOMAIN s \subseteq DOMAIN Append(s, e) /\ Len(s) + 1 \in DOMAIN Append(s, e)
  BY <1>2
<1>5. \A i \in DOMAIN s : Append(s, e)[i] = s[i]
  BY <1>1, <1>2
<1> HIDE <1>2
<1>6. {Append(s, e)[i] : i \in DOMAIN Append(s, e)} = {s[i] : i \in DOMAIN s} \union {e}
  BY <1>1, <1>3, <1>4, <1>5
<1> QED
  BY <1>1, <1>6 DEF ToSet

\* The step of a call that writes.
LEMMA WriterMoves ==
  ASSUME StoreInv, Grows, NEW x \in Writers, NEW c \in WriteCall, Becomes(x, c),
         Indexing(c, task'), IndexRead(c, index'), TaskRead(c, task')
  PROVE  StoreInv'
<1>1. \A y \in Writers \ {x} : CallOK(y)'
  <2> TAKE y \in Writers \ {x}
  <2>1. call'[y] = call[y]
    BY DEF Becomes, StoreInv, Calls
  <2>2. CallOK(y)
    BY DEF StoreInv
  <2> QED
    BY <2>1, <2>2, ReadsKept DEF CallOK
<1>2. call'[x] = c
  BY DEF Becomes, StoreInv, Calls
<1>3. CallOK(x)'
  BY <1>2 DEF CallOK
<1>4. call' \in [Calls -> {call'[y] : y \in Calls}]
  BY DEF Becomes, StoreInv
<1> QED
  BY <1>1, <1>3, <1>4 DEF StoreInv, Grows

\* The step of another call.
LEMMA OtherMoves ==
  ASSUME StoreInv, NEW x \in Calls \ Writers, NEW c, Becomes(x, c),
         UNCHANGED <<task, index, clock>>
  PROVE  StoreInv'
<1>1. \A y \in Writers : call'[y] = call[y]
  BY DEF Becomes, StoreInv, Calls
<1>2. \A y \in Writers : CallOK(y)'
  BY ZenonT(40), <1>1 DEF StoreInv, CallOK, Indexing, IndexRead, TaskRead
<1>3. call' \in [Calls -> {call'[y] : y \in Calls}]
  BY DEF Becomes, StoreInv
<1> QED
  BY <1>2, <1>3 DEF StoreInv, Typed, ListedExists

----------------------------------------------------------------------------
(* Steps of a call. *)

\* A call that has returned, or has met a fault, has nothing left to be true.
LEMMA DoneFacts ==
  ASSUME NEW c \in WriteCall
  PROVE  /\ Done(c) \in WriteCall /\ Done(c).pc = "done"
         /\ Done(c).replica = c.replica /\ Done(c).task = c.task
<1> DEFINE e == <<>>
<1>1. e \in Ids /\ e \in Turns /\ e \in Paths
  BY DEF Ids, Turns, Paths
<1> HIDE DEF e
<1> DEFINE b == [c EXCEPT !.pc = "done", !.ver = 0, !.ids = e, !.turns = e, !.made = 0,
                          !.tries = 0, !.left = e, !.todo = e, !.newest = {}]
<1>2. b \in WriteCall /\ b.pc = "done" /\ b.replica = c.replica /\ b.task = c.task
  BY ZenonT(40), <1>1 DEF WriteCall
<1>3. Done(c) = b
  BY DEF Done, e
<1> QED
  BY <1>2, <1>3

\* Another round.
LEMMA AgainFacts ==
  ASSUME NEW c \in WriteCall, NEW pc \in {"readIndex", "reread"},
         NEW b, b = [c EXCEPT !.pc = pc, !.tries = @ + 1]
  PROVE  /\ b \in WriteCall /\ b.pc = pc /\ b.key = c.key
         /\ b.replica = c.replica /\ b.task = c.task
<1>1. c.tries + 1 \in Nat
  BY DEF WriteCall
<1>2. PICK n \in Nat : n = c.tries + 1
  BY <1>1
<1>3. b = [c EXCEPT !.pc = pc, !.tries = n]
  BY <1>2 DEF WriteCall
<1> QED
  BY ZenonT(40), <1>3 DEF WriteCall

LEMMA HitFacts ==
  ASSUME NEW c \in WriteCall
  PROVE  /\ Hit(c) \in WriteCall
         /\ Hit(c).pc = c.pc /\ Hit(c).key = c.key
         /\ Hit(c).replica = c.replica /\ Hit(c).task = c.task
  BY DEF Hit, WriteCall

\* The next index is the user's, or there is none.
LEMMA NextKeyFacts ==
  ASSUME NEW c \in WriteCall
  PROVE  /\ NextKey(c) \in WriteCall
         /\ NextKey(c).pc \in {"readIndex", "done"}
         /\ NextKey(c).replica = c.replica /\ NextKey(c).task = c.task
         /\ NextKey(c).pc = "readIndex" => NextKey(c).key \in Keys
<1>1. CASE c.key = ContextOf[c.task] /\ UserOf[c.task] # NoUser
  <2>1. UserOf[c.task] \in Users
    BY <1>1, TaskStoreAssumption DEF WriteCall
  <2> QED
    BY ZenonT(40), <1>1, <2>1 DEF NextKey, WriteCall, Keys
<1>2. CASE ~ (c.key = ContextOf[c.task] /\ UserOf[c.task] # NoUser)
  BY <1>2, DoneFacts DEF NextKey
<1> QED
  BY <1>1, <1>2

\* A call that is at none of the steps about which something is claimed.
LEMMA Idles ==
  ASSUME StoreInv, Grows, NEW x \in Writers, NEW c \in WriteCall, Becomes(x, c),
         c.pc = "done"
  PROVE  StoreInv'
<1>1. Indexing(c, task') /\ IndexRead(c, index') /\ TaskRead(c, task')
  BY DEF Indexing, IndexRead, TaskRead
<1> QED
  BY <1>1, WriterMoves

\* A call that is about to read an index, or is done with them.
LEMMA Indexes ==
  ASSUME StoreInv, Grows, NEW x \in Writers, NEW c \in WriteCall, Becomes(x, c),
         c.pc \in {"readIndex", "done"}, c.pc = "readIndex" => c.key \in Keys,
         task'[c.replica][c.task].ver # 0
  PROVE  StoreInv'
<1>1. Indexing(c, task') /\ IndexRead(c, index') /\ TaskRead(c, task')
  BY DEF Indexing, IndexRead, TaskRead
<1> QED
  BY <1>1, WriterMoves

\* What is known of a call, and of the record it writes.
LEMMA CallFacts ==
  ASSUME StoreInv, NEW x \in Writers
  PROVE  /\ call[x] \in WriteCall
         /\ Indexing(call[x], task) /\ IndexRead(call[x], index) /\ TaskRead(call[x], task)
         /\ call[x].replica \in Replicas /\ call[x].task \in Tasks
         /\ task[call[x].replica][call[x].task] \in Record
         /\ OwnTurns(x) \in Turns
<1>1. CallOK(x)
  BY DEF StoreInv
<1> QED
  BY <1>1 DEF CallOK, WriteCall, StoreInv, Typed, OwnTurns, Turns

LEMMA SnapshotFacts ==
  ASSUME StoreInv, NEW x \in Writers, NEW ver \in Nat, NEW made \in Nat,
         NEW turns \in Turns
  PROVE  /\ Snapshot(x, ver, made, turns) \in Record
         /\ Snapshot(x, ver, made, turns).ver = ver
  BY CallFacts DEF Snapshot, Record, WriteCall

LEMMA BeginWriteKeeps ==
  ASSUME StoreInv, NEW x \in Writers, NEW p \in Replicas, NEW t \in Tasks,
         BeginWrite(x, p, t)
  PROVE  StoreInv'
<1> DEFINE c == [call[x] EXCEPT !.pc = "create", !.replica = p, !.task = t,
                                !.now = IF t \in PutTasks THEN 0 ELSE clock]
<1>1. Becomes(x, c) /\ Grows
  BY NothingStored DEF BeginWrite, stored
<1>2. c \in WriteCall /\ c.pc = "create"
  <2>1. call[x] \in WriteCall /\ clock \in Nat
    BY CallFacts DEF StoreInv, Typed
  <2>2. (IF t \in PutTasks THEN 0 ELSE clock) \in Nat
    BY <2>1
  <2> QED
    BY ZenonT(40), <2>1, <2>2 DEF WriteCall
<1> HIDE DEF c
<1>3. Indexing(c, task') /\ IndexRead(c, index') /\ TaskRead(c, task')
  BY <1>2 DEF Indexing, IndexRead, TaskRead
<1> QED
  BY <1>1, <1>2, <1>3, WriterMoves

LEMMA CreateTaskKeeps ==
  ASSUME StoreInv, NEW x \in Writers, CreateTask(x)
  PROVE  StoreInv'
<1> DEFINE c == call[x]
           p == c.replica
           t == c.task
           r == Snapshot(x, 1, c.now, OwnTurns(x))
           indexed == [c EXCEPT !.pc = "readIndex", !.key = ContextOf[c.task],
                                !.created = TRUE]
           refused == [c EXCEPT !.pc = IF c.task \in PutTasks THEN "overwrite"
                                                              ELSE "reread"]
<1>1. /\ c \in WriteCall /\ p \in Replicas /\ t \in Tasks
      /\ r \in Record /\ r.ver = 1
  <2>1. c \in WriteCall /\ OwnTurns(x) \in Turns
    BY CallFacts
  <2>2. c.now \in Nat /\ p \in Replicas /\ t \in Tasks
    BY <2>1 DEF WriteCall
  <2> QED
    BY <2>1, <2>2, SnapshotFacts
<1>2. ASSUME task[p][t].ver = 0, task' = [task EXCEPT ![p][t] = r], UNCHANGED <<index, clock>>
      PROVE  Grows /\ task'[p][t] = r
  <2>1. task \in [Replicas -> [Tasks -> Record]]
    BY DEF StoreInv, Typed
  <2> HIDE DEF r
  <2>2. task[p][t].ver < r.ver
    BY <1>1, <1>2
  <2>3. Grows
    BY <1>1, <1>2, <2>2, TaskWritten
  <2> QED
    BY <1>1, <1>2, <2>1, <2>3
<1>3. ASSUME NEW b \in {refused, Hit(refused)}, Becomes(x, b), Grows
      PROVE  StoreInv'
  <2>1. refused \in WriteCall
    BY <1>1 DEF WriteCall
  <2>2. /\ b \in WriteCall /\ b.task = t
        /\ b.pc = IF t \in PutTasks THEN "overwrite" ELSE "reread"
    BY <1>1, <2>1, HitFacts DEF WriteCall
  <2>3. Indexing(b, task') /\ IndexRead(b, index') /\ TaskRead(b, task')
    BY <2>2 DEF Indexing, IndexRead, TaskRead
  <2> QED
    BY <1>3, <2>2, <2>3, WriterMoves
<1>4. CASE task[p][t].ver = 0 /\ task' = [task EXCEPT ![p][t] = r] /\ Becomes(x, indexed)
  <2>1. Grows /\ task'[p][t].ver # 0
    BY <1>1, <1>2, <1>4 DEF CreateTask
  <2>2. ContextOf[t] \in Keys
    BY <1>1, TaskStoreAssumption DEF Keys
  <2>3. /\ indexed \in WriteCall /\ indexed.pc = "readIndex" /\ indexed.key \in Keys
        /\ indexed.replica = p /\ indexed.task = t
    BY <1>1, <2>2 DEF WriteCall
  <2> QED
    BY <1>4, <2>1, <2>3, Indexes
<1>5. CASE UNCHANGED task /\ (Becomes(x, refused) \/ Becomes(x, Hit(refused)))
  BY <1>3, <1>5, NothingStored DEF CreateTask
<1>6. CASE /\ task[p][t].ver = 0 /\ task' = [task EXCEPT ![p][t] = r]
           /\ Becomes(x, Hit(refused))
  BY <1>2, <1>3, <1>6 DEF CreateTask
<1> QED
  BY <1>4, <1>5, <1>6 DEF CreateTask

LEMMA ReadIndexKeeps ==
  ASSUME StoreInv, NEW x \in Writers, ReadIndex(x)
  PROVE  StoreInv'
<1> DEFINE c == call[x]
           i == index[c.replica][c.key]
           b == [c EXCEPT !.pc = "writeIndex", !.ver = i.ver, !.ids = i.ids]
<1>1. /\ c \in WriteCall /\ c.replica \in Replicas /\ c.task \in Tasks
      /\ c.pc = "readIndex" /\ c.key \in Keys /\ task[c.replica][c.task].ver # 0
      /\ i \in Index
  BY CallFacts DEF ReadIndex, At, Indexing, StoreInv, Typed
<1>2. Grows /\ UNCHANGED <<task, index>>
  BY NothingStored DEF ReadIndex, stored
<1>3. CASE Becomes(x, b)
  <2>1. /\ b \in WriteCall /\ b.pc = "writeIndex" /\ b.key = c.key
        /\ b.replica = c.replica /\ b.task = c.task /\ b.ver = i.ver /\ b.ids = i.ids
    BY <1>1 DEF WriteCall, Index
  <2> HIDE DEF b
  <2>2. Indexing(b, task') /\ TaskRead(b, task')
    BY <1>1, <1>2, <2>1 DEF Indexing, TaskRead
  <2>3. IndexRead(b, index')
    BY <1>1, <1>2, <2>1 DEF IndexRead, Index
  <2> QED
    BY <1>2, <1>3, <2>1, <2>2, <2>3, WriterMoves
<1>4. CASE Becomes(x, NextKey(Hit(c)))
  <2>1. /\ Hit(c) \in WriteCall /\ Hit(c).replica = c.replica /\ Hit(c).task = c.task
    BY <1>1, HitFacts
  <2> QED
    BY <1>1, <1>2, <1>4, <2>1, NextKeyFacts, Indexes
<1> QED
  BY <1>3, <1>4 DEF ReadIndex

LEMMA WriteIndexKeeps ==
  ASSUME StoreInv, NEW x \in Writers, WriteIndex(x)
  PROVE  StoreInv'
<1> DEFINE c == call[x]
           i == index[c.replica][c.key]
           again == [c EXCEPT !.pc = "readIndex", !.tries = @ + 1]
           Written == index' = [index EXCEPT ![c.replica][c.key] =
                                  [ver |-> c.ver + 1, ids |-> Append(c.ids, c.task)]]
<1>1. /\ c \in WriteCall /\ c.replica \in Replicas /\ c.task \in Tasks
      /\ c.pc = "writeIndex" /\ c.key \in Keys /\ task[c.replica][c.task].ver # 0
      /\ UNCHANGED <<task, clock>>
  BY CallFacts DEF WriteIndex, At, Indexing
<1>2. ASSUME i.ver = c.ver, Written  PROVE Grows
  <2>1. c.ids = i.ids /\ c.ver = i.ver
    BY <1>1, <1>2, CallFacts DEF IndexRead
  <2> DEFINE all == Append(c.ids, c.task)
             j == [ver |-> c.ver + 1, ids |-> all]
  <2>2. i \in Index /\ c.ids \in Seq(Tasks) /\ c.ver \in Nat
    BY <1>1 DEF StoreInv, Typed, WriteCall, Ids
  <2>3. all \in Ids /\ ToSet(all) = ToSet(i.ids) \union {c.task}
    BY SMTT(20), <1>1, <2>1, <2>2, AppendToSet DEF Ids
  <2>4. j \in Index /\ i.ver < j.ver /\ ToSet(j.ids) = ToSet(i.ids) \union {c.task}
    <3> HIDE DEF all, i, c
    <3> QED
      BY <2>1, <2>2, <2>3 DEF Index
  <2>5. index' = [index EXCEPT ![c.replica][c.key] = j]
    BY <1>2
  <2> HIDE DEF j
  <2> QED
    BY <1>1, <2>4, <2>5, IndexWritten
<1>3. ASSUME UNCHANGED index  PROVE Grows
  BY <1>1, <1>3, NothingStored
<1>4. ASSUME NEW b \in {c, Hit(c)}, Grows, Becomes(x, NextKey(b))  PROVE StoreInv'
  <2>1. b \in WriteCall /\ b.replica = c.replica /\ b.task = c.task
    BY <1>1, HitFacts
  <2> QED
    BY <1>1, <1>4, <2>1, NextKeyFacts, Indexes
<1>5. CASE UNCHANGED index /\ c.tries + 1 < MaxRetries /\ Becomes(x, again)
  <2>1. /\ again \in WriteCall /\ again.pc = "readIndex" /\ again.key = c.key
        /\ again.replica = c.replica /\ again.task = c.task
    <3> HIDE DEF c
    <3> QED
      BY <1>1, AgainFacts
  <2> QED
    BY <1>1, <1>3, <1>5, <2>1, Indexes
<1>6. \/ i.ver = c.ver /\ Written /\ (Becomes(x, NextKey(c)) \/ Becomes(x, NextKey(Hit(c))))
      \/ UNCHANGED index /\ (Becomes(x, NextKey(c)) \/ Becomes(x, NextKey(Hit(c))))
      \/ UNCHANGED index /\ c.tries + 1 < MaxRetries /\ Becomes(x, again)
  BY DEF WriteIndex
<1> QED
  BY <1>2, <1>3, <1>4, <1>5, <1>6

LEMMA RereadTaskKeeps ==
  ASSUME StoreInv, NEW x \in Writers, RereadTask(x)
  PROVE  StoreInv'
<1> DEFINE c == call[x]
           old == task[c.replica][c.task]
           b == [c EXCEPT !.pc = "rewrite", !.ver = old.ver, !.turns = old.turns,
                          !.made = IF old.ver = 0 THEN c.now ELSE old.created]
<1>1. /\ c \in WriteCall /\ c.pc = "reread" /\ c.task \notin PutTasks /\ old \in Record
  BY CallFacts DEF RereadTask, At, TaskRead
<1>2. Grows /\ UNCHANGED task
  BY NothingStored DEF RereadTask, stored
<1>3. CASE Becomes(x, b)
  <2>1. /\ b \in WriteCall /\ b.pc = "rewrite" /\ b.replica = c.replica
        /\ b.task = c.task /\ b.ver = old.ver /\ b.turns = old.turns
        /\ old.ver # 0 => b.made = old.created
    BY ZenonT(40), <1>1 DEF WriteCall, Record
  <2> HIDE DEF b
  <2>2. Indexing(b, task') /\ IndexRead(b, index')
    BY <2>1 DEF Indexing, IndexRead
  <2>3. TaskRead(b, task')
    BY <1>1, <1>2, <2>1 DEF TaskRead, Record
  <2> QED
    BY <1>2, <1>3, <2>1, <2>2, <2>3, WriterMoves
<1>4. CASE Becomes(x, Done(Hit(c)))
  BY <1>1, <1>2, <1>4, HitFacts, DoneFacts, Idles
<1> QED
  BY <1>3, <1>4 DEF RereadTask

LEMMA RewriteTaskKeeps ==
  ASSUME StoreInv, NEW x \in Writers, RewriteTask(x)
  PROVE  StoreInv'
<1> DEFINE c == call[x]
           old == task[c.replica][c.task]
           r == Snapshot(x, c.ver + 1, c.made, c.turns \o OwnTurns(x))
           again == [c EXCEPT !.pc = "reread", !.tries = @ + 1]
           Written == task' = [task EXCEPT ![c.replica][c.task] = r]
<1>1. /\ c \in WriteCall /\ c.replica \in Replicas /\ c.task \in Tasks
      /\ c.pc = "rewrite" /\ c.task \notin PutTasks
      /\ UNCHANGED <<index, clock>>
  BY CallFacts DEF RewriteTask, At, TaskRead
<1>2. ASSUME old.ver = c.ver, Written  PROVE Grows
  <2>1. /\ c.ver \in Nat /\ c.ver + 1 \in Nat /\ c.made \in Nat
        /\ c.turns \o OwnTurns(x) \in Turns
    BY <1>1, CallFacts DEF WriteCall, Turns
  <2>2. r \in Record /\ r.ver = c.ver + 1
    BY <2>1, SnapshotFacts
  <2>3. old.ver < r.ver
    BY <1>2, <2>1, <2>2
  <2> QED
    BY <1>1, <1>2, <2>2, <2>3, TaskWritten
<1>3. ASSUME UNCHANGED task  PROVE Grows
  BY <1>1, <1>3, NothingStored
<1>4. ASSUME NEW b \in {c, Hit(c)}, Grows, Becomes(x, Done(b))  PROVE StoreInv'
  BY <1>1, <1>4, HitFacts, DoneFacts, Idles
<1>5. CASE UNCHANGED task /\ c.tries + 1 < MaxRetries /\ Becomes(x, again)
  <2>1. again \in WriteCall /\ again.pc = "reread" /\ again.task = c.task
    <3> HIDE DEF c
    <3> QED
      BY <1>1, AgainFacts
  <2>2. Indexing(again, task') /\ IndexRead(again, index') /\ TaskRead(again, task')
    BY <1>1, <2>1 DEF Indexing, IndexRead, TaskRead
  <2> QED
    BY <1>3, <1>5, <2>1, <2>2, WriterMoves
<1>6. \/ old.ver = c.ver /\ Written /\ (Becomes(x, Done(c)) \/ Becomes(x, Done(Hit(c))))
      \/ UNCHANGED task /\ (Becomes(x, Done(c)) \/ Becomes(x, Done(Hit(c))))
      \/ UNCHANGED task /\ c.tries + 1 < MaxRetries /\ Becomes(x, again)
  BY DEF RewriteTask
<1> QED
  BY <1>2, <1>3, <1>4, <1>5, <1>6

LEMMA OverwriteTaskKeeps ==
  ASSUME StoreInv, NEW x \in Writers, OverwriteTask(x)
  PROVE  StoreInv'
<1> DEFINE c == call[x]
           old == task[c.replica][c.task]
           r == Snapshot(x, old.ver + 1, c.now, OwnTurns(x))
<1>1. /\ c \in WriteCall /\ c.replica \in Replicas /\ c.task \in Tasks
      /\ old \in Record /\ UNCHANGED <<index, clock>>
  BY CallFacts DEF OverwriteTask
<1>2. r \in Record /\ old.ver < r.ver
  <2>1. old.ver \in Nat /\ old.ver + 1 \in Nat /\ c.now \in Nat
    BY <1>1 DEF Record, WriteCall
  <2>2. r \in Record /\ r.ver = old.ver + 1
    BY <2>1, CallFacts, SnapshotFacts
  <2> QED
    BY <2>1, <2>2
<1>3. task' = [task EXCEPT ![c.replica][c.task] = r] \/ UNCHANGED task
  BY <1>1 DEF OverwriteTask, StoreInv, Typed
<1>4. Grows
  BY <1>1, <1>2, <1>3, TaskWritten, NothingStored
<1>5. Becomes(x, Done(c)) \/ Becomes(x, Done(Hit(c)))
  BY DEF OverwriteTask
<1> QED
  BY <1>1, <1>4, <1>5, HitFacts, DoneFacts, Idles

----------------------------------------------------------------------------
(* The invariant. *)

LEMMA InitStoreInv == Init => StoreInv
<1> SUFFICES ASSUME Init PROVE StoreInv
  OBVIOUS
<1>1. Typed
  BY DEF Init, Typed, NoTask, NoIndex, Record, Index, Turns, Ids
<1>2. ListedExists
  BY DEF Init, ListedExists, NoIndex, ToSet
<1>3. ASSUME NEW x \in Writers  PROVE CallOK(x)
  <2> DEFINE p == CHOOSE q \in Replicas : TRUE
             t == CHOOSE u \in Tasks : TRUE
             e == <<>>
  <2>1. p \in Replicas /\ t \in Tasks
    BY TaskStoreAssumption
  <2>2. e \in Ids /\ e \in Turns /\ e \in Paths
    BY DEF Ids, Turns, Paths
  <2>3. call[x] = Fresh
    BY DEF Init, Calls
  <2>4. Fresh = [pc |-> "new", replica |-> p, task |-> t, key |-> NoUser,
                 now |-> 0, ver |-> 0, ids |-> e, turns |-> e, made |-> 0, tries |-> 0,
                 left |-> e, todo |-> e, newest |-> {}, found |-> {},
                 created |-> FALSE, hit |-> FALSE, due |-> {}, owed |-> {}]
    BY DEF Fresh
  <2> HIDE DEF p, t, e
  <2>5. Fresh \in WriteCall /\ Fresh.pc = "new"
    BY <2>1, <2>2, <2>4 DEF WriteCall
  <2> QED
    BY <2>3, <2>5 DEF CallOK, Indexing, IndexRead, TaskRead
<1>4. call \in [Calls -> {call[x] : x \in Calls}]
  BY DEF Init
<1> QED
  BY <1>1, <1>2, <1>3, <1>4 DEF StoreInv

\* A step of a reader or of a starting replica leaves the stores of tasks alone.
LEMMA OtherSteps ==
  ASSUME StoreInv, NEW x \in Calls \ Writers,
         Read(x) \/ ReadRegistry(x) \/ WriteRegistry(x)
  PROVE  UNCHANGED <<task, index, clock>> /\ \E c : Becomes(x, c)
<1>1. CASE Read(x)
  <2>1. UNCHANGED <<task, index, clock>>
    BY <1>1 DEF Read, BeginList, BeginLoad, ListReplicas, ReadNextIndex, ReadNextSlice, stored
  <2>2. CASE ListReplicas(x)
    BY <2>1, <2>2 DEF ListReplicas
  <2>3. CASE ReadNextIndex(x)
    BY <2>1, <2>3 DEF ReadNextIndex
  <2>4. CASE ReadNextSlice(x)
    BY <2>1, <2>4 DEF ReadNextSlice
  <2>5. CASE \/ \E p \in Replicas, k \in Keys : BeginList(x, p, k)
             \/ \E p \in Replicas, t \in Tasks : BeginLoad(x, p, t)
    BY <2>1, <2>5 DEF BeginList, BeginLoad
  <2> QED
    BY <1>1, <2>2, <2>3, <2>4, <2>5 DEF Read
<1>2. CASE ReadRegistry(x)
  BY <1>2 DEF ReadRegistry, stored
<1>3. CASE WriteRegistry(x)
  BY <1>3 DEF WriteRegistry
<1> QED
  BY <1>1, <1>2, <1>3

LEMMA OtherKeeps ==
  ASSUME StoreInv, NEW x \in Calls \ Writers,
         Read(x) \/ ReadRegistry(x) \/ WriteRegistry(x)
  PROVE  StoreInv'
  BY OtherSteps, OtherMoves

LEMMA CrashKeeps ==
  ASSUME StoreInv, NEW x \in Calls, Crash(x)
  PROVE  StoreInv'
<1>1. UNCHANGED <<task, index, clock>> /\ Becomes(x, Done(Hit(call[x])))
  BY DEF Crash, stored
<1>2. CASE x \in Writers
  BY <1>1, <1>2, CallFacts, HitFacts, DoneFacts, NothingStored, Idles
<1>3. CASE x \notin Writers
  BY <1>1, <1>3, OtherMoves
<1> QED
  BY <1>2, <1>3

\* A step that touches no call and no store: the clock, or nothing.
LEMMA ClockKeeps ==
  ASSUME StoreInv, Tick \/ UNCHANGED vars
  PROVE  StoreInv'
<1>1. UNCHANGED <<task, index, call>> /\ clock' \in Nat
  BY DEF Tick, stored, vars, StoreInv, Typed
<1> QED
  BY <1>1 DEF StoreInv, Typed, ListedExists, CallOK, Indexing, IndexRead, TaskRead

LEMMA NextStoreInv == StoreInv /\ [Next]_vars => StoreInv'
<1> SUFFICES ASSUME StoreInv, [Next]_vars PROVE StoreInv'
  OBVIOUS
<1>1. ASSUME NEW x \in Writers, Write(x)  PROVE StoreInv'
  BY <1>1, BeginWriteKeeps, CreateTaskKeeps, ReadIndexKeeps, WriteIndexKeeps,
     RereadTaskKeeps, RewriteTaskKeeps, OverwriteTaskKeeps DEF Write
<1>2. \A x \in Readers \union Starting : x \in Calls \ Writers
  BY TaskStoreAssumption DEF Calls
<1>3. ASSUME NEW x \in Readers, Read(x)  PROVE StoreInv'
  BY <1>2, <1>3, OtherKeeps
<1>4. ASSUME NEW p \in Starting, ReadRegistry(p) \/ WriteRegistry(p)  PROVE StoreInv'
  BY <1>2, <1>4, OtherKeeps
<1> QED
  BY <1>1, <1>3, <1>4, CrashKeeps, ClockKeeps DEF Next

\* No index names a task that its replica does not have: create writes the record
\* before it appends to the indexes, and nothing removes a record.
THEOREM NothingListedInVain == Spec => []ListedExists
<1>1. StoreInv => ListedExists
  BY DEF StoreInv
<1> QED
  BY <1>1, InitStoreInv, NextStoreInv, PTL DEF Spec

----------------------------------------------------------------------------
(* What a step does to a record. *)

\* A step of RecordsOnlyGrow.
RecordsGrow ==
  \A p \in Replicas, t \in Tasks \ PutTasks :
    LET old == task[p][t]
        new == task'[p][t]
    IN  old.ver # 0 => IsPrefix(old.turns, new.turns) /\ new.created = old.created

LEMMA PrefixFacts ==
  ASSUME NEW S, NEW s \in Seq(S), NEW u \in Seq(S)
  PROVE  IsPrefix(s, s) /\ IsPrefix(s, s \o u)
  BY DEF IsPrefix

LEMMA RecordsStay ==
  ASSUME StoreInv, UNCHANGED task
  PROVE  RecordsGrow
<1> SUFFICES ASSUME NEW p \in Replicas, NEW t \in Tasks \ PutTasks
             PROVE  IsPrefix(task[p][t].turns, task'[p][t].turns)
                    /\ task'[p][t].created = task[p][t].created
  BY DEF RecordsGrow
<1>1. task[p][t].turns \in Seq(Writers)
  BY DEF StoreInv, Typed, Record, Turns
<1> QED
  BY <1>1, PrefixFacts

\* One record is written: a put task, a new one, or with the turns of the old one.
LEMMA RecordGrows ==
  ASSUME StoreInv, NEW p \in Replicas, NEW t \in Tasks, NEW r,
         task' = [task EXCEPT ![p][t] = r],
         \/ t \in PutTasks
         \/ task[p][t].ver = 0
         \/ /\ r.created = task[p][t].created
            /\ \E u \in Turns : r.turns = task[p][t].turns \o u
  PROVE  RecordsGrow
<1> SUFFICES ASSUME NEW q \in Replicas, NEW v \in Tasks \ PutTasks, task[q][v].ver # 0
             PROVE  IsPrefix(task[q][v].turns, task'[q][v].turns)
                    /\ task'[q][v].created = task[q][v].created
  BY DEF RecordsGrow
<1>1. task[q][v].turns \in Seq(Writers)
  BY DEF StoreInv, Typed, Record, Turns
<1>2. CASE q = p /\ v = t
  <2>1. task'[q][v] = r
    BY <1>2 DEF StoreInv, Typed
  <2>2. PICK u \in Seq(Writers) : r.turns = task[q][v].turns \o u
    BY <1>2 DEF Turns
  <2>3. IsPrefix(task[q][v].turns, task[q][v].turns \o u)
    BY <1>1, PrefixFacts
  <2> QED
    BY <1>2, <2>1, <2>2, <2>3
<1>3. CASE ~ (q = p /\ v = t)
  <2>1. task'[q][v] = task[q][v]
    BY <1>3 DEF StoreInv, Typed
  <2> QED
    BY <1>1, <2>1, PrefixFacts
<1> QED
  BY <1>2, <1>3

LEMMA WriteGrows ==
  ASSUME StoreInv, NEW x \in Writers, Write(x)
  PROVE  RecordsGrow
<1> DEFINE c == call[x]
           p == c.replica
           t == c.task
<1>1. p \in Replicas /\ t \in Tasks /\ OwnTurns(x) \in Turns
  BY CallFacts
<1>2. CASE CreateTask(x)
  BY <1>1, <1>2, RecordsStay, RecordGrows DEF CreateTask
<1>3. CASE OverwriteTask(x)
  <2>1. t \in PutTasks
    BY <1>3, CallFacts DEF OverwriteTask, At, TaskRead
  <2>2. UNCHANGED task \/ \E r : task' = [task EXCEPT ![p][t] = r]
    <3> DEFINE r == Snapshot(x, task[p][t].ver + 1, c.now, OwnTurns(x))
    <3>1. UNCHANGED task \/ task' = [task EXCEPT ![p][t] = r]
      BY <1>1, <1>3 DEF OverwriteTask, StoreInv, Typed
    <3> QED
      BY <3>1
  <2> QED
    BY <1>1, <2>1, <2>2, RecordsStay, RecordGrows
<1>4. CASE RewriteTask(x)
  <2> DEFINE old == task[p][t]
             r == Snapshot(x, c.ver + 1, c.made, c.turns \o OwnTurns(x))
  <2>1. CASE UNCHANGED task
    BY <2>1, RecordsStay
  <2>2. CASE old.ver = c.ver /\ task' = [task EXCEPT ![p][t] = r]
    <3>1. c.turns = old.turns /\ (old.ver # 0 => c.made = old.created)
      BY <1>4, <2>2, CallFacts DEF RewriteTask, At, TaskRead
    <3>2. r.turns = old.turns \o OwnTurns(x) /\ (old.ver # 0 => r.created = old.created)
      BY <3>1 DEF Snapshot
    <3> HIDE DEF r
    <3> QED
      BY <1>1, <2>2, <3>2, RecordGrows
  <2> QED
    BY <1>4, <2>1, <2>2 DEF RewriteTask
<1>5. CASE \/ \E q \in Replicas, u \in Tasks : BeginWrite(x, q, u)
           \/ ReadIndex(x) \/ WriteIndex(x) \/ RereadTask(x)
  BY <1>5, RecordsStay DEF BeginWrite, ReadIndex, WriteIndex, RereadTask, stored
<1> QED
  BY <1>2, <1>3, <1>4, <1>5 DEF Write

\* A persist never drops a turn that is in the record, nor the time it was created
\* at, however many calls write it and whatever fails.
THEOREM RecordsGrowOnly == Spec => RecordsOnlyGrow
<1>1. ASSUME StoreInv, [Next]_vars  PROVE RecordsGrow
  <2>1. ASSUME NEW x \in Readers, Read(x)  PROVE UNCHANGED task
    BY <2>1 DEF Read, BeginList, BeginLoad, ListReplicas, ReadNextIndex, ReadNextSlice, stored
  <2>2. ASSUME NEW p \in Starting, ReadRegistry(p) \/ WriteRegistry(p)  PROVE UNCHANGED task
    BY <2>2 DEF ReadRegistry, WriteRegistry, stored
  <2>3. ASSUME Tick \/ UNCHANGED vars \/ \E x \in Calls : Crash(x)  PROVE UNCHANGED task
    BY <2>3 DEF Tick, Crash, stored, vars
  <2> QED
    BY <1>1, <2>1, <2>2, <2>3, RecordsStay, WriteGrows DEF Next
<1>2. StoreInv /\ [Next]_vars => [RecordsGrow]_vars
  BY <1>1
<1>3. RecordsOnlyGrow <=> [][RecordsGrow]_vars
  BY PTL DEF RecordsOnlyGrow, RecordsGrow
<1> QED
  BY <1>2, <1>3, InitStoreInv, NextStoreInv, PTL DEF Spec

----------------------------------------------------------------------------
(* The calls that write: what a call that has returned has written is      *)
(* there, exactly once.                                                    *)

\* The code gives up after MaxRetries rounds, so that many calls may compete.
FewWriters == IsFiniteSet(Writers) /\ Cardinality(Writers) <= MaxRetries

\* The indexes a task is appended to.
KeysOf(t) == {ContextOf[t], UserOf[t]} \ {NoUser}

\* A call that created a record is done with the index of k.
Past(c, k) == c.pc = "done" \/ (c.key # k /\ c.key # ContextOf[c.task])

Listed(c, p, k, t) == c.created /\ c.replica = p /\ c.task = t /\ Past(c, k)
Rewrote(c, p, t)   == c.pc = "done" /\ ~c.created /\ c.replica = p /\ c.task = t
Began(c, p, t)     == c.pc \notin {"new", "create"} /\ (c.created \/ c.hit)
                      /\ c.replica = p /\ c.task = t

\* Each entry of an index is the contribution of another call that is past it.
IndexCounted(p, k) ==
  LET i == index[p][k] IN
  /\ i.ver = Len(i.ids)
  /\ IsInjective(i.ids)
  /\ \A n \in DOMAIN i.ids : \E y \in Writers : Listed(call[y], p, k, i.ids[n])

\* Each turn of a record after the first is that of another call that has returned.
RecordCounted(p, t) ==
  LET r == task[p][t] IN
  /\ r.ver = Len(r.turns)
  /\ r.ver # 0 => Began(call[r.turns[1]], p, t)
  /\ \A n \in DOMAIN r.turns \ {1} : Rewrote(call[r.turns[n]], p, t)
  /\ \A m, n \in DOMAIN r.turns \ {1} : r.turns[m] = r.turns[n] => m = n

\* Where a call is.
Stage(c) ==
  /\ c.pc \in {"new", "create"} => c.tries = 0 /\ ~c.created
  /\ c.created => c.pc \in {"readIndex", "writeIndex", "done"}
  /\ c.pc \in {"readIndex", "writeIndex"} => c.created /\ c.key \in KeysOf(c.task)
  /\ c.pc \in {"reread", "rewrite"} => c.task \notin PutTasks

\* Every round a call has lost is a write that it has seen.
RoundsLost(c, r, i) ==
  /\ c.pc = "readIndex" => c.tries <= i.ver
  /\ c.pc = "writeIndex" => c.tries <= c.ver
  /\ c.pc = "reread" /\ ~c.hit => c.tries < r.ver
  /\ c.pc = "rewrite" /\ ~c.hit => c.tries < c.ver

\* What a call has written is there.
Written(x, c, r, indexes) ==
  /\ c.created => r.ver # 0
  /\ c.created /\ ~c.hit =>
       \A k \in KeysOf(c.task) : Past(c, k) => c.task \in ToSet(indexes[k].ids)
  /\ c.created /\ c.task \notin PutTasks => r.turns[1] = x
  /\ c.pc = "done" /\ ~c.created /\ ~c.hit /\ c.task \notin PutTasks =>
       \E n \in DOMAIN r.turns \ {1} : r.turns[n] = x

CallCounted(x) ==
  LET c == call[x]
      r == task[c.replica][c.task]
  IN
  /\ Stage(c)
  /\ RoundsLost(c, r, index[c.replica][c.key])
  /\ Written(x, c, r, index[c.replica])

OneCreator ==
  \A x, y \in Writers :
    /\ call[x].created /\ call[y].created
    /\ call[x].replica = call[y].replica /\ call[x].task = call[y].task
    => x = y

CountInv ==
  /\ \A p \in Replicas, k \in Keys : IndexCounted(p, k)
  /\ \A p \in Replicas, t \in Tasks \ PutTasks : RecordCounted(p, t)
  /\ \A x \in Writers : CallCounted(x)
  /\ OneCreator

----------------------------------------------------------------------------
(* Sequences and counting. *)

LEMMA AppendFacts ==
  ASSUME NEW S, NEW s \in Seq(S), NEW e \in S
  PROVE  /\ Append(s, e) \in Seq(S) /\ Len(s) \in Nat
         /\ Len(Append(s, e)) = Len(s) + 1
         /\ DOMAIN s = 1..Len(s) /\ DOMAIN Append(s, e) = 1..(Len(s) + 1)
         /\ \A i \in 1..Len(s) : Append(s, e)[i] = s[i]
         /\ Append(s, e)[Len(s) + 1] = e
<1>1. Append(s, e) \in Seq(S) /\ Len(Append(s, e)) = Len(s) + 1
  BY AppendProperties
<1>2. DOMAIN Append(s, e) = 1..(Len(s) + 1) /\ DOMAIN s = 1..Len(s) /\ Len(s) \in Nat
  BY <1>1, LenProperties
<1> QED
  BY <1>1, <1>2, AppendProperties

LEMMA AppendOnce ==
  ASSUME NEW S, NEW s \in Seq(S), NEW e \in S, IsInjective(s), e \notin ToSet(s)
  PROVE  IsInjective(Append(s, e))
<1>1. \A i \in 1..Len(s) : s[i] # e
  BY AppendFacts DEF ToSet
<1> SUFFICES ASSUME NEW m \in 1..(Len(s) + 1), NEW n \in 1..(Len(s) + 1),
                    Append(s, e)[m] = Append(s, e)[n]
             PROVE  m = n
  BY AppendFacts DEF IsInjective
<1>2. \A i \in 1..(Len(s) + 1) : i \in 1..Len(s) \/ i = Len(s) + 1
  BY AppendFacts
<1>3. \A i, j \in 1..Len(s) : s[i] = s[j] => i = j
  BY AppendFacts DEF IsInjective
<1> QED
  BY <1>1, <1>2, <1>3, AppendFacts

\* Four calls are too many.
LEMMA NotFour ==
  ASSUME FewWriters, NEW w \in Writers, NEW x \in Writers, NEW y \in Writers, NEW z \in Writers
  PROVE  w = x \/ w = y \/ w = z \/ x = y \/ x = z \/ y = z
<1> SUFFICES ASSUME w # x, w # y, w # z, x # y, x # z, y # z  PROVE FALSE
  OBVIOUS
<1>1. IsFiniteSet({w}) /\ Cardinality({w}) = 1
  BY FS_Singleton
<1>2. IsFiniteSet({w} \union {x}) /\ Cardinality({w} \union {x}) = 2
  BY <1>1, FS_AddElement
<1>3. IsFiniteSet({w, x} \union {y}) /\ Cardinality({w, x} \union {y}) = 3
  <2>1. {w, x} = {w} \union {x}
    OBVIOUS
  <2> QED
    BY <1>2, <2>1, FS_AddElement
<1>4. Cardinality({w, x, y} \union {z}) = 4
  <2>1. {w, x, y} = {w, x} \union {y}
    OBVIOUS
  <2> QED
    BY <1>3, <2>1, FS_AddElement
<1>5. {w, x, y} \union {z} \subseteq Writers
  OBVIOUS
<1>6. Cardinality({w, x, y} \union {z}) <= Cardinality(Writers)
  BY <1>5, FS_Subset DEF FewWriters
<1>7. Cardinality(Writers) \in Nat
  BY FS_CardinalityType DEF FewWriters
<1> QED
  BY <1>4, <1>6, <1>7 DEF FewWriters, MaxRetries

\* An index that has been written three times, and a call that has not written it.
LEMMA IndexRounds ==
  ASSUME StoreInv, CountInv, FewWriters, NEW x \in Writers,
         NEW p \in Replicas, NEW k \in Keys, call[x].created => ~Past(call[x], k)
  PROVE  index[p][k].ver < MaxRetries
<1> DEFINE s == index[p][k].ids
<1>1. index[p][k].ver = Len(s) /\ IsInjective(s) /\ Len(s) \in Nat /\ DOMAIN s = 1..Len(s)
  <2>1. s \in Seq(Tasks)
    BY DEF StoreInv, Typed, Index, Ids
  <2> QED
    BY <2>1, LenProperties DEF CountInv, IndexCounted
<1> SUFFICES ASSUME Len(s) >= 3  PROVE FALSE
  BY <1>1 DEF MaxRetries
<1>2. 1 \in DOMAIN s /\ 2 \in DOMAIN s /\ 3 \in DOMAIN s
  BY <1>1
<1>3. s[1] # s[2] /\ s[1] # s[3] /\ s[2] # s[3]
  BY <1>1, <1>2 DEF IsInjective
<1>4. \A n \in DOMAIN s : \E y \in Writers : Listed(call[y], p, k, s[n])
  BY DEF CountInv, IndexCounted
<1>5. PICK u \in Writers : Listed(call[u], p, k, s[1])
  BY <1>2, <1>4
<1>6. PICK v \in Writers : Listed(call[v], p, k, s[2])
  BY <1>2, <1>4
<1>7. PICK w \in Writers : Listed(call[w], p, k, s[3])
  BY <1>2, <1>4
<1>8. u # v /\ u # w /\ v # w /\ x # u /\ x # v /\ x # w
  BY <1>3, <1>5, <1>6, <1>7 DEF Listed
<1> QED
  BY <1>8, NotFour

\* A record that has been rewritten three times, and a call that has not returned.
LEMMA RecordRounds ==
  ASSUME StoreInv, CountInv, FewWriters, NEW x \in Writers, call[x].pc # "done",
         NEW p \in Replicas, NEW t \in Tasks \ PutTasks
  PROVE  task[p][t].ver <= MaxRetries
<1> DEFINE s == task[p][t].turns
<1>1. /\ task[p][t].ver = Len(s) /\ Len(s) \in Nat /\ DOMAIN s = 1..Len(s)
      /\ \A n \in DOMAIN s : s[n] \in Writers
  <2>1. s \in Seq(Writers)
    BY DEF StoreInv, Typed, Record, Turns
  <2> QED
    BY <2>1, LenProperties, ElementOfSeq DEF CountInv, RecordCounted
<1> SUFFICES ASSUME Len(s) >= 4  PROVE FALSE
  BY <1>1 DEF MaxRetries
<1>2. 2 \in DOMAIN s \ {1} /\ 3 \in DOMAIN s \ {1} /\ 4 \in DOMAIN s \ {1}
  BY <1>1
<1>3. s[2] # s[3] /\ s[2] # s[4] /\ s[3] # s[4]
  BY <1>2 DEF CountInv, RecordCounted
<1>4. \A n \in DOMAIN s \ {1} : Rewrote(call[s[n]], p, t)
  BY DEF CountInv, RecordCounted
<1>5. x # s[2] /\ x # s[3] /\ x # s[4]
  BY <1>2, <1>4 DEF Rewrote
<1> QED
  BY <1>1, <1>2, <1>3, <1>5, NotFour

----------------------------------------------------------------------------
(* What a step of a call x that becomes b does. *)

Advances(c, b) ==
  /\ c.pc # "done" /\ b.pc # "new"
  /\ c.pc # "new" => b.replica = c.replica /\ b.task = c.task
  /\ c.pc \notin {"new", "create"} => b.pc \notin {"new", "create"}
  /\ c.hit => b.hit
  /\ c.created => b.created /\ \A k \in Keys : Past(c, k) => Past(b, k)

\* An index stays as it is or gets the task of the call.
IndexStep(x, b) ==
  \A p \in Replicas, k \in Keys :
    \/ index'[p][k] = index[p][k]
    \/ /\ call[x].pc = "writeIndex" /\ k = call[x].key
       /\ Listed(b, p, k, b.task)
       /\ index'[p][k].ver = index[p][k].ver + 1
       /\ index'[p][k].ids = Append(index[p][k].ids, b.task)

\* A record stays as it is, or gets the turn of the call.
TaskStep(x, b) ==
  \A p \in Replicas, t \in Tasks :
    \/ task'[p][t] = task[p][t]
    \/ t \in PutTasks /\ task'[p][t].ver # 0
    \/ /\ t \notin PutTasks
       /\ IF task[p][t].ver = 0 THEN Began(b, p, t) ELSE Rewrote(b, p, t)
       /\ task'[p][t].ver = task[p][t].ver + 1
       /\ task'[p][t].turns = Append(task[p][t].turns, x)

LEMMA IndexKept ==
  ASSUME StoreInv, NEW x \in Writers, NEW b \in WriteCall, IndexStep(x, b),
         NEW p \in Replicas, NEW k \in Keys
  PROVE  /\ index[p][k].ver \in Nat /\ index'[p][k].ver \in Nat
         /\ index[p][k].ver <= index'[p][k].ver
         /\ ToSet(index[p][k].ids) \subseteq ToSet(index'[p][k].ids)
<1>1. index[p][k].ver \in Nat /\ index[p][k].ids \in Seq(Tasks) /\ b.task \in Tasks
  BY DEF StoreInv, Typed, Index, Ids, WriteCall
<1>2. CASE index'[p][k] = index[p][k]
  BY <1>1, <1>2
<1>3. CASE /\ index'[p][k].ver = index[p][k].ver + 1
           /\ index'[p][k].ids = Append(index[p][k].ids, b.task)
  BY <1>1, <1>3, AppendToSet
<1> QED
  BY <1>2, <1>3 DEF IndexStep

LEMMA RecordKept ==
  ASSUME StoreInv, CountInv, NEW x \in Writers, NEW b, TaskStep(x, b),
         NEW p \in Replicas, NEW t \in Tasks
  PROVE  /\ task[p][t].ver \in Nat
         /\ task[p][t].ver # 0 => task'[p][t].ver # 0
         /\ t \notin PutTasks =>
              LET u == task[p][t].turns
                  v == task'[p][t].turns
              IN  /\ task'[p][t].ver \in Nat /\ task[p][t].ver <= task'[p][t].ver
                  /\ task[p][t].ver # 0 => u[1] = v[1]
                  /\ \A n \in DOMAIN u : n \in DOMAIN v /\ u[n] = v[n]
<1>1. task[p][t].ver \in Nat /\ task[p][t].turns \in Seq(Writers)
  BY DEF StoreInv, Typed, Record, Turns
<1>2. CASE task'[p][t] = task[p][t]
  BY <1>1, <1>2
<1>3. CASE t \in PutTasks /\ task'[p][t].ver # 0
  BY <1>1, <1>3
<1>4. CASE /\ t \notin PutTasks
           /\ task'[p][t].ver = task[p][t].ver + 1
           /\ task'[p][t].turns = Append(task[p][t].turns, x)
  <2>1. task[p][t].ver = Len(task[p][t].turns)
    BY <1>4 DEF CountInv, RecordCounted
  <2> DEFINE u == task[p][t].turns
  <2>2. /\ Len(u) \in Nat /\ DOMAIN u = 1..Len(u)
        /\ DOMAIN Append(u, x) = 1..(Len(u) + 1)
        /\ \A n \in 1..Len(u) : Append(u, x)[n] = u[n]
    BY <1>1, AppendFacts
  <2>3. \A n \in DOMAIN u : n \in DOMAIN Append(u, x) /\ u[n] = Append(u, x)[n]
    BY <2>2
  <2>4. Len(u) # 0 => u[1] = Append(u, x)[1]
    BY <2>2
  <2>5. task'[p][t].ver \in Nat /\ task[p][t].ver <= task'[p][t].ver /\ task'[p][t].ver # 0
    BY <1>1, <1>4
  <2>6. task'[p][t].turns = Append(u, x) /\ t \notin PutTasks
    BY <1>4
  <2> QED
    BY ONLY <1>1, <2>1, <2>3, <2>4, <2>5, <2>6
<1> QED
  BY <1>2, <1>3, <1>4 DEF TaskStep

\* Another call has lost nothing that was said of it.
LEMMA CallKept ==
  ASSUME StoreInv, CountInv, NEW x \in Writers, NEW b \in WriteCall, IndexStep(x, b),
         TaskStep(x, b), NEW y \in Writers, call'[y] = call[y]
  PROVE  CallCounted(y)'
<1> DEFINE c == call[y]
           p == c.replica
           t == c.task
           r == task[p][t]
           q == task'[p][t]
<1>1. c \in WriteCall /\ p \in Replicas /\ t \in Tasks /\ c.tries \in Nat
  BY CallFacts DEF WriteCall
<1>2. Stage(c) /\ RoundsLost(c, r, index[p][c.key]) /\ Written(y, c, r, index[p])
  BY DEF CountInv, CallCounted
<1>3. c.created => r.ver # 0
  BY <1>2 DEF Written
<1>4. RoundsLost(c, q, index'[p][c.key])
  <2>1. c.pc = "readIndex" => c.key \in Keys
    BY CallFacts DEF Indexing
  <2>2. c.pc = "readIndex" => /\ index[p][c.key].ver \in Nat /\ index'[p][c.key].ver \in Nat
                              /\ index[p][c.key].ver <= index'[p][c.key].ver
    BY <1>1, <2>1, IndexKept
  <2>3. c.pc = "reread" => r.ver \in Nat /\ q.ver \in Nat /\ r.ver <= q.ver
    BY <1>1, <1>2, RecordKept DEF Stage
  <2> QED
    BY <1>1, <1>2, <2>2, <2>3 DEF RoundsLost
<1>5. Written(y, c, q, index'[p])
  <2>1. c.created => q.ver # 0
    BY <1>1, <1>3, RecordKept
  <2>2. \A k \in KeysOf(t) : ToSet(index[p][k].ids) \subseteq ToSet(index'[p][k].ids)
    <3>1. KeysOf(t) \subseteq Keys
      BY <1>1, TaskStoreAssumption DEF KeysOf, Keys
    <3> QED
      BY <1>1, <3>1, IndexKept
  <2>3. t \notin PutTasks /\ c.created => q.turns[1] = y
    BY <1>1, <1>2, <1>3, RecordKept DEF Written
  <2>4. t \notin PutTasks => \A n \in DOMAIN r.turns : n \in DOMAIN q.turns /\ r.turns[n] = q.turns[n]
    BY <1>1, RecordKept
  <2> QED
    BY <1>2, <2>1, <2>2, <2>3, <2>4 DEF Written
<1> QED
  BY <1>2, <1>4, <1>5 DEF CallCounted

\* An index after the step.
LEMMA IndexStepCounts ==
  ASSUME StoreInv, CountInv, NEW x \in Writers, NEW b \in WriteCall, Advances(call[x], b),
         Becomes(x, b), IndexStep(x, b), NEW p \in Replicas, NEW k \in Keys
  PROVE  IndexCounted(p, k)'
<1> DEFINE i == index[p][k]
           j == index'[p][k]
<1>1. /\ i.ver = Len(i.ids) /\ IsInjective(i.ids) /\ i.ids \in Seq(Tasks)
      /\ \A n \in DOMAIN i.ids : \E y \in Writers : Listed(call[y], p, k, i.ids[n])
  BY DEF CountInv, IndexCounted, StoreInv, Typed, Index, Ids
<1>2. call'[x] = b /\ \A y \in Writers \ {x} : call'[y] = call[y]
  BY DEF Becomes, StoreInv, Calls
<1>3. ASSUME NEW y \in Writers, NEW t, Listed(call[y], p, k, t)  PROVE Listed(call'[y], p, k, t)
  <2>1. CASE y = x
    <3>1. call[x].created /\ call[x].pc # "new"
      BY <1>3, <2>1 DEF Listed, CountInv, CallCounted, Stage
    <3> QED
      BY <1>2, <1>3, <2>1, <3>1 DEF Listed, Advances
  <2> QED
    BY <1>2, <1>3, <2>1
<1>4. CASE j = i
  BY <1>1, <1>3, <1>4 DEF IndexCounted
<1>5. CASE /\ call[x].pc = "writeIndex" /\ k = call[x].key /\ Listed(b, p, k, b.task)
           /\ j.ver = i.ver + 1 /\ j.ids = Append(i.ids, b.task)
  <2>1. b.task \in Tasks
    BY DEF WriteCall
  <2>2. b.task \notin ToSet(i.ids)
    <3> SUFFICES ASSUME NEW n \in DOMAIN i.ids, i.ids[n] = b.task  PROVE FALSE
      BY DEF ToSet
    <3>1. PICK y \in Writers : Listed(call[y], p, k, b.task)
      BY <1>1
    <3>2. /\ call[x].created /\ call[x].replica = p /\ call[x].task = b.task
          /\ ~Past(call[x], k)
      BY <1>5 DEF Listed, Advances, CountInv, CallCounted, Stage, Past
    <3>3. y = x
      BY <3>1, <3>2 DEF CountInv, OneCreator, Listed
    <3> QED
      BY <3>1, <3>2, <3>3 DEF Listed
  <2> DEFINE s == i.ids
  <2>0. s \in Seq(Tasks) /\ IsInjective(s) /\ j.ids = Append(s, b.task)
    BY <1>1, <1>5
  <2> HIDE DEF s
  <2>3. /\ Len(j.ids) = Len(s) + 1 /\ IsInjective(j.ids)
        /\ DOMAIN s = 1..Len(s) /\ DOMAIN j.ids = 1..(Len(s) + 1)
        /\ \A n \in 1..Len(s) : j.ids[n] = s[n]
        /\ j.ids[Len(s) + 1] = b.task /\ Len(s) \in Nat
    <3>1. b.task \notin ToSet(s)
      BY <2>2 DEF s
    <3>2. IsInjective(Append(s, b.task))
      BY <2>0, <2>1, <3>1, AppendOnce
    <3> QED
      BY <2>0, <2>1, <3>2, AppendFacts
  <2> USE DEF s
  <2>4. ASSUME NEW n \in DOMAIN j.ids  PROVE \E y \in Writers : Listed(call'[y], p, k, j.ids[n])
    <3>1. n \in DOMAIN i.ids \/ n = Len(i.ids) + 1
      BY <2>3
    <3>2. CASE n \in DOMAIN i.ids
      BY <1>1, <1>3, <2>3, <3>2
    <3>3. CASE n = Len(i.ids) + 1
      BY <1>2, <1>5, <2>3, <3>3
    <3> QED
      BY <3>1, <3>2, <3>3
  <2>5. j.ver = Len(j.ids)
    BY <1>1, <1>5, <2>3
  <2> QED
    BY <2>3, <2>4, <2>5 DEF IndexCounted
<1> QED
  BY <1>4, <1>5 DEF IndexStep

\* A record after the step.
LEMMA TaskStepCounts ==
  ASSUME StoreInv, StoreInv', CountInv, NEW x \in Writers, NEW b \in WriteCall,
         Advances(call[x], b), Becomes(x, b), TaskStep(x, b),
         NEW p \in Replicas, NEW t \in Tasks \ PutTasks
  PROVE  RecordCounted(p, t)'
<1> DEFINE r == task[p][t]
           q == task'[p][t]
<1>1. /\ r.ver = Len(r.turns) /\ r.turns \in Seq(Writers)
      /\ r.ver # 0 => Began(call[r.turns[1]], p, t)
      /\ \A n \in DOMAIN r.turns \ {1} : Rewrote(call[r.turns[n]], p, t)
      /\ \A m, n \in DOMAIN r.turns \ {1} : r.turns[m] = r.turns[n] => m = n
  BY DEF CountInv, RecordCounted, StoreInv, Typed, Record, Turns
<1>2. call'[x] = b /\ \A y \in Writers \ {x} : call'[y] = call[y]
  BY DEF Becomes, StoreInv, Calls
<1>3. ASSUME NEW y \in Writers
      PROVE  /\ Rewrote(call[y], p, t) => y # x /\ Rewrote(call'[y], p, t)
             /\ Began(call[y], p, t) => Began(call'[y], p, t)
  <2>1. CASE y = x
    BY <1>2, <2>1 DEF Rewrote, Began, Advances
  <2> QED
    BY <1>2, <2>1
<1>4. Len(r.turns) \in Nat /\ DOMAIN r.turns = 1..Len(r.turns)
  BY <1>1, LenProperties
<1>5. \A n \in DOMAIN r.turns : r.turns[n] \in Writers
  BY <1>1, <1>4, ElementOfSeq
<1>6. r.ver # 0 => Began(call'[r.turns[1]], p, t)
  BY <1>1, <1>3, <1>4, <1>5
<1>7. \A n \in DOMAIN r.turns \ {1} : r.turns[n] # x /\ Rewrote(call'[r.turns[n]], p, t)
  BY <1>1, <1>3, <1>5
<1>8. CASE q = r
  BY <1>1, <1>6, <1>7, <1>8 DEF RecordCounted
<1>9. CASE /\ IF r.ver = 0 THEN Began(b, p, t) ELSE Rewrote(b, p, t)
           /\ q.ver = r.ver + 1 /\ q.turns = Append(r.turns, x)
  <2> DEFINE s == r.turns
             u == q.turns
  <2>1. /\ Len(u) = Len(s) + 1
        /\ DOMAIN u = 1..(Len(s) + 1) /\ DOMAIN s = 1..Len(s) /\ Len(s) \in Nat
        /\ \A n \in 1..Len(s) : u[n] = s[n]
        /\ u[Len(s) + 1] = x
    BY <1>1, <1>9, AppendFacts
  <2>2. q.ver = Len(u)
    BY <1>1, <1>9, <2>1
  <2>3. \A n \in DOMAIN u : n \in DOMAIN s \/ n = Len(s) + 1
    BY <2>1
  <2>4. Began(call'[u[1]], p, t)
    <3>1. CASE r.ver = 0
      BY <1>1, <1>2, <1>9, <2>1, <3>1
    <3>2. CASE r.ver # 0
      <4>1. u[1] = s[1]
        BY <1>1, <2>1, <3>2
      <4> QED
        BY <1>6, <3>2, <4>1
    <3> QED
      BY <3>1, <3>2
  <2>5. ASSUME NEW n \in DOMAIN u \ {1}
        PROVE  n \in DOMAIN s \/ (n = Len(s) + 1 /\ Rewrote(b, p, t))
    BY <1>1, <1>9, <2>1, <2>3
  <2>6. \A n \in DOMAIN u \ {1} : Rewrote(call'[u[n]], p, t)
    BY <1>2, <1>7, <2>1, <2>5
  <2>7. \A m, n \in DOMAIN u \ {1} : u[m] = u[n] => m = n
    BY <1>1, <1>7, <2>1, <2>3
  <2> QED
    BY <2>2, <2>4, <2>6, <2>7 DEF RecordCounted
<1> QED
  BY <1>8, <1>9 DEF TaskStep

\* Who creates a record is the first.
LEMMA CreatorStepCounts ==
  ASSUME StoreInv, CountInv, NEW x \in Writers, NEW b \in WriteCall,
         Advances(call[x], b), Becomes(x, b),
         b.created /\ ~call[x].created => task[b.replica][b.task].ver = 0
  PROVE  OneCreator'
<1>1. call'[x] = b /\ \A y \in Writers \ {x} : call'[y] = call[y]
  BY DEF Becomes, StoreInv, Calls
<1> SUFFICES ASSUME NEW y \in Writers, y # x, call[y].created, b.created,
                    call[y].replica = b.replica, call[y].task = b.task
             PROVE  FALSE
  BY <1>1 DEF CountInv, OneCreator
<1>2. task[b.replica][b.task].ver # 0
  BY DEF CountInv, CallCounted, Written
<1>3. call[x].created /\ b.replica = call[x].replica /\ b.task = call[x].task
  BY <1>2 DEF Advances, CountInv, CallCounted, Stage
<1> QED
  BY <1>3 DEF CountInv, OneCreator

LEMMA StepCounts ==
  ASSUME StoreInv, StoreInv', CountInv, NEW x \in Writers, NEW b \in WriteCall,
         Advances(call[x], b), Becomes(x, b), IndexStep(x, b), TaskStep(x, b),
         b.created /\ ~call[x].created => task[b.replica][b.task].ver = 0,
         CallCounted(x)'
  PROVE  CountInv'
<1>1. \A y \in Writers \ {x} : call'[y] = call[y]
  BY DEF Becomes, StoreInv, Calls
<1>2. \A y \in Writers : CallCounted(y)'
  BY <1>1, CallKept
<1> QED
  BY <1>2, IndexStepCounts, TaskStepCounts, CreatorStepCounts DEF CountInv


----------------------------------------------------------------------------
(* The steps, one by one. *)

LEMMA DoneSame ==
  ASSUME NEW c \in WriteCall
  PROVE  Done(c).hit = c.hit /\ Done(c).created = c.created
<1> DEFINE b == [c EXCEPT !.pc = "done", !.ver = 0, !.ids = <<>>, !.turns = <<>>, !.made = 0,
                          !.tries = 0, !.left = <<>>, !.todo = <<>>, !.newest = {}]
<1>1. b.hit = c.hit /\ b.created = c.created
  BY ZenonT(40) DEF WriteCall
<1> QED
  BY <1>1 DEF Done

LEMMA HitSame ==
  ASSUME NEW c \in WriteCall
  PROVE  Hit(c).hit /\ Hit(c).created = c.created /\ Hit(c).tries = c.tries
  BY DEF Hit, WriteCall

\* What a call that writes an index becomes when it is done with that index.
LEMMA NextKeySame ==
  ASSUME NEW c \in WriteCall, Stage(c), c.pc \in {"readIndex", "writeIndex"},
         NEW b, b = NextKey(c)
  PROVE  /\ b \in WriteCall /\ Stage(b) /\ Advances(c, b)
         /\ b.created /\ b.hit = c.hit /\ Past(b, c.key)
         /\ b.pc = "done" \/ (b.pc = "readIndex" /\ b.tries = 0)
         /\ \A k \in KeysOf(c.task) : Past(b, k) => k = c.key \/ Past(c, k)
<1>1. /\ c.created /\ c.key \in KeysOf(c.task) /\ c.task \in Tasks
      /\ ContextOf[c.task] \in Contexts /\ ContextOf[c.task] # UserOf[c.task]
      /\ ContextOf[c.task] # NoUser
  BY TaskStoreAssumption DEF Stage, WriteCall, Keys
<1>2. /\ b \in WriteCall /\ b.pc \in {"readIndex", "done"}
      /\ b.replica = c.replica /\ b.task = c.task
  BY NextKeyFacts
<1>3. CASE c.key = ContextOf[c.task] /\ UserOf[c.task] # NoUser
  <2> DEFINE u == UserOf[c.task]
  <2>1. b = [c EXCEPT !.pc = "readIndex", !.key = u, !.tries = 0]
    BY <1>3 DEF NextKey
  <2> HIDE DEF u
  <2>2. b.pc = "readIndex" /\ b.key = u /\ b.tries = 0 /\ b.hit = c.hit /\ b.created = c.created
    BY <2>1 DEF WriteCall
  <2> USE DEF u
  <2>3. Stage(b)
    BY <1>1, <1>2, <1>3, <2>2 DEF Stage, KeysOf
  <2>4. Past(b, c.key) /\ \A k \in KeysOf(c.task) : Past(b, k) => k = c.key \/ Past(c, k)
    BY <1>1, <1>2, <1>3, <2>2 DEF Past, KeysOf
  <2>5. \A k \in Keys : Past(c, k) => Past(b, k)
    BY <1>3 DEF Past
  <2> QED
    BY <1>1, <1>2, <2>2, <2>3, <2>4, <2>5 DEF Advances
<1>4. CASE ~ (c.key = ContextOf[c.task] /\ UserOf[c.task] # NoUser)
  <2>1. b = Done(c)
    BY <1>4 DEF NextKey
  <2>2. b.pc = "done" /\ b.hit = c.hit /\ b.created = c.created
    BY <2>1, DoneFacts, DoneSame
  <2>3. Stage(b)
    BY <2>2 DEF Stage
  <2>4. \A k : Past(b, k)
    BY <2>2 DEF Past
  <2>5. \A k \in KeysOf(c.task) : k = c.key \/ Past(c, k)
    BY <1>1, <1>4 DEF Past, KeysOf
  <2> QED
    BY <1>1, <1>2, <2>2, <2>3, <2>4, <2>5 DEF Advances
<1> QED
  BY <1>3, <1>4

\* A step that leaves the storage alone.
LEMMA NothingCounted ==
  ASSUME UNCHANGED <<task, index>>, NEW x, NEW b
  PROVE  IndexStep(x, b) /\ TaskStep(x, b)
  BY DEF IndexStep, TaskStep

LEMMA CountFacts ==
  ASSUME StoreInv, CountInv, NEW x \in Writers
  PROVE  /\ call[x] \in WriteCall
         /\ call[x].replica \in Replicas /\ call[x].task \in Tasks
         /\ Stage(call[x])
         /\ RoundsLost(call[x], task[call[x].replica][call[x].task],
                       index[call[x].replica][call[x].key])
         /\ Written(x, call[x], task[call[x].replica][call[x].task], index[call[x].replica])
  BY CallFacts DEF CountInv, CallCounted

LEMMA CountedAfter ==
  ASSUME StoreInv, NEW x \in Writers, NEW b \in WriteCall, Becomes(x, b), Stage(b),
         RoundsLost(b, task'[b.replica][b.task], index'[b.replica][b.key]),
         Written(x, b, task'[b.replica][b.task], index'[b.replica])
  PROVE  CallCounted(x)'
<1>1. call'[x] = b
  BY DEF Becomes, StoreInv, Calls
<1> QED
  BY <1>1 DEF CallCounted

\* What is written of a call whose record was created before.
LEMMA WrittenKept ==
  ASSUME StoreInv, CountInv, NEW x \in Writers, NEW b \in WriteCall,
         call[x].created, Advances(call[x], b), IndexStep(x, b), TaskStep(x, b),
         \A k \in KeysOf(b.task) : Past(b, k) /\ ~b.hit =>
            Past(call[x], k) \/ b.task \in ToSet(index'[b.replica][k].ids)
  PROVE  Written(x, b, task'[b.replica][b.task], index'[b.replica])
<1> DEFINE c == call[x]
           p == c.replica
           t == c.task
           r == task[p][t]
           q == task'[p][t]
<1>1. /\ c \in WriteCall /\ p \in Replicas /\ t \in Tasks /\ Stage(c)
      /\ Written(x, c, r, index[p])
  BY CountFacts
<1>2. b.replica = p /\ b.task = t /\ b.created /\ (c.hit => b.hit)
  BY <1>1 DEF Stage, Advances
<1>3. r.ver # 0 /\ q.ver # 0
  BY <1>1, RecordKept DEF Written
<1>4. t \notin PutTasks => q.turns[1] = x
  BY <1>1, <1>3, RecordKept DEF Written
<1>5. \A k \in KeysOf(t) : ToSet(index[p][k].ids) \subseteq ToSet(index'[p][k].ids)
  <2>1. KeysOf(t) \subseteq Keys
    BY <1>1, TaskStoreAssumption DEF KeysOf, Keys
  <2> QED
    BY <1>1, <2>1, IndexKept
<1>6. \A k \in KeysOf(t) : Past(b, k) /\ ~b.hit => t \in ToSet(index'[p][k].ids)
  BY <1>1, <1>2, <1>5 DEF Written
<1> QED
  BY <1>2, <1>3, <1>4, <1>6 DEF Written

LEMMA BeginWriteCounts ==
  ASSUME StoreInv, StoreInv', CountInv, NEW x \in Writers, NEW p \in Replicas, NEW t \in Tasks,
         BeginWrite(x, p, t)
  PROVE  CountInv'
<1> DEFINE n == IF t \in PutTasks THEN 0 ELSE clock
           b == [call[x] EXCEPT !.pc = "create", !.replica = p, !.task = t, !.now = n]
<1>1. call[x] \in WriteCall /\ call[x].pc = "new" /\ Stage(call[x]) /\ n \in Nat
  BY CountFacts DEF BeginWrite, At, StoreInv, Typed
<1>2. Becomes(x, b) /\ UNCHANGED <<task, index>>
  BY DEF BeginWrite, stored
<1> HIDE DEF n
<1>3. /\ b \in WriteCall /\ b.pc = "create"
      /\ b.created = call[x].created /\ b.tries = call[x].tries /\ b.hit = call[x].hit
  BY ZenonT(40), <1>1 DEF WriteCall
<1> HIDE DEF b
<1>4. ~call[x].created /\ call[x].tries = 0
  BY <1>1 DEF Stage
<1>5. Stage(b) /\ Advances(call[x], b)
  BY <1>1, <1>3, <1>4 DEF Stage, Advances
<1>6. \A r, i, j : RoundsLost(b, r, i) /\ Written(x, b, r, j)
  BY <1>3, <1>4 DEF RoundsLost, Written
<1>7. IndexStep(x, b) /\ TaskStep(x, b)
  BY <1>2, NothingCounted
<1>8. CallCounted(x)'
  BY <1>2, <1>3, <1>5, <1>6, CountedAfter
<1> QED
  BY <1>2, <1>3, <1>4, <1>5, <1>7, <1>8, StepCounts

\* A call that is refused goes on to the record that is there.
LEMMA RefusedCounts ==
  ASSUME StoreInv, StoreInv', CountInv, NEW x \in Writers, call[x].pc = "create",
         NEW b \in WriteCall, Becomes(x, b), UNCHANGED index,
         b.pc = (IF call[x].task \in PutTasks THEN "overwrite" ELSE "reread"),
         b.replica = call[x].replica, b.task = call[x].task,
         b.created = call[x].created, b.tries = call[x].tries,
         call[x].hit => b.hit,
         b.hit \/ (UNCHANGED task /\ task[b.replica][b.task].ver # 0),
         TaskStep(x, b)
  PROVE  CountInv'
<1> DEFINE c == call[x]
           p == c.replica
           t == c.task
<1>1. /\ c \in WriteCall /\ p \in Replicas /\ t \in Tasks /\ ~c.created /\ c.tries = 0
  BY CountFacts DEF Stage
<1>2. Stage(b) /\ Advances(c, b)
  BY <1>1 DEF Stage, Advances
<1>3. RoundsLost(b, task'[p][t], index'[p][b.key])
  <2>1. task[p][t].ver \in Nat
    BY <1>1, RecordKept
  <2> QED
    BY <1>1, <2>1 DEF RoundsLost
<1>4. Written(x, b, task'[p][t], index'[p])
  BY <1>1 DEF Written
<1>5. CallCounted(x)'
  BY <1>2, <1>3, <1>4, CountedAfter
<1>6. IndexStep(x, b)
  BY DEF IndexStep
<1> QED
  BY <1>1, <1>2, <1>5, <1>6, StepCounts

LEMMA CreateTaskCounts ==
  ASSUME StoreInv, StoreInv', CountInv, NEW x \in Writers, CreateTask(x)
  PROVE  CountInv'
<1> DEFINE c == call[x]
           p == c.replica
           t == c.task
           r == Snapshot(x, 1, c.now, OwnTurns(x))
           key == ContextOf[t]
           indexed == [c EXCEPT !.pc = "readIndex", !.key = ContextOf[c.task],
                                !.created = TRUE]
           refused == [c EXCEPT !.pc = IF c.task \in PutTasks THEN "overwrite"
                                                              ELSE "reread"]
<1>1. /\ c \in WriteCall /\ p \in Replicas /\ t \in Tasks /\ c.pc = "create"
      /\ ~c.created /\ c.tries = 0 /\ UNCHANGED index
  BY CountFacts DEF CreateTask, At, Stage
<1>2. ASSUME task[p][t].ver = 0, task' = [task EXCEPT ![p][t] = r],
             NEW b \in WriteCall, Began(b, p, t)
      PROVE  TaskStep(x, b) /\ task'[p][t] = r
  <2>1. task' \in [Replicas -> [Tasks -> Record]] /\ task'[p][t] = r
    BY <1>1, <1>2 DEF StoreInv, Typed
  <2>2. r.ver = 1 /\ (t \notin PutTasks => r.turns = <<x>>)
    BY DEF Snapshot, OwnTurns
  <2>3. ASSUME t \notin PutTasks  PROVE r.turns = Append(task[p][t].turns, x)
    <3>1. task[p][t].turns \in Seq(Writers) /\ Len(task[p][t].turns) = 0
      BY <1>1, <1>2, <2>3 DEF CountInv, RecordCounted, StoreInv, Typed, Record, Turns
    <3>2. task[p][t].turns = <<>>
      BY <3>1, EmptySeq
    <3> QED
      BY <2>2, <2>3, <3>2
  <2>4. \A q \in Replicas, u \in Tasks : (q = p /\ u = t) \/ task'[q][u] = task[q][u]
    BY <1>2 DEF StoreInv, Typed
  <2> HIDE DEF r
  <2>5. /\ t \in PutTasks => task'[p][t].ver # 0
        /\ t \notin PutTasks =>
             /\ IF task[p][t].ver = 0 THEN Began(b, p, t) ELSE Rewrote(b, p, t)
             /\ task'[p][t].ver = task[p][t].ver + 1
             /\ task'[p][t].turns = Append(task[p][t].turns, x)
    <3> HIDE DEF p, t, c
    <3>1. task'[p][t].ver = 1 /\ task[p][t].ver + 1 = 1
      BY <1>2, <2>1, <2>2
    <3>2. t \notin PutTasks => task'[p][t].turns = Append(task[p][t].turns, x)
      BY <2>1, <2>3
    <3> QED
      BY <1>2, <3>1, <3>2
  <2> QED
    BY <2>1, <2>4, <2>5 DEF TaskStep
<1>3. refused \in WriteCall /\ Hit(refused) \in WriteCall
  BY <1>1, HitFacts DEF WriteCall
<1>4. ASSUME NEW b \in {refused, Hit(refused)}
      PROVE  /\ b \in WriteCall
             /\ b.pc = (IF t \in PutTasks THEN "overwrite" ELSE "reread")
             /\ b.replica = p /\ b.task = t /\ b.created = c.created /\ b.tries = c.tries
             /\ b = refused => b.hit = c.hit
             /\ b = Hit(refused) => b.hit
  <2>1. /\ refused.pc = (IF t \in PutTasks THEN "overwrite" ELSE "reread")
        /\ refused.replica = p /\ refused.task = t /\ refused.created = c.created
        /\ refused.tries = c.tries /\ refused.hit = c.hit
    BY <1>1 DEF WriteCall
  <2> QED
    BY <1>3, <2>1, HitFacts, HitSame
<1>5. CASE /\ task[p][t].ver = 0 /\ task' = [task EXCEPT ![p][t] = r] /\ Becomes(x, indexed)
  <2>1. key \in Keys /\ key \in KeysOf(t)
    BY <1>1, TaskStoreAssumption DEF Keys, KeysOf
  <2>2. indexed = [c EXCEPT !.pc = "readIndex", !.key = key, !.created = TRUE]
    OBVIOUS
  <2>3. /\ indexed \in WriteCall /\ indexed.pc = "readIndex" /\ indexed.created
        /\ indexed.key = key /\ indexed.replica = p /\ indexed.task = t
        /\ indexed.tries = 0 /\ indexed.hit = c.hit
    <3> HIDE DEF key
    <3> QED
      BY ZenonT(40), <1>1, <2>1, <2>2 DEF WriteCall
  <2> DEFINE b == indexed
  <2> HIDE DEF indexed
  <2>4. TaskStep(x, b) /\ task'[p][t] = r
    <3>1. Began(b, p, t)
      BY <2>3 DEF Began
    <3> HIDE DEF p, t, c, r
    <3> QED
      BY <1>2, <1>5, <2>3, <3>1
  <2>5. Stage(b) /\ Advances(c, b)
    <3>1. b.key \in KeysOf(b.task)
      BY <2>1, <2>3
    <3>2. Stage(b)
      BY <2>3, <3>1 DEF Stage
    <3> HIDE DEF c
    <3>3. Advances(c, b)
      BY <1>1, <2>3 DEF Advances
    <3> QED
      BY <3>2, <3>3
  <2>6. RoundsLost(b, task'[p][t], index'[p][b.key])
    <3>1. index'[p][b.key].ver \in Nat
      BY <1>1, <2>1, <2>3 DEF StoreInv, Typed, Index
    <3> QED
      BY <2>3, <3>1 DEF RoundsLost
  <2>7. Written(x, b, task'[p][t], index'[p])
    <3>1. r.ver = 1 /\ (t \notin PutTasks => r.turns[1] = x)
      BY DEF Snapshot, OwnTurns
    <3>2. \A k \in KeysOf(t) : ~Past(b, k)
      BY <2>3 DEF Past
    <3> HIDE DEF r
    <3> QED
      BY <2>3, <2>4, <3>1, <3>2 DEF Written
  <2>8. CallCounted(x)'
    BY <1>5, <2>3, <2>5, <2>6, <2>7, CountedAfter
  <2>9. IndexStep(x, b)
    BY <1>1 DEF IndexStep
  <2> QED
    BY <1>5, <2>3, <2>4, <2>5, <2>8, <2>9, StepCounts
<1>6. CASE UNCHANGED task /\ task[p][t].ver # 0 /\ Becomes(x, refused)
  <2>1. TaskStep(x, refused)
    BY <1>6 DEF TaskStep
  <2> QED
    BY <1>1, <1>4, <1>6, <2>1, RefusedCounts
<1>7. CASE UNCHANGED task /\ Becomes(x, Hit(refused))
  <2>1. TaskStep(x, Hit(refused))
    BY <1>7 DEF TaskStep
  <2> HIDE DEF refused
  <2> QED
    BY <1>1, <1>4, <1>7, <2>1, RefusedCounts
<1>8. CASE /\ task[p][t].ver = 0 /\ task' = [task EXCEPT ![p][t] = r]
           /\ Becomes(x, Hit(refused))
  <2>1. Began(Hit(refused), p, t)
    <3> HIDE DEF refused
    <3> QED
      BY <1>4 DEF Began
  <2>2. TaskStep(x, Hit(refused))
    BY <1>2, <1>3, <1>8, <2>1
  <2> HIDE DEF refused
  <2> QED
    BY <1>1, <1>4, <1>8, <2>2, RefusedCounts
<1> QED
  BY <1>5, <1>6, <1>7, <1>8 DEF CreateTask

\* A call is done with an index: it has written it, or has met a fault.
LEMMA IndexedCounts ==
  ASSUME StoreInv, StoreInv', CountInv, NEW x \in Writers,
         call[x].pc \in {"readIndex", "writeIndex"},
         NEW e \in {call[x], Hit(call[x])}, NEW b, b = NextKey(e), Becomes(x, b), UNCHANGED task,
         Past(b, call[x].key) => IndexStep(x, b),
         e.hit \/ call[x].task \in ToSet(index'[call[x].replica][call[x].key].ids)
  PROVE  CountInv'
<1> DEFINE c == call[x]
           p == c.replica
           t == c.task
<1>1. /\ c \in WriteCall /\ p \in Replicas /\ t \in Tasks /\ Stage(c)
      /\ c.created /\ c.key \in KeysOf(t)
  BY CountFacts DEF Stage
<1>2. /\ e \in WriteCall /\ Stage(e) /\ e.pc = c.pc /\ e.replica = p /\ e.task = t
      /\ e.key = c.key /\ e.created /\ (c.hit => e.hit)
      /\ \A k : Past(e, k) <=> Past(c, k)
  <2>1. /\ Hit(c) \in WriteCall /\ Hit(c).pc = c.pc /\ Hit(c).replica = p /\ Hit(c).task = t
        /\ Hit(c).key = c.key /\ Hit(c).created = c.created /\ Hit(c).hit
        /\ Hit(c).tries = c.tries
    BY <1>1, HitFacts, HitSame
  <2>2. Stage(Hit(c)) /\ \A k : Past(Hit(c), k) <=> Past(c, k)
    BY <1>1, <2>1 DEF Stage, Past
  <2> QED
    BY <1>1, <2>1, <2>2
<1>3. /\ b \in WriteCall /\ Stage(b) /\ Advances(e, b)
      /\ b.created /\ b.hit = e.hit /\ Past(b, e.key)
      /\ b.pc = "done" \/ (b.pc = "readIndex" /\ b.tries = 0)
      /\ \A k \in KeysOf(t) : Past(b, k) => k = c.key \/ Past(e, k)
  <2>1. e.pc \in {"readIndex", "writeIndex"}
    BY <1>2
  <2> QED
    BY <1>2, <2>1, NextKeySame
<1>4. /\ Advances(c, b) /\ b.replica = p /\ b.task = t
      /\ IndexStep(x, b) /\ TaskStep(x, b)
  BY <1>1, <1>2, <1>3 DEF Advances, TaskStep
<1>5. RoundsLost(b, task'[p][t], index'[p][b.key])
  <2>1. CASE b.pc = "readIndex"
    <3>1. b.key \in Keys
      BY <1>3, <1>4, <1>1, <2>1, TaskStoreAssumption DEF Stage, KeysOf, Keys
    <3>2. index'[p][b.key].ver \in Nat
      BY <1>1, <3>1 DEF StoreInv, Typed, Index
    <3> QED
      BY <1>3, <2>1, <3>2 DEF RoundsLost
  <2> QED
    BY <1>3, <2>1 DEF RoundsLost
<1>6. \A k \in KeysOf(t) : Past(b, k) /\ ~b.hit => Past(c, k) \/ t \in ToSet(index'[p][k].ids)
  BY <1>2, <1>3
<1>7. Written(x, b, task'[p][t], index'[p])
  BY <1>1, <1>3, <1>4, <1>6, WrittenKept
<1>8. CallCounted(x)'
  BY <1>3, <1>4, <1>5, <1>7, CountedAfter
<1> QED
  BY <1>1, <1>3, <1>4, <1>8, StepCounts

LEMMA ReadIndexCounts ==
  ASSUME StoreInv, StoreInv', CountInv, NEW x \in Writers, ReadIndex(x)
  PROVE  CountInv'
<1> DEFINE c == call[x]
           p == c.replica
           t == c.task
           i == index[c.replica][c.key]
           b == [c EXCEPT !.pc = "writeIndex", !.ver = i.ver, !.ids = i.ids]
<1>1. /\ c \in WriteCall /\ p \in Replicas /\ t \in Tasks /\ Stage(c)
      /\ c.pc = "readIndex" /\ c.key \in Keys /\ i \in Index /\ c.created
      /\ c.key \in KeysOf(t) /\ UNCHANGED <<task, index>>
      /\ RoundsLost(c, task[p][t], i) /\ c.tries \in Nat
  BY CountFacts, CallFacts DEF ReadIndex, At, Stage, Indexing, StoreInv, Typed, stored, WriteCall
<1>2. CASE Becomes(x, b)
  <2>1. /\ b \in WriteCall /\ b.pc = "writeIndex" /\ b.replica = p /\ b.task = t
        /\ b.key = c.key /\ b.ver = i.ver /\ b.tries = c.tries
        /\ b.created = c.created /\ b.hit = c.hit
    BY ZenonT(40), <1>1 DEF WriteCall, Index
  <2> HIDE DEF b
  <2>2. Stage(b) /\ Advances(c, b)
    BY <1>1, <2>1 DEF Stage, Advances, Past
  <2>3. IndexStep(x, b) /\ TaskStep(x, b)
    BY <1>1, NothingCounted
  <2>4. RoundsLost(b, task'[p][t], index'[p][b.key])
    BY <1>1, <2>1 DEF RoundsLost
  <2>5. \A k : Past(b, k) => Past(c, k)
    BY <1>1, <2>1 DEF Past
  <2>6. Written(x, b, task'[p][t], index'[p])
    BY <1>1, <2>1, <2>2, <2>3, <2>5, WrittenKept
  <2>7. CallCounted(x)'
    BY <1>2, <2>1, <2>2, <2>4, <2>6, CountedAfter
  <2> QED
    BY <1>1, <1>2, <2>1, <2>2, <2>3, <2>7, StepCounts
<1>3. CASE Becomes(x, NextKey(Hit(c)))
  <2>1. IndexStep(x, NextKey(Hit(c))) /\ Hit(c).hit
    BY <1>1, NothingCounted, HitSame
  <2> QED
    BY <1>1, <1>3, <2>1, IndexedCounts
<1> QED
  BY <1>2, <1>3 DEF ReadIndex

LEMMA WriteIndexCounts ==
  ASSUME StoreInv, StoreInv', CountInv, FewWriters, NEW x \in Writers, WriteIndex(x)
  PROVE  CountInv'
<1> DEFINE c == call[x]
           p == c.replica
           t == c.task
           i == index[c.replica][c.key]
           j == [ver |-> c.ver + 1, ids |-> Append(c.ids, c.task)]
           again == [c EXCEPT !.pc = "readIndex", !.tries = @ + 1]
           Grown == index' = [index EXCEPT ![c.replica][c.key] = j]
<1>1. /\ c \in WriteCall /\ p \in Replicas /\ t \in Tasks /\ Stage(c)
      /\ c.pc = "writeIndex" /\ c.key \in Keys /\ c.created /\ c.key \in KeysOf(t)
      /\ i.ver \in Nat /\ i.ids \in Seq(Tasks) /\ c.ver \in Nat /\ c.tries \in Nat
      /\ UNCHANGED task
  <2>1. /\ c \in WriteCall /\ p \in Replicas /\ t \in Tasks /\ Stage(c)
        /\ c.pc = "writeIndex" /\ UNCHANGED task /\ c.key \in Keys
    BY CountFacts, CallFacts DEF WriteIndex, At, Indexing
  <2>2. c.created /\ c.key \in KeysOf(t)
    BY <2>1 DEF Stage
  <2>3. i \in Index
    BY <2>1 DEF StoreInv, Typed
  <2> QED
    BY <2>1, <2>2, <2>3 DEF Index, Ids, WriteCall
<1>2. c.tries <= c.ver /\ c.ver <= i.ver /\ (i.ver = c.ver => c.ids = i.ids)
  BY <1>1, CountFacts, CallFacts DEF RoundsLost, IndexRead
<1>3. CASE UNCHANGED index /\ Becomes(x, NextKey(Hit(c)))
  <2>1. IndexStep(x, NextKey(Hit(c))) /\ Hit(c).hit
    BY <1>1, <1>3, NothingCounted, HitSame
  <2> QED
    BY <1>1, <1>3, <2>1, IndexedCounts
<1>4. ASSUME i.ver = c.ver, Grown, NEW e \in {c, Hit(c)}, Becomes(x, NextKey(e))
      PROVE  CountInv'
  <2> DEFINE b == NextKey(e)
  <2>1. /\ index' \in [Replicas -> [Keys -> Index]] /\ index'[p][c.key] = j
        /\ \A q \in Replicas, k \in Keys :
             (q = p /\ k = c.key) \/ index'[q][k] = index[q][k]
    BY <1>1, <1>4 DEF StoreInv, Typed
  <2>2. j.ver = i.ver + 1 /\ j.ids = Append(i.ids, t)
    BY <1>2, <1>4
  <2>3. t \in ToSet(index'[p][c.key].ids)
    <3> HIDE DEF p, t, i, j, c
    <3> QED
      BY <1>1, <2>1, <2>2, AppendToSet
  <2>4. /\ e \in WriteCall /\ Stage(e) /\ e.pc = c.pc /\ e.replica = p /\ e.task = t
        /\ e.created
    <3>1. /\ Hit(c) \in WriteCall /\ Hit(c).pc = c.pc /\ Hit(c).replica = p /\ Hit(c).task = t
          /\ Hit(c).key = c.key /\ Hit(c).created = c.created /\ Hit(c).tries = c.tries
      BY <1>1, HitFacts, HitSame
    <3>2. Stage(Hit(c))
      BY <1>1, <3>1 DEF Stage
    <3> QED
      BY <1>1, <3>1, <3>2
  <2>5. b.created /\ b.replica = p /\ b.task = t
    <3> HIDE DEF p, t, i, j, c
    <3> QED
      BY <1>1, <2>4, NextKeySame DEF Advances
  <2>6. Past(b, c.key) => IndexStep(x, b)
    <3> HIDE DEF b
    <3>1. Past(b, c.key) => Listed(b, p, c.key, b.task)
      BY <2>5 DEF Listed
    <3>2. /\ index'[p][c.key].ver = index[p][c.key].ver + 1
          /\ index'[p][c.key].ids = Append(index[p][c.key].ids, b.task)
      BY <2>1, <2>2, <2>5
    <3> QED
      BY <1>1, <2>1, <3>1, <3>2 DEF IndexStep
  <2> QED
    BY <1>1, <1>4, <2>3, <2>6, IndexedCounts
<1>5. CASE /\ i.ver # c.ver /\ UNCHANGED index /\ Becomes(x, again)
  <2> DEFINE b == again
  <2>1. PICK n \in Nat : n = c.tries + 1
    BY <1>1
  <2>2. b = [c EXCEPT !.pc = "readIndex", !.tries = n]
    BY <1>1, <2>1 DEF WriteCall
  <2> HIDE DEF again
  <2>3. /\ b \in WriteCall /\ b.pc = "readIndex" /\ b.replica = p /\ b.task = t
        /\ b.key = c.key /\ b.tries = n /\ b.created = c.created /\ b.hit = c.hit
    BY ZenonT(40), <1>1, <2>2 DEF WriteCall
  <2>4. Stage(b) /\ Advances(c, b)
    BY <1>1, <2>3 DEF Stage, Advances, Past
  <2>5. IndexStep(x, b) /\ TaskStep(x, b)
    BY <1>1, <1>5, NothingCounted
  <2>6. RoundsLost(b, task'[p][t], index'[p][b.key])
    <3>1. n <= i.ver
      BY <1>1, <1>2, <1>5, <2>1
    <3> QED
      BY <1>5, <2>3, <3>1 DEF RoundsLost
  <2>7. \A k : Past(b, k) => Past(c, k)
    BY <1>1, <2>3 DEF Past
  <2>8. Written(x, b, task'[p][t], index'[p])
    BY <1>1, <2>3, <2>4, <2>5, <2>7, WrittenKept
  <2>9. CallCounted(x)'
    BY <1>5, <2>3, <2>4, <2>6, <2>8, CountedAfter
  <2> QED
    BY <1>1, <1>5, <2>3, <2>4, <2>5, <2>9, StepCounts
<1>6. ~ (i.ver # c.ver /\ ~ (c.tries + 1 < MaxRetries))
  <2>1. ~Past(c, c.key)
    BY <1>1 DEF Past
  <2>2. i.ver < MaxRetries
    BY <1>1, <2>1, IndexRounds
  <2> QED
    BY <1>1, <1>2, <2>2 DEF MaxRetries
<1>7. \/ i.ver = c.ver /\ Grown /\ (Becomes(x, NextKey(c)) \/ Becomes(x, NextKey(Hit(c))))
      \/ UNCHANGED index /\ Becomes(x, NextKey(Hit(c)))
      \/ i.ver # c.ver /\ UNCHANGED index /\ c.tries + 1 < MaxRetries /\ Becomes(x, again)
  BY <1>6 DEF WriteIndex
<1> QED
  BY <1>3, <1>4, <1>5, <1>7

\* A call ends after a fault.
LEMMA FailedCounts ==
  ASSUME StoreInv, StoreInv', CountInv, NEW x \in Writers, call[x].pc \notin {"new", "done"},
         NEW e \in {call[x], Hit(call[x])}, e.hit, NEW b, b = Done(e),
         Becomes(x, b), UNCHANGED index, TaskStep(x, b)
  PROVE  CountInv'
<1> DEFINE c == call[x]
<1>1. /\ c \in WriteCall /\ Stage(c)
      /\ Written(x, c, task[c.replica][c.task], index[c.replica])
      /\ c.replica \in Replicas /\ c.task \in Tasks
  BY CountFacts
<1>2. /\ b \in WriteCall /\ b.pc = "done" /\ b.hit /\ b.created = c.created
      /\ b.replica = c.replica /\ b.task = c.task
  <2>1. /\ e \in WriteCall /\ e.created = c.created /\ e.replica = c.replica
        /\ e.task = c.task
    BY <1>1, HitFacts, HitSame
  <2> HIDE DEF c
  <2> QED
    BY <2>1, DoneFacts, DoneSame
<1>3. Stage(b) /\ Advances(c, b)
  BY <1>2 DEF Stage, Advances, Past
<1>4. IndexStep(x, b)
  BY DEF IndexStep
<1>5. RoundsLost(b, task'[b.replica][b.task], index'[b.replica][b.key])
  BY <1>2 DEF RoundsLost
<1>6. Written(x, b, task'[b.replica][b.task], index'[b.replica])
  <2>1. CASE c.created
    BY <1>2, <1>3, <1>4, <2>1, WrittenKept
  <2>2. CASE ~c.created
    BY <1>2, <2>2 DEF Written
  <2> QED
    BY <2>1, <2>2
<1>7. CallCounted(x)'
  BY <1>2, <1>3, <1>5, <1>6, CountedAfter
<1> QED
  BY <1>2, <1>3, <1>4, <1>7, StepCounts

LEMMA RereadTaskCounts ==
  ASSUME StoreInv, StoreInv', CountInv, NEW x \in Writers, RereadTask(x)
  PROVE  CountInv'
<1> DEFINE c == call[x]
           p == c.replica
           t == c.task
           old == task[c.replica][c.task]
           m == IF old.ver = 0 THEN c.now ELSE old.created
           b == [c EXCEPT !.pc = "rewrite", !.ver = old.ver, !.turns = old.turns,
                          !.made = IF old.ver = 0 THEN c.now ELSE old.created]
<1>1. /\ c \in WriteCall /\ p \in Replicas /\ t \in Tasks /\ Stage(c)
      /\ c.pc = "reread" /\ old \in Record /\ UNCHANGED <<task, index>>
      /\ RoundsLost(c, old, index[p][c.key])
  BY CountFacts, CallFacts DEF RereadTask, At, stored
<1>2. CASE Becomes(x, b)
  <2>1. old.ver \in Nat /\ old.turns \in Turns /\ m \in Nat
    BY <1>1 DEF Record, WriteCall
  <2>2. b = [c EXCEPT !.pc = "rewrite", !.ver = old.ver, !.turns = old.turns, !.made = m]
    OBVIOUS
  <2> HIDE DEF m, b
  <2>3. /\ b \in WriteCall /\ b.pc = "rewrite" /\ b.replica = p /\ b.task = t
        /\ b.ver = old.ver /\ b.tries = c.tries /\ b.created = c.created /\ b.hit = c.hit
    BY ZenonT(40), <1>1, <2>1, <2>2 DEF WriteCall
  <2>4. ~c.created /\ t \notin PutTasks
    BY <1>1 DEF Stage
  <2>5. Stage(b) /\ Advances(c, b)
    BY <1>1, <2>3, <2>4 DEF Stage, Advances
  <2>6. IndexStep(x, b) /\ TaskStep(x, b)
    BY <1>1, NothingCounted
  <2>7. RoundsLost(b, task'[p][t], index'[p][b.key])
    BY <1>1, <2>3 DEF RoundsLost
  <2>8. Written(x, b, task'[p][t], index'[p])
    BY <2>3, <2>4 DEF Written
  <2>9. CallCounted(x)'
    BY <1>2, <2>3, <2>5, <2>7, <2>8, CountedAfter
  <2> QED
    BY <1>2, <2>3, <2>4, <2>5, <2>6, <2>9, StepCounts
<1>3. CASE Becomes(x, Done(Hit(c)))
  <2>1. TaskStep(x, Done(Hit(c))) /\ Hit(c).hit
    BY <1>1, NothingCounted, HitSame
  <2> QED
    BY <1>1, <1>3, <2>1, FailedCounts
<1> QED
  BY <1>2, <1>3 DEF RereadTask

LEMMA OverwriteTaskCounts ==
  ASSUME StoreInv, StoreInv', CountInv, NEW x \in Writers, OverwriteTask(x)
  PROVE  CountInv'
<1> DEFINE c == call[x]
           p == c.replica
           t == c.task
           old == task[c.replica][c.task]
           r == Snapshot(x, old.ver + 1, c.now, OwnTurns(x))
<1>1. /\ c \in WriteCall /\ p \in Replicas /\ t \in Tasks /\ Stage(c)
      /\ c.pc = "overwrite" /\ t \in PutTasks /\ UNCHANGED index /\ old.ver \in Nat
      /\ ~c.created
  BY CountFacts, CallFacts DEF OverwriteTask, At, TaskRead, Record, Stage
<1>2. \A b : TaskStep(x, b)
  <2>1. task' = [task EXCEPT ![p][t] = r] \/ UNCHANGED task
    BY <1>1 DEF OverwriteTask, StoreInv, Typed
  <2>2. r.ver # 0
    BY <1>1 DEF Snapshot
  <2>3. \A q \in Replicas, u \in Tasks :
          task'[q][u] = task[q][u] \/ (u = t /\ task'[q][u] = r)
    <3> HIDE DEF r
    <3> QED
      BY <1>1, <2>1 DEF StoreInv, Typed
  <2> HIDE DEF r
  <2> QED
    BY <1>1, <2>2, <2>3 DEF TaskStep
<1>3. CASE Becomes(x, Done(Hit(c)))
  BY <1>1, <1>2, <1>3, HitSame, FailedCounts
<1>4. CASE Becomes(x, Done(c))
  <2> DEFINE b == Done(c)
  <2>1. /\ b \in WriteCall /\ b.pc = "done" /\ b.hit = c.hit /\ b.created = c.created
        /\ b.replica = p /\ b.task = t
    BY <1>1, DoneFacts, DoneSame
  <2> HIDE DEF b
  <2>2. Stage(b) /\ Advances(c, b) /\ IndexStep(x, b)
    BY <1>1, <2>1 DEF Stage, Advances, IndexStep
  <2>3. \A q, i, j : RoundsLost(b, q, i) /\ Written(x, b, q, j)
    BY <1>1, <2>1 DEF RoundsLost, Written
  <2>4. Becomes(x, b)
    BY <1>4 DEF b
  <2>5. CallCounted(x)'
    BY <2>1, <2>2, <2>3, <2>4, CountedAfter
  <2> QED
    BY <1>1, <1>2, <2>1, <2>2, <2>4, <2>5, StepCounts
<1> QED
  BY <1>3, <1>4 DEF OverwriteTask

LEMMA RewriteTaskCounts ==
  ASSUME StoreInv, StoreInv', CountInv, FewWriters, NEW x \in Writers, RewriteTask(x)
  PROVE  CountInv'
<1> DEFINE c == call[x]
           p == c.replica
           t == c.task
           old == task[c.replica][c.task]
           r == Snapshot(x, c.ver + 1, c.made, c.turns \o OwnTurns(x))
           again == [c EXCEPT !.pc = "reread", !.tries = @ + 1]
           Grown == task' = [task EXCEPT ![c.replica][c.task] = r]
<1>1. /\ c \in WriteCall /\ p \in Replicas /\ t \in Tasks \ PutTasks /\ Stage(c)
      /\ c.pc = "rewrite" /\ ~c.created /\ UNCHANGED index
      /\ old.ver \in Nat /\ old.turns \in Seq(Writers) /\ old.ver = Len(old.turns)
      /\ c.ver \in Nat /\ c.tries \in Nat
  <2>1. /\ c \in WriteCall /\ p \in Replicas /\ t \in Tasks /\ Stage(c)
        /\ c.pc = "rewrite" /\ UNCHANGED index /\ old \in Record
    BY CountFacts, CallFacts DEF RewriteTask, At
  <2>2. ~c.created /\ t \notin PutTasks
    BY <2>1 DEF Stage
  <2>3. old.ver = Len(old.turns)
    BY <2>1, <2>2 DEF CountInv, RecordCounted
  <2> QED
    BY <2>1, <2>2, <2>3 DEF Record, Turns, WriteCall
<1>2. /\ ~c.hit => c.tries < c.ver
      /\ c.ver <= old.ver /\ (old.ver = c.ver => c.turns = old.turns)
  BY <1>1, CountFacts, CallFacts DEF RoundsLost, TaskRead
<1>3. CASE UNCHANGED task /\ Becomes(x, Done(Hit(c)))
  <2>1. TaskStep(x, Done(Hit(c))) /\ Hit(c).hit
    BY <1>1, <1>3, NothingCounted, HitSame
  <2> QED
    BY <1>1, <1>3, <2>1, FailedCounts
<1>4. CASE UNCHANGED task /\ c.hit /\ Becomes(x, Done(c))
  <2>1. TaskStep(x, Done(c))
    BY <1>1, <1>4, NothingCounted
  <2> QED
    BY <1>1, <1>4, <2>1, FailedCounts
<1>5. ASSUME old.ver = c.ver, Grown, NEW e \in {c, Hit(c)}, Becomes(x, Done(e))
      PROVE  CountInv'
  <2> DEFINE b == Done(e)
             u == Append(old.turns, x)
  <2>1. /\ b \in WriteCall /\ b.pc = "done" /\ b.created = c.created
        /\ b.replica = p /\ b.task = t /\ (c.hit => b.hit)
        /\ e = Hit(c) => b.hit
    <3>1. /\ e \in WriteCall /\ e.created = c.created /\ e.replica = p /\ e.task = t
          /\ (c.hit => e.hit) /\ (e = Hit(c) => e.hit)
      BY <1>1, HitFacts, HitSame
    <3> HIDE DEF c, p, t
    <3> QED
      BY <3>1, DoneFacts, DoneSame
  <2> HIDE DEF b
  <2>2. r.ver = old.ver + 1 /\ r.turns = u
    <3>1. OwnTurns(x) = <<x>>
      BY <1>1 DEF OwnTurns
    <3>2. c.turns \o <<x>> = u
      BY <1>1, <1>2, <1>5, AppendIsConcat
    <3> QED
      BY <1>5, <3>1, <3>2 DEF Snapshot
  <2>3. \A q \in Replicas, v \in Tasks :
          task'[q][v] = IF q = p /\ v = t THEN r ELSE task[q][v]
    <3> HIDE DEF r
    <3> QED
      BY <1>1, <1>5 DEF StoreInv, Typed
  <2> HIDE DEF r
  <2>4. IF old.ver = 0 THEN Began(b, p, t) ELSE Rewrote(b, p, t)
    <3>1. old.ver = 0 => b.hit
      BY <1>1, <1>2, <1>5, <2>1
    <3> QED
      BY <1>1, <2>1, <3>1 DEF Began, Rewrote
  <2>5. TaskStep(x, b)
    <3>1. /\ task'[p][t].ver = task[p][t].ver + 1
          /\ task'[p][t].turns = Append(task[p][t].turns, x)
      BY <1>1, <2>2, <2>3
    <3>2. \A q \in Replicas, v \in Tasks : (q = p /\ v = t) \/ task'[q][v] = task[q][v]
      BY <2>3
    <3>3. t \notin PutTasks /\ (task[p][t].ver = 0 <=> old.ver = 0)
      BY <1>1
    <3>4. task'[p][t].turns = Append(task[p][t].turns, x)
      BY <3>1
    <3> HIDE DEF p, t, c, old, u
    <3>5. \A q \in Replicas, v \in Tasks : q = p /\ v = t =>
            IF task[q][v].ver = 0 THEN Began(b, q, v) ELSE Rewrote(b, q, v)
      BY <2>4, <3>3
    <3> QED
      BY <3>1, <3>2, <3>3, <3>4, <3>5 DEF TaskStep
  <2>6. Stage(b) /\ Advances(c, b) /\ IndexStep(x, b)
    BY <1>1, <2>1 DEF Stage, Advances, IndexStep
  <2>7. RoundsLost(b, task'[p][t], index'[p][b.key])
    BY <2>1 DEF RoundsLost
  <2>8. Written(x, b, task'[p][t], index'[p])
    <3>1. CASE b.hit
      BY <1>1, <2>1, <3>1 DEF Written
    <3>2. CASE ~b.hit
      <4>1. ~c.hit
        BY <2>1, <3>2
      <4> DEFINE n == Len(old.turns) + 1
      <4>2. n \in DOMAIN u /\ u[n] = x
        <5>1. DOMAIN u = 1..n /\ u[n] = x /\ Len(old.turns) \in Nat
          <6>1. old.turns \in Seq(Writers)
            BY <1>1
          <6> HIDE DEF old
          <6> QED
            BY <6>1, AppendFacts
        <5> HIDE DEF u, old
        <5> QED
          BY <5>1
      <4>4. n # 1
        <5>1. c.tries < c.ver /\ Len(old.turns) = c.ver
          BY <1>1, <1>2, <1>5, <4>1
        <5>2. c.tries \in Nat /\ c.ver \in Nat /\ n = Len(old.turns) + 1
          BY <1>1
        <5> HIDE DEF n, c, old
        <5> QED
          BY <5>1, <5>2
      <4>3. task'[p][t].turns = u
        BY <1>1, <2>2, <2>3
      <4> HIDE DEF n, u
      <4> QED
        BY <1>1, <2>1, <4>2, <4>3, <4>4 DEF Written
    <3> QED
      BY <3>1, <3>2
  <2>9. Becomes(x, b)
    BY <1>5 DEF b
  <2>10. CallCounted(x)'
    BY <2>1, <2>6, <2>7, <2>8, <2>9, CountedAfter
  <2> QED
    BY <1>1, <2>1, <2>5, <2>6, <2>9, <2>10, StepCounts
<1>6. CASE old.ver # c.ver /\ UNCHANGED task /\ Becomes(x, again)
  <2> DEFINE b == again
  <2>1. PICK n \in Nat : n = c.tries + 1
    BY <1>1
  <2>2. b = [c EXCEPT !.pc = "reread", !.tries = n]
    BY <1>1, <2>1 DEF WriteCall
  <2> HIDE DEF again
  <2>3. /\ b \in WriteCall /\ b.pc = "reread" /\ b.replica = p /\ b.task = t
        /\ b.tries = n /\ b.created = c.created /\ b.hit = c.hit
    BY ZenonT(40), <1>1, <2>2 DEF WriteCall
  <2>4. Stage(b) /\ Advances(c, b)
    BY <1>1, <2>3 DEF Stage, Advances
  <2>5. IndexStep(x, b) /\ TaskStep(x, b)
    BY <1>1, <1>6, NothingCounted
  <2>6. RoundsLost(b, task'[p][t], index'[p][b.key])
    <3>1. ~c.hit => n < old.ver
      <4>1. /\ c.tries \in Nat /\ c.ver \in Nat /\ old.ver \in Nat
            /\ old.ver # c.ver /\ c.ver <= old.ver /\ (~c.hit => c.tries < c.ver)
        BY <1>1, <1>2, <1>6
      <4> HIDE DEF c, old
      <4> QED
        BY <2>1, <4>1
    <3> QED
      BY <1>6, <2>3, <3>1 DEF RoundsLost
  <2>7. Written(x, b, task'[p][t], index'[p])
    BY <1>1, <2>3 DEF Written
  <2>8. CallCounted(x)'
    BY <1>6, <2>3, <2>4, <2>6, <2>7, CountedAfter
  <2> QED
    BY <1>1, <1>6, <2>3, <2>4, <2>5, <2>8, StepCounts
<1>7. ~ (old.ver # c.ver /\ ~c.hit /\ ~ (c.tries + 1 < MaxRetries))
  <2>1. old.ver <= MaxRetries
    BY <1>1, RecordRounds
  <2> QED
    <3>1. /\ c.tries \in Nat /\ c.ver \in Nat /\ old.ver \in Nat
          /\ c.ver <= old.ver /\ (~c.hit => c.tries < c.ver)
      BY <1>1, <1>2
    <3> HIDE DEF c, old
    <3> QED
      BY <2>1, <3>1 DEF MaxRetries
<1>8. \/ old.ver = c.ver /\ Grown /\ (Becomes(x, Done(c)) \/ Becomes(x, Done(Hit(c))))
      \/ UNCHANGED task /\ Becomes(x, Done(Hit(c)))
      \/ UNCHANGED task /\ c.hit /\ Becomes(x, Done(c))
      \/ old.ver # c.ver /\ UNCHANGED task /\ Becomes(x, again)
  BY <1>7 DEF RewriteTask
<1> QED
  BY <1>3, <1>4, <1>5, <1>6, <1>8

----------------------------------------------------------------------------
(* All steps. *)

LEMMA CrashCounts ==
  ASSUME StoreInv, StoreInv', CountInv, NEW x \in Writers, Crash(x)
  PROVE  CountInv'
<1> DEFINE e == Hit(call[x])
           b == Done(e)
<1>1. /\ call[x] \in WriteCall /\ call[x].pc \notin {"new", "done"}
      /\ UNCHANGED <<task, index>> /\ Becomes(x, b)
  BY CountFacts DEF Crash, stored
<1>2. e.hit /\ TaskStep(x, b)
  BY <1>1, HitSame, NothingCounted
<1> HIDE DEF b
<1> QED
  BY <1>1, <1>2, FailedCounts DEF b

\* A step of another call, or of the clock.
LEMMA IdleCounts ==
  ASSUME StoreInv, CountInv, UNCHANGED <<task, index>>,
         \A y \in Writers : call'[y] = call[y]
  PROVE  CountInv'
<1>1. ASSUME NEW p \in Replicas, NEW k \in Keys  PROVE IndexCounted(p, k)'
  BY DEF CountInv, IndexCounted
<1>2. ASSUME NEW p \in Replicas, NEW t \in Tasks \ PutTasks  PROVE RecordCounted(p, t)'
  <2> DEFINE s == task[p][t].turns
  <2>1. RecordCounted(p, t)
    BY DEF CountInv
  <2>2. s \in Seq(Writers)
    BY DEF StoreInv, Typed, Record, Turns
  <2>3. \A n \in DOMAIN s : s[n] \in Writers
    BY <2>2, ElementOfSeq, LenProperties
  <2>4. task[p][t].ver # 0 => 1 \in DOMAIN s
    <3>1. task[p][t].ver = Len(s)
      BY <2>1 DEF RecordCounted
    <3> QED
      BY <2>2, <3>1, LenProperties
  <2> QED
    BY <2>1, <2>3, <2>4 DEF RecordCounted
<1>3. ASSUME NEW x \in Writers  PROVE CallCounted(x)'
  BY DEF CountInv, CallCounted
<1>4. OneCreator'
  BY DEF CountInv, OneCreator
<1> QED
  BY <1>1, <1>2, <1>3, <1>4 DEF CountInv

LEMMA InitCountInv == Init => CountInv
<1> SUFFICES ASSUME Init PROVE CountInv
  OBVIOUS
<1> DEFINE e == <<>>
<1>1. Len(e) = 0 /\ DOMAIN e = {} /\ IsInjective(e)
  BY DEF IsInjective
<1> HIDE DEF e
<1>2. ASSUME NEW p \in Replicas, NEW k \in Keys  PROVE IndexCounted(p, k)
  <2>1. index[p][k].ver = 0 /\ index[p][k].ids = e
    BY DEF Init, NoIndex, e
  <2> QED
    BY <1>1, <2>1 DEF IndexCounted
<1>3. ASSUME NEW p \in Replicas, NEW t \in Tasks \ PutTasks  PROVE RecordCounted(p, t)
  <2>1. task[p][t].ver = 0 /\ task[p][t].turns = e
    BY DEF Init, NoTask, e
  <2> QED
    BY <1>1, <2>1 DEF RecordCounted
<1>4. ASSUME NEW x \in Writers
      PROVE  /\ call[x].pc = "new" /\ ~call[x].created /\ call[x].tries = 0
             /\ CallCounted(x)
  <2>1. call[x].pc = "new" /\ ~call[x].created /\ call[x].tries = 0
    BY DEF Init, Fresh, Calls
  <2> QED
    BY <2>1 DEF CallCounted, Stage, RoundsLost, Written
<1> QED
  BY <1>2, <1>3, <1>4 DEF CountInv, OneCreator

LEMMA NextCountInv == FewWriters /\ StoreInv /\ CountInv /\ [Next]_vars => CountInv'
<1> SUFFICES ASSUME FewWriters, StoreInv, CountInv, [Next]_vars PROVE CountInv'
  OBVIOUS
<1>1. StoreInv'
  BY NextStoreInv
<1>2. ASSUME NEW x \in Writers, Write(x)  PROVE CountInv'
  BY <1>1, <1>2, BeginWriteCounts, CreateTaskCounts, ReadIndexCounts, WriteIndexCounts,
     RereadTaskCounts, RewriteTaskCounts, OverwriteTaskCounts DEF Write
<1>3. ASSUME NEW x \in Calls \ Writers, UNCHANGED <<task, index>>, \E c : Becomes(x, c)
      PROVE  CountInv'
  <2>1. \A y \in Writers : call'[y] = call[y]
    BY <1>3 DEF Becomes, StoreInv, Calls
  <2> QED
    BY <1>3, <2>1, IdleCounts
<1>4. \A x \in Readers \union Starting : x \in Calls \ Writers
  BY TaskStoreAssumption DEF Calls
<1>5. ASSUME NEW x \in Readers \union Starting,
             Read(x) \/ ReadRegistry(x) \/ WriteRegistry(x)
      PROVE  CountInv'
  BY <1>3, <1>4, <1>5, OtherSteps
<1>6. ASSUME NEW x \in Calls, Crash(x)  PROVE CountInv'
  <2>1. CASE x \in Writers
    BY <1>1, <1>6, <2>1, CrashCounts
  <2>2. CASE x \notin Writers
    BY <1>3, <1>6, <2>2 DEF Crash, stored
  <2> QED
    BY <2>1, <2>2
<1>7. CASE Tick \/ UNCHANGED vars
  BY <1>7, IdleCounts DEF Tick, stored, vars
<1> QED
  BY <1>2, <1>5, <1>6, <1>7 DEF Next

----------------------------------------------------------------------------
(* What a write that has returned has left behind. *)

LEMMA OneOccurrence ==
  ASSUME NEW s, NEW e, NEW n \in DOMAIN s, \A m \in DOMAIN s : s[m] = e <=> m = n
  PROVE  Occurrences(s, e) = 1
<1>1. {m \in DOMAIN s : s[m] = e} = {n}
  OBVIOUS
<1> QED
  BY <1>1, FS_Singleton DEF Occurrences

LEMMA CountedTurns == StoreInv /\ CountInv => TurnsKept
<1> SUFFICES ASSUME StoreInv, CountInv, NEW x \in Writers, At(x, "done"), ~call[x].hit,
                    call[x].task \notin PutTasks
             PROVE  Occurrences(task[call[x].replica][call[x].task].turns, x) = 1
  BY DEF TurnsKept
<1> DEFINE c == call[x]
           r == task[c.replica][c.task]
<1>1. /\ c.replica \in Replicas /\ c.task \in Tasks \ PutTasks
      /\ Written(x, c, r, index[c.replica]) /\ r.turns \in Seq(Writers)
  BY CountFacts, CallFacts DEF Record, Turns
<1>2. RecordCounted(c.replica, c.task)
  BY <1>1 DEF CountInv
<1> HIDE DEF c, r
<1>3. CASE c.created
  <2>1. r.ver # 0 /\ r.turns[1] = x
    BY <1>1, <1>3 DEF Written
  <2>2. 1 \in DOMAIN r.turns
    <3>1. r.ver = Len(r.turns)
      BY <1>2 DEF RecordCounted, r
    <3> QED
      BY <1>1, <2>1, <3>1, LenProperties
  <2>3. \A m \in DOMAIN r.turns \ {1} : r.turns[m] # x
    BY <1>2, <1>3 DEF RecordCounted, Rewrote, c, r
  <2>4. \A m \in DOMAIN r.turns : r.turns[m] = x <=> m = 1
    BY <2>1, <2>3
  <2> QED
    BY <2>2, <2>4, OneOccurrence DEF c, r
<1>4. CASE ~c.created
  <2>1. c.pc = "done" /\ ~c.hit
    BY DEF c, At
  <2>2. PICK n \in DOMAIN r.turns \ {1} : r.turns[n] = x
    BY <1>1, <1>4, <2>1 DEF Written
  <2>3. \A m \in DOMAIN r.turns \ {1} : r.turns[m] = x => m = n
    BY <1>2, <2>2 DEF RecordCounted, r
  <2>4. r.turns[1] # x
    <3>1. r.ver # 0
      <4>1. r.ver = Len(r.turns)
        BY <1>2 DEF RecordCounted, r
      <4> QED
        BY <1>1, <2>2, <4>1, LenProperties
    <3>2. Began(call[r.turns[1]], c.replica, c.task)
      BY <1>2, <3>1 DEF RecordCounted, r
    <3> QED
      BY <1>4, <2>1, <3>2 DEF Began, c
  <2>5. \A m \in DOMAIN r.turns : r.turns[m] = x <=> m = n
    BY <2>2, <2>3, <2>4
  <2> QED
    BY <2>2, <2>5, OneOccurrence DEF c, r
<1> QED
  BY <1>3, <1>4

LEMMA CountedTasks == StoreInv /\ CountInv => CreatedIsListed
<1> SUFFICES ASSUME StoreInv, CountInv, NEW x \in Writers, At(x, "done"), call[x].created,
                    ~call[x].hit, NEW k \in KeysOf(call[x].task)
             PROVE  Occurrences(index[call[x].replica][k].ids, call[x].task) = 1
  BY DEF CreatedIsListed, KeysOf
<1> DEFINE c == call[x]
           s == index[c.replica][k].ids
<1>1. c.replica \in Replicas /\ c.task \in Tasks /\ k \in Keys
  BY CountFacts, TaskStoreAssumption DEF KeysOf, Keys
<1>2. IsInjective(s)
  BY <1>1 DEF CountInv, IndexCounted
<1>3. c.task \in ToSet(s)
  BY CountFacts DEF Written, Past, At
<1> HIDE DEF s
<1>4. PICK n \in DOMAIN s : s[n] = c.task
  BY <1>3 DEF ToSet
<1>5. \A m \in DOMAIN s : s[m] = c.task <=> m = n
  BY <1>2, <1>4 DEF IsInjective
<1> QED
  BY <1>5, OneOccurrence DEF s

\* A persist that has returned has its turn in the history, once: as long as no more
\* than MaxRetries calls write, of any number of tasks, none is dropped when a round of
\* compare-and-set is lost, and none is repeated when it is retried.
THEOREM TurnsAreKept == ASSUME FewWriters  PROVE Spec => []TurnsKept
<1>1. Init => StoreInv /\ CountInv
  BY InitStoreInv, InitCountInv
<1>2. StoreInv /\ CountInv /\ [Next]_vars => StoreInv' /\ CountInv'
  BY NextStoreInv, NextCountInv
<1> QED
  BY <1>1, <1>2, CountedTurns, PTL DEF Spec

\* A task whose creation has returned is in the indexes of its context and of its
\* user, once: no append to an index is lost to another, or made twice.
THEOREM CreationsAreListed == ASSUME FewWriters  PROVE Spec => []CreatedIsListed
<1>1. Init => StoreInv /\ CountInv
  BY InitStoreInv, InitCountInv
<1>2. StoreInv /\ CountInv /\ [Next]_vars => StoreInv' /\ CountInv'
  BY NextStoreInv, NextCountInv
<1> QED
  BY <1>1, <1>2, CountedTasks, PTL DEF Spec
=============================================================================
