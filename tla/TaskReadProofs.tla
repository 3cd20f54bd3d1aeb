---------------------------- MODULE TaskReadProofs ----------------------------
(***************************************************************************)
(* Theorems about the types of TaskStore and about its reads: a list and a *)
(* load miss nothing that was there when they began.                       *)
(*                                                                         *)
(* The second follows a task, and a turn, through a read: at each step it  *)
(* is on the list that is still to be searched, in an index or a slice of  *)
(* a replica that is still to be asked, or has been found.  Writes keep    *)
(* this because indexes, records and the list of replicas only grow.       *)
(***************************************************************************)
EXTENDS TaskStoreProofs

----------------------------------------------------------------------------
(* What holds of a call that reads, and of a replica that starts. *)

ReadCall ==
  [pc : {"new", "replicas", "index", "fanOut", "slice", "writeRegistry", "done"},
   replica : Replicas, task : Tasks, key : Keys \union {NoUser},
   now : Nat, ver : Nat, ids : Ids, turns : Turns, made : Nat,
   tries : {0},
   left : Paths, todo : Ids, newest : SUBSET Nat,
   found : SUBSET [task : Tasks, turns : SUBSET Writers],
   created : BOOLEAN, hit : BOOLEAN, due : SUBSET Tasks,
   owed : SUBSET (Tasks \X Writers)]

ReadOK(c) ==
  /\ c \in ReadCall
  /\ c.pc \in {"replicas", "index"} => c.key \in Keys
  /\ c.pc \in {"index", "slice"} => c.left # <<>>
  /\ c.pc \in {"fanOut", "slice"} => c.todo # <<>>

TypeInv ==
  /\ StoreInv
  /\ registry \in Paths
  /\ \A x \in Writers : call[x].tries < MaxRetries
  /\ \A x \in Calls \ Writers : ReadOK(call[x])

----------------------------------------------------------------------------
(* A read that misses nothing. *)

\* What the list of replicas may do while calls read it: one replica may add itself
\* to a list that has an entry.
SteadyRegistry ==
  Starting = {} \/ (Registered # <<>> /\ \A p, q \in Starting : p = q)

RegistryGrows ==
  /\ registry = Registered \/ \E p \in Starting : registry = Append(Registered, p)
  /\ \A p \in Starting : At(p, "writeRegistry") => call[p].left = Append(Registered, p)

\* A slice has turns only if it was written, and not by put.
PlainSlices ==
  \A p \in Replicas, t \in Tasks :
    task[p][t].ver = 0 \/ t \in PutTasks => task[p][t].turns = <<>>

FoundTask(c, t) == \E f \in c.found : f.task = t
FoundTurn(c, o) == \E f \in c.found : f.task = o[1] /\ o[2] \in f.turns

\* A task that is due is on a replica that will be asked.
Kept(c) == \A t \in c.due : \E p \in ToSet(Listing(c.replica)) : task[p][t].ver # 0

Unstarted(c) ==
  c.pc \in {"new", "replicas"} => c.due = {} /\ c.owed = {} /\ c.turns = <<>> /\ c.newest = {}

Searching(c) ==
  c.pc = "index" =>
    /\ c.owed = {} /\ c.turns = <<>> /\ c.newest = {}
    /\ \A t \in c.due : \/ t \in ToSet(c.todo)
                        \/ \E p \in ToSet(c.left) : t \in ToSet(index[p][c.key].ids)

Between(c) ==
  c.pc = "fanOut" =>
    /\ c.turns = <<>> /\ c.newest = {}
    /\ \A t \in c.due : t \in ToSet(c.todo) \/ FoundTask(c, t)
    /\ \A o \in c.owed : FoundTurn(c, o)

Loading(c) ==
  c.pc = "slice" =>
    LET h == Head(c.todo) IN
    /\ c.turns # <<>> => c.newest # {}
    /\ \A t \in c.due : t \in ToSet(c.todo) \/ FoundTask(c, t)
    /\ h \in c.due => c.newest # {} \/ \E p \in ToSet(c.left) : task[p][h].ver # 0
    /\ \A o \in c.owed :
         \/ FoundTurn(c, o)
         \/ /\ o[1] = h
            /\ \/ o[2] \in ToSet(c.turns)
               \/ \E p \in ToSet(c.left) : o[2] \in ToSet(task[p][h].turns)

Answered(c) ==
  c.pc = "done" =>
    /\ \A t \in c.due : FoundTask(c, t)
    /\ \A o \in c.owed : FoundTurn(c, o)

MissesNothing(c) ==
  ~c.hit => Kept(c) /\ Unstarted(c) /\ Searching(c) /\ Between(c) /\ Loading(c) /\ Answered(c)

ReadInv ==
  /\ RegistryGrows /\ PlainSlices
  /\ \A x \in Readers : MissesNothing(call[x])

----------------------------------------------------------------------------
(* Sequences and the sets of their elements. *)

LEMMA ToSetFacts ==
  ASSUME NEW S, NEW s \in Seq(S)
  PROVE  ToSet(s) \subseteq S /\ IsFiniteSet(ToSet(s)) /\ (s = <<>> <=> ToSet(s) = {})
<1> DEFINE n == Len(s)
<1>1. n \in Nat /\ s \in [1..n -> S] /\ DOMAIN s = 1..n
  BY LenProperties
<1>2. ToSet(s) = {s[i] : i \in 1..n}
  BY <1>1 DEF ToSet
<1>3. IsFiniteSet(1..n)
  BY <1>1, FS_Interval
<1> HIDE DEF n
<1>4. s \in Surjection(1..n, ToSet(s))
  BY <1>1, <1>2 DEF Surjection
<1>5. IsFiniteSet(ToSet(s))
  BY <1>3, <1>4, FS_Surjection
<1>6. s = <<>> => ToSet(s) = {}
  BY DEF ToSet
<1>7. ASSUME s # <<>>  PROVE ToSet(s) # {}
  <2>1. n \in Nat \ {0}
    BY <1>7, EmptySeq DEF n
  <2>2. 1 \in 1..n
    BY <2>1
  <2> QED
    BY <1>2, <2>2
<1> QED
  BY <1>1, <1>2, <1>5, <1>6, <1>7

LEMMA HeadTailToSet ==
  ASSUME NEW S, NEW s \in Seq(S), s # <<>>
  PROVE  /\ Head(s) \in S /\ Tail(s) \in Seq(S)
         /\ ToSet(s) = {Head(s)} \union ToSet(Tail(s))
<1>1. /\ Head(s) \in S /\ Tail(s) \in Seq(S) /\ Len(Tail(s)) = Len(s) - 1
      /\ \A i \in 1..Len(Tail(s)) : Tail(s)[i] = s[i + 1]
  BY HeadTailProperties
<1>2. Len(s) \in Nat \ {0} /\ DOMAIN s = 1..Len(s) /\ DOMAIN Tail(s) = 1..(Len(s) - 1)
  BY <1>1, LenProperties, EmptySeq
<1>3. Head(s) = s[1]
  OBVIOUS
<1>4. \A i \in 1..Len(s) : i = 1 \/ (i - 1 \in 1..(Len(s) - 1) /\ Tail(s)[i - 1] = s[i])
  BY <1>1, <1>2
<1>5. \A i \in 1..(Len(s) - 1) : i + 1 \in 1..Len(s) /\ Tail(s)[i] = s[i + 1]
  BY <1>1, <1>2
<1>6. 1 \in 1..Len(s)
  BY <1>2
<1>7. ToSet(s) \subseteq {Head(s)} \union ToSet(Tail(s))
  BY <1>2, <1>3, <1>4 DEF ToSet
<1>8. {Head(s)} \union ToSet(Tail(s)) \subseteq ToSet(s)
  BY <1>2, <1>3, <1>5, <1>6 DEF ToSet
<1> QED
  BY <1>1, <1>7, <1>8

LEMMA ConcatToSet ==
  ASSUME NEW S, NEW s \in Seq(S), NEW u \in Seq(S)
  PROVE  s \o u \in Seq(S) /\ ToSet(s \o u) = ToSet(s) \union ToSet(u)
<1> DEFINE m == Len(s)
           n == Len(u)
           v == s \o u
<1>1. /\ v \in Seq(S) /\ Len(v) = m + n
      /\ \A i \in 1..(m + n) : v[i] = IF i <= m THEN s[i] ELSE u[i - m]
  BY ConcatProperties
<1>2. /\ m \in Nat /\ n \in Nat
      /\ DOMAIN s = 1..m /\ DOMAIN u = 1..n /\ DOMAIN v = 1..(m + n)
  BY <1>1, LenProperties
<1> HIDE DEF m, n, v
<1>3. \A i \in 1..(m + n) :
        (i \in 1..m /\ v[i] = s[i]) \/ (i - m \in 1..n /\ v[i] = u[i - m])
  BY <1>1, <1>2
<1>4. \A i \in 1..m : i \in 1..(m + n) /\ v[i] = s[i]
  BY <1>1, <1>2
<1>5. \A i \in 1..n : i + m \in 1..(m + n) /\ v[i + m] = u[i]
  BY <1>1, <1>2
<1>6. ToSet(v) \subseteq ToSet(s) \union ToSet(u)
  BY <1>2, <1>3 DEF ToSet
<1>7. ToSet(s) \union ToSet(u) \subseteq ToSet(v)
  BY <1>2, <1>4, <1>5 DEF ToSet
<1> QED
  BY <1>1, <1>6, <1>7 DEF v

\* Some order of a set has its elements.
LEMMA SetToSeqFacts ==
  ASSUME NEW S, NEW T, IsFiniteSet(S), S \subseteq T
  PROVE  SetToSeq(S) \in Seq(T) /\ ToSet(SetToSeq(S)) = S
<1> DEFINE n == Cardinality(S)
           f == SetToSeq(S)
<1>1. n \in Nat /\ ExistsBijection(1..n, S)
  BY FS_CardinalityType
<1>2. \E g \in [1..n -> S] : IsInjective(g)
  BY <1>1 DEF ExistsBijection, Bijection, Injection
<1>3. f \in [1..n -> S] /\ IsInjective(f)
  BY <1>2 DEF SetToSeq
<1> HIDE DEF f
<1>4. f \in Seq(S) /\ f \in Seq(T)
  BY <1>1, <1>3, SeqDef
<1>5. f \in Injection(1..n, S)
  BY <1>3 DEF Injection
<1>6. IsFiniteSet(1..n) /\ Cardinality(1..n) = n
  BY <1>1, FS_Interval
<1>7. f \in Surjection(1..n, S)
  BY <1>5, <1>6, FS_Injection
<1>8. ToSet(f) = S
  BY <1>3, <1>7 DEF ToSet, Surjection
<1> QED
  BY <1>4, <1>8 DEF f

----------------------------------------------------------------------------
(* The types of a call that reads. *)

LEMMA ReadHitFacts ==
  ASSUME NEW c \in ReadCall
  PROVE  /\ Hit(c) \in ReadCall /\ Hit(c).hit
         /\ Hit(c).pc = c.pc /\ Hit(c).key = c.key /\ Hit(c).left = c.left
         /\ Hit(c).todo = c.todo
  BY DEF Hit, ReadCall

LEMMA ReadDoneFacts ==
  ASSUME NEW c \in ReadCall
  PROVE  /\ Done(c) \in ReadCall /\ Done(c).pc = "done" /\ Done(c).hit = c.hit
         /\ Done(c).replica = c.replica /\ Done(c).found = c.found
         /\ Done(c).due = c.due /\ Done(c).owed = c.owed
<1> DEFINE e == <<>>
<1>1. e \in Ids /\ e \in Turns /\ e \in Paths
  BY DEF Ids, Turns, Paths
<1> HIDE DEF e
<1> DEFINE b == [c EXCEPT !.pc = "done", !.ver = 0, !.ids = e, !.turns = e, !.made = 0,
                          !.tries = 0, !.left = e, !.todo = e, !.newest = {}]
<1>2. /\ b \in ReadCall /\ b.pc = "done" /\ b.hit = c.hit
      /\ b.replica = c.replica /\ b.found = c.found /\ b.due = c.due /\ b.owed = c.owed
  BY ZenonT(40), <1>1 DEF ReadCall
<1>3. Done(c) = b
  BY DEF Done, e
<1> QED
  BY <1>2, <1>3

LEMMA DoneOK ==
  ASSUME NEW c \in ReadCall
  PROVE  ReadOK(Done(c)) /\ ReadOK(Done(Hit(c)))
  BY ReadHitFacts, ReadDoneFacts DEF ReadOK

LEMMA HitOK ==
  ASSUME NEW c, ReadOK(c)
  PROVE  ReadOK(Hit(c))
  BY ReadHitFacts DEF ReadOK

LEMMA StoredFacts ==
  ASSUME StoreInv, NEW p \in Replicas
  PROVE  /\ \A t \in Tasks : task[p][t] \in Record /\ ToSet(task[p][t].turns) \subseteq Writers
         /\ \A k \in Keys : index[p][k] \in Index /\ ToSet(index[p][k].ids) \subseteq Tasks
<1>1. /\ \A t \in Tasks : task[p][t] \in Record /\ task[p][t].turns \in Seq(Writers)
      /\ \A k \in Keys : index[p][k] \in Index /\ index[p][k].ids \in Seq(Tasks)
  BY DEF StoreInv, Typed, Record, Turns, Index, Ids
<1> QED
  BY <1>1, ToSetFacts

LEMMA TellFacts ==
  ASSUME StoreInv, NEW c \in ReadCall, NEW ps \in Paths, ps # <<>>,
         NEW pc \in {"index", "slice"},
         pc = "index" => c.key \in Keys, pc = "slice" => c.todo # <<>>,
         NEW b, b = Tell(c, ps, pc)
  PROVE  /\ ReadOK(b) /\ b.pc = pc /\ b.left = ps /\ b.hit = c.hit
         /\ b.replica = c.replica /\ b.key = c.key /\ b.todo = c.todo
         /\ b.turns = c.turns /\ b.newest = c.newest /\ b.found = c.found
         /\ b.due = c.due \union
              (IF pc = "index" THEN UNION {ToSet(index[p][c.key].ids) : p \in ToSet(ps)} ELSE {})
         /\ b.owed = c.owed \union
              (IF pc = "slice"
                 THEN {Head(c.todo)} \X UNION {ToSet(task[p][Head(c.todo)].turns) : p \in ToSet(ps)}
                 ELSE {})
<1> DEFINE D == IF pc = "index" THEN UNION {ToSet(index[p][c.key].ids) : p \in ToSet(ps)} ELSE {}
           O == IF pc = "slice"
                  THEN {Head(c.todo)} \X UNION {ToSet(task[p][Head(c.todo)].turns) : p \in ToSet(ps)}
                  ELSE {}
<1>1. ToSet(ps) \subseteq Replicas
  BY ToSetFacts DEF Paths
<1>2. D \in SUBSET Tasks
  BY <1>1, StoredFacts
<1>3. O \in SUBSET (Tasks \X Writers)
  <2>1. CASE pc = "slice"
    <3>1. Head(c.todo) \in Tasks
      <4>1. c.todo \in Seq(Tasks)
        BY DEF ReadCall, Ids
      <4> QED
        BY <2>1, <4>1, HeadTailToSet
    <3> QED
      BY <1>1, <3>1, StoredFacts
  <2> QED
    BY <2>1
<1>4. b = [c EXCEPT !.pc = pc, !.left = ps, !.due = @ \union D, !.owed = @ \union O]
  BY DEF Tell
<1> HIDE DEF D, O
<1>5. PICK due \in SUBSET Tasks, owed \in SUBSET (Tasks \X Writers) :
        due = c.due \union D /\ owed = c.owed \union O
  BY <1>2, <1>3 DEF ReadCall
<1>6. b = [c EXCEPT !.pc = pc, !.left = ps, !.due = due, !.owed = owed]
  BY <1>4, <1>5 DEF ReadCall
<1>7. /\ b \in ReadCall /\ b.pc = pc /\ b.left = ps /\ b.hit = c.hit
      /\ b.replica = c.replica /\ b.key = c.key /\ b.todo = c.todo
      /\ b.turns = c.turns /\ b.newest = c.newest /\ b.found = c.found
      /\ b.due = due /\ b.owed = owed
  BY ZenonT(60), <1>6 DEF ReadCall
<1>8. ReadOK(b)
  BY <1>7 DEF ReadOK
<1> QED
  BY <1>5, <1>7, <1>8 DEF D, O

\* What a call that reads indexes is after the next one.
AfterIndex(c, ids) ==
  LET all  == c.todo \o SetToSeq(ToSet(ids) \ ToSet(c.todo))
      left == Tail(c.left)
  IN  IF left # <<>>     THEN [c EXCEPT !.todo = all, !.left = left]
      ELSE IF all = <<>> THEN Done(c)
      ELSE [c EXCEPT !.todo = all, !.left = left, !.pc = "fanOut"]

LEMMA AfterIndexFacts ==
  ASSUME NEW c, ReadOK(c), c.pc = "index", NEW ids \in Ids, NEW b, b = AfterIndex(c, ids)
  PROVE  /\ ReadOK(b) /\ b.hit = c.hit /\ b.replica = c.replica
         /\ b.due = c.due /\ b.owed = c.owed
         /\ \/ /\ b.pc = "index" /\ b.key = c.key /\ b.turns = c.turns /\ b.newest = c.newest
               /\ b.left = Tail(c.left)
               /\ ToSet(b.todo) = ToSet(c.todo) \union ToSet(ids)
            \/ /\ b.pc = "fanOut" /\ b.turns = c.turns /\ b.newest = c.newest
               /\ Tail(c.left) = <<>>
               /\ ToSet(b.todo) = ToSet(c.todo) \union ToSet(ids)
            \/ /\ b.pc = "done" /\ Tail(c.left) = <<>>
               /\ ToSet(c.todo) \union ToSet(ids) = {}
<1> DEFINE all  == c.todo \o SetToSeq(ToSet(ids) \ ToSet(c.todo))
           left == Tail(c.left)
<1>1. /\ c \in ReadCall /\ c.todo \in Seq(Tasks) /\ ids \in Seq(Tasks)
      /\ c.left \in Seq(Replicas) /\ c.left # <<>> /\ c.key \in Keys
  BY DEF ReadOK, ReadCall, Ids, Paths
<1>2. left \in Paths
  BY <1>1, HeadTailToSet DEF Paths
<1>3. all \in Ids /\ ToSet(all) = ToSet(c.todo) \union ToSet(ids) /\ (all = <<>> <=> ToSet(all) = {})
  <2> DEFINE S == ToSet(ids) \ ToSet(c.todo)
  <2>1. IsFiniteSet(S) /\ S \subseteq Tasks
    <3>1. IsFiniteSet(ToSet(ids)) /\ ToSet(ids) \subseteq Tasks
      BY <1>1, ToSetFacts
    <3> QED
      BY <3>1, FS_Subset
  <2> DEFINE u == SetToSeq(S)
  <2>2. u \in Seq(Tasks) /\ ToSet(u) = S
    BY <2>1, SetToSeqFacts
  <2>3. all = c.todo \o u
    OBVIOUS
  <2> HIDE DEF all, u, S
  <2>4. all \in Seq(Tasks) /\ ToSet(all) = ToSet(c.todo) \union S
    BY <1>1, <2>2, <2>3, ConcatToSet
  <2>5. ToSet(c.todo) \union S = ToSet(c.todo) \union ToSet(ids)
    BY DEF S
  <2> QED
    BY <2>4, <2>5, ToSetFacts DEF Ids
<1>4. b = IF left # <<>> THEN [c EXCEPT !.todo = all, !.left = left]
          ELSE IF all = <<>> THEN Done(c)
          ELSE [c EXCEPT !.todo = all, !.left = left, !.pc = "fanOut"]
  BY DEF AfterIndex
<1> HIDE DEF all, left
<1>5. CASE left # <<>>
  <2>0. b = [c EXCEPT !.todo = all, !.left = left]
    BY <1>4, <1>5
  <2>5. all \in Ids /\ c \in ReadCall
    BY <1>1, <1>3
  <2>4. b \in ReadCall
    BY ZenonT(60), <1>2, <2>0, <2>5 DEF ReadCall
  <2>1. /\ b \in ReadCall /\ b.hit = c.hit /\ b.replica = c.replica /\ b.due = c.due
        /\ b.owed = c.owed /\ b.pc = "index" /\ b.key = c.key /\ b.turns = c.turns
        /\ b.newest = c.newest /\ b.left = left /\ b.todo = all
    BY <1>1, <2>0, <2>4 DEF ReadCall
  <2>2. ReadOK(b)
    BY <1>1, <1>5, <2>1 DEF ReadOK
  <2> QED
    BY <1>3, <2>1, <2>2 DEF left
<1>6. CASE left = <<>> /\ all # <<>>
  <2>1. b = [c EXCEPT !.todo = all, !.left = left, !.pc = "fanOut"]
    BY <1>4, <1>6
  <2>2. /\ b \in ReadCall /\ b.hit = c.hit /\ b.replica = c.replica /\ b.due = c.due
        /\ b.owed = c.owed /\ b.pc = "fanOut" /\ b.turns = c.turns
        /\ b.newest = c.newest /\ b.todo = all
    <3>1. b \in ReadCall
      BY ZenonT(60), <1>1, <1>2, <1>3, <2>1 DEF ReadCall
    <3> QED
      BY <1>1, <2>1, <3>1 DEF ReadCall
  <2>3. ReadOK(b)
    BY <1>6, <2>2 DEF ReadOK
  <2> QED
    BY <1>3, <1>6, <2>2, <2>3 DEF left
<1>7. CASE left = <<>> /\ all = <<>>
  <2>1. b = Done(c)
    BY <1>4, <1>7
  <2> QED
    BY <1>1, <1>3, <1>7, <2>1, ReadDoneFacts, DoneOK DEF left
<1> QED
  BY <1>5, <1>6, <1>7

\* What a call that loads a task has, and is, after the next slice.
NewestOf(c, r) ==
  IF r.ver # 0 /\ \A b \in c.newest : r.updated > b THEN {r.updated} ELSE c.newest

FoundOf(c, r) ==
  IF NewestOf(c, r) = {} THEN c.found
  ELSE c.found \union {[task |-> Head(c.todo), turns |-> ToSet(c.turns \o r.turns)]}

AfterSlice(c, r) ==
  IF Tail(c.left) # <<>>
    THEN [c EXCEPT !.newest = NewestOf(c, r), !.turns = c.turns \o r.turns,
                   !.left = Tail(c.left)]
  ELSE IF Tail(c.todo) # <<>>
    THEN [c EXCEPT !.pc = "fanOut", !.todo = Tail(c.todo), !.left = <<>>,
                   !.newest = {}, !.turns = <<>>, !.found = FoundOf(c, r)]
  ELSE Done([c EXCEPT !.found = FoundOf(c, r)])

OtherReplicas(c) == Tail(c.left)
OtherTasks(c)    == Tail(c.todo)
AllTurns(c, r)   == c.turns \o r.turns

LEMMA AfterSliceFacts ==
  ASSUME NEW c, ReadOK(c), c.pc = "slice", NEW r \in Record, NEW b, b = AfterSlice(c, r)
  PROVE  /\ ReadOK(b) /\ b.hit = c.hit /\ b.replica = c.replica
         /\ b.due = c.due /\ b.owed = c.owed
         /\ \/ /\ b.pc = "slice" /\ b.todo = c.todo /\ b.left = OtherReplicas(c)
               /\ b.newest = NewestOf(c, r) /\ b.turns = AllTurns(c, r)
               /\ b.found = c.found
            \/ /\ b.pc = "fanOut" /\ b.todo = OtherTasks(c) /\ OtherReplicas(c) = <<>>
               /\ b.newest = {} /\ b.turns = <<>> /\ b.found = FoundOf(c, r)
            \/ /\ b.pc = "done" /\ OtherReplicas(c) = <<>> /\ OtherTasks(c) = <<>>
               /\ b.found = FoundOf(c, r)
<1> DEFINE e    == <<>>
           left == OtherReplicas(c)
           todo == OtherTasks(c)
           new  == NewestOf(c, r)
           all  == AllTurns(c, r)
           have == FoundOf(c, r)
<1>1. /\ c \in ReadCall /\ c.todo \in Seq(Tasks) /\ c.todo # <<>>
      /\ c.left \in Seq(Replicas) /\ c.left # <<>>
      /\ c.turns \in Seq(Writers) /\ r.turns \in Seq(Writers)
  BY DEF ReadOK, ReadCall, Ids, Paths, Turns, Record
<1>2. left \in Paths /\ todo \in Ids /\ Head(c.todo) \in Tasks
  BY <1>1, HeadTailToSet DEF Paths, Ids, OtherReplicas, OtherTasks
<1>3. new \in SUBSET Nat
  BY <1>1 DEF NewestOf, ReadCall, Record
<1>4. all \in Turns /\ ToSet(all) \in SUBSET Writers
  <2>1. all \in Seq(Writers)
    BY <1>1, ConcatToSet DEF AllTurns
  <2> QED
    BY <2>1, ToSetFacts DEF Turns
<1>5. have \in SUBSET [task : Tasks, turns : SUBSET Writers]
  BY <1>1, <1>2, <1>4 DEF FoundOf, AllTurns, ReadCall
<1>6. e \in Paths /\ e \in Turns
  BY DEF Paths, Turns
<1>7. b = IF left # <<>> THEN [c EXCEPT !.newest = new, !.turns = all, !.left = left]
          ELSE IF todo # <<>>
            THEN [c EXCEPT !.pc = "fanOut", !.todo = todo, !.left = e,
                           !.newest = {}, !.turns = e, !.found = have]
          ELSE Done([c EXCEPT !.found = have])
  BY DEF AfterSlice, OtherReplicas, OtherTasks, AllTurns
<1> HIDE DEF e, left, todo, new, all, have
<1>8. CASE left # <<>>
  <2>0. b = [c EXCEPT !.newest = new, !.turns = all, !.left = left]
    BY <1>7, <1>8
  <2>4. b \in ReadCall
    BY ZenonT(60), <1>1, <1>2, <1>3, <1>4, <2>0 DEF ReadCall
  <2>1. /\ b \in ReadCall /\ b.hit = c.hit /\ b.replica = c.replica /\ b.due = c.due
        /\ b.owed = c.owed /\ b.pc = "slice" /\ b.todo = c.todo /\ b.left = left
        /\ b.newest = new /\ b.turns = all /\ b.found = c.found
    BY <1>1, <2>0, <2>4 DEF ReadCall
  <2>2. ReadOK(b)
    BY <1>1, <1>8, <2>1 DEF ReadOK
  <2> QED
    BY <2>1, <2>2 DEF left, new, all
<1>9. CASE left = <<>> /\ todo # <<>>
  <2>1. b = [c EXCEPT !.pc = "fanOut", !.todo = todo, !.left = e,
                      !.newest = {}, !.turns = e, !.found = have]
    BY <1>7, <1>9
  <2>2. /\ b \in ReadCall /\ b.hit = c.hit /\ b.replica = c.replica /\ b.due = c.due
        /\ b.owed = c.owed /\ b.pc = "fanOut" /\ b.todo = todo
        /\ b.newest = {} /\ b.turns = e /\ b.found = have
    <3>1. b \in ReadCall
      BY ZenonT(60), <1>1, <1>2, <1>5, <1>6, <2>1 DEF ReadCall
    <3> QED
      BY <1>1, <2>1, <3>1 DEF ReadCall
  <2>3. ReadOK(b)
    BY <1>9, <2>2 DEF ReadOK
  <2> QED
    BY <1>9, <2>2, <2>3 DEF left, todo, have, e
<1>10. CASE left = <<>> /\ todo = <<>>
  <2> DEFINE d == [c EXCEPT !.found = have]
  <2>1. b = Done(d)
    BY <1>7, <1>10
  <2>2. /\ d \in ReadCall /\ d.hit = c.hit /\ d.replica = c.replica /\ d.due = c.due
        /\ d.owed = c.owed /\ d.found = have
    BY ZenonT(60), <1>1, <1>5 DEF ReadCall
  <2> HIDE DEF d
  <2> QED
    BY <1>10, <2>1, <2>2, ReadDoneFacts, DoneOK DEF left, todo, have
<1> QED
  BY <1>8, <1>9, <1>10

----------------------------------------------------------------------------
(* The steps of a call that reads. *)

\* A read goes on: it keeps its type, and misses nothing it has not missed before.
GoesOn(x) ==
  \E b : Becomes(x, b) /\ ReadOK(b) /\ (MissesNothing(call[x]) => MissesNothing(b))

LEMMA HitGoesOn ==
  ASSUME NEW x, NEW b, ReadOK(b), Becomes(x, Hit(b))
  PROVE  GoesOn(x)
<1>1. ReadOK(Hit(b)) /\ Hit(b).hit
  BY HitOK, ReadHitFacts DEF ReadOK
<1>2. MissesNothing(Hit(b))
  BY <1>1 DEF MissesNothing
<1> QED
  BY <1>1, <1>2 DEF GoesOn

LEMMA BeginGoesOn ==
  ASSUME TypeInv, NEW x \in Calls \ Writers,
         \/ \E p \in Replicas, k \in Keys : BeginList(x, p, k)
         \/ \E p \in Replicas, t \in Tasks : BeginLoad(x, p, t)
  PROVE  GoesOn(x)
<1> DEFINE c == call[x]
<1>1. c \in ReadCall
  BY DEF TypeInv, ReadOK
<1>2. ASSUME NEW p \in Replicas, NEW k \in Keys, BeginList(x, p, k)  PROVE GoesOn(x)
  <2> DEFINE b == [c EXCEPT !.pc = "replicas", !.replica = p, !.key = k]
  <2>1. c.pc = "new" /\ Becomes(x, b)
    BY <1>2 DEF BeginList, At
  <2>2. /\ b \in ReadCall /\ b.pc = "replicas" /\ b.key \in Keys /\ b.hit = c.hit
        /\ b.due = c.due /\ b.owed = c.owed /\ b.turns = c.turns /\ b.newest = c.newest
    BY <1>1 DEF ReadCall
  <2> HIDE DEF b
  <2>3. ReadOK(b)
    BY <2>2 DEF ReadOK
  <2>4. MissesNothing(c) => MissesNothing(b)
    BY <2>1, <2>2 DEF MissesNothing, Kept, Unstarted, Searching, Between, Loading, Answered
  <2> QED
    BY <2>1, <2>3, <2>4 DEF GoesOn
<1>3. ASSUME NEW p \in Replicas, NEW t \in Tasks, BeginLoad(x, p, t)  PROVE GoesOn(x)
  <2> DEFINE todo == <<t>>
             b == [c EXCEPT !.pc = "fanOut", !.replica = p, !.todo = todo]
  <2>1. c.pc = "new" /\ Becomes(x, b)
    BY <1>3 DEF BeginLoad, At
  <2>2. todo \in Ids /\ todo # <<>>
    BY DEF Ids
  <2> HIDE DEF todo
  <2>3. /\ b \in ReadCall /\ b.pc = "fanOut" /\ b.todo = todo /\ b.hit = c.hit
        /\ b.due = c.due /\ b.owed = c.owed /\ b.turns = c.turns /\ b.newest = c.newest
    BY <1>1, <2>2 DEF ReadCall
  <2> HIDE DEF b
  <2>4. ReadOK(b)
    BY <2>2, <2>3 DEF ReadOK
  <2>5. MissesNothing(c) => MissesNothing(b)
    BY <2>1, <2>3 DEF MissesNothing, Kept, Unstarted, Searching, Between, Loading, Answered
  <2> QED
    BY <2>1, <2>4, <2>5 DEF GoesOn
<1> QED
  BY <1>2, <1>3

LEMMA ListingFacts ==
  ASSUME TypeInv, NEW p \in Replicas
  PROVE  Listing(p) \in Paths /\ Listing(p) # <<>>
  BY DEF TypeInv, Paths, Listing

LEMMA ListReplicasGoesOn ==
  ASSUME TypeInv, NEW x \in Calls \ Writers, ListReplicas(x)
  PROVE  GoesOn(x)
<1> DEFINE c  == call[x]
           pc == IF At(x, "replicas") THEN "index" ELSE "slice"
           ps == Listing(c.replica)
           own == <<c.replica>>
<1>1. /\ ReadOK(c) /\ c \in ReadCall /\ c.replica \in Replicas /\ StoreInv /\ ListedExists
      /\ ps \in Paths /\ ps # <<>> /\ own \in Paths /\ own # <<>>
  <2>1. /\ ReadOK(c) /\ c \in ReadCall /\ c.replica \in Replicas
        /\ StoreInv /\ ListedExists
    BY DEF TypeInv, ReadOK, ReadCall, StoreInv
  <2>2. ps \in Paths /\ ps # <<>>
    BY <2>1, ListingFacts
  <2>3. own \in Paths /\ own # <<>>
    BY <2>1 DEF Paths
  <2> QED
    BY <2>1, <2>2, <2>3
<1>2. /\ pc \in {"index", "slice"} /\ c.pc \in {"replicas", "fanOut"}
      /\ (pc = "index" <=> c.pc = "replicas")
      /\ (pc = "index" => c.key \in Keys) /\ (pc = "slice" => c.todo # <<>>)
  BY <1>1 DEF ListReplicas, At, ReadOK
<1>3. Becomes(x, Tell(c, ps, pc)) \/ Becomes(x, Hit(Tell(c, own, pc)))
  BY DEF ListReplicas
<1> HIDE DEF pc, own, ps, c
<1>4. CASE Becomes(x, Hit(Tell(c, own, pc)))
  <2>1. ReadOK(Tell(c, own, pc))
    BY <1>1, <1>2, TellFacts
  <2> QED
    BY <1>4, <2>1, HitGoesOn
<1>5. CASE Becomes(x, Tell(c, ps, pc))
  <2> DEFINE b == Tell(c, ps, pc)
             D == UNION {ToSet(index[p][c.key].ids) : p \in ToSet(ps)}
             h == Head(c.todo)
             O == {h} \X UNION {ToSet(task[p][h].turns) : p \in ToSet(ps)}
  <2>1. /\ ReadOK(b) /\ b.pc = pc /\ b.left = ps /\ b.hit = c.hit
        /\ b.replica = c.replica /\ b.key = c.key /\ b.todo = c.todo
        /\ b.turns = c.turns /\ b.newest = c.newest /\ b.found = c.found
        /\ b.due = c.due \union (IF pc = "index" THEN D ELSE {})
        /\ b.owed = c.owed \union (IF pc = "slice" THEN O ELSE {})
    BY <1>1, <1>2, TellFacts
  <2> HIDE DEF b, h
  <2>2. ToSet(ps) \subseteq Replicas
    BY <1>1, ToSetFacts DEF Paths
  <2>3. ASSUME MissesNothing(c), ~c.hit  PROVE MissesNothing(b)
    <3>1. CASE pc = "index"
      <4>1. c.due = {} /\ c.owed = {} /\ c.turns = <<>> /\ c.newest = {}
        BY <1>2, <2>3, <3>1 DEF MissesNothing, Unstarted
      <4>2. b.due = D /\ b.owed = {} /\ b.pc = "index"
        BY <2>1, <3>1, <4>1
      <4>3. Kept(b)
        <5>1. \A t \in D : \E p \in ToSet(ps) : task[p][t].ver # 0
          BY <1>1, <1>2, <2>2, <3>1 DEF ListedExists
        <5> QED
          BY <2>1, <4>2, <5>1 DEF Kept, ps
      <4>4. Searching(b)
        BY <2>1, <4>1, <4>2 DEF Searching
      <4> QED
        BY <4>2, <4>3, <4>4 DEF MissesNothing, Unstarted, Between, Loading, Answered
    <3>2. CASE pc = "slice"
      <4>1. /\ c.turns = <<>> /\ Kept(c)
            /\ \A t \in c.due : t \in ToSet(c.todo) \/ FoundTask(c, t)
            /\ \A o \in c.owed : FoundTurn(c, o)
        BY <1>2, <2>3, <3>2 DEF MissesNothing, Between
      <4>2. b.due = c.due /\ b.owed = c.owed \union O /\ b.pc = "slice" /\ Head(b.todo) = h
        BY <2>1, <3>2 DEF h
      <4>3. Kept(b)
        BY <2>1, <4>1, <4>2 DEF Kept
      <4>4. Loading(b)
        <5>1. \A t \in b.due : t \in ToSet(b.todo) \/ FoundTask(b, t)
          BY <2>1, <4>1, <4>2 DEF FoundTask
        <5>2. h \in b.due => \E p \in ToSet(b.left) : task[p][h].ver # 0
          BY <2>1, <4>1, <4>2 DEF Kept, ps
        <5>3. \A o \in c.owed : FoundTurn(b, o)
          BY <2>1, <4>1 DEF FoundTurn
        <5>4. \A o \in O : o[1] = h /\ \E p \in ToSet(b.left) : o[2] \in ToSet(task[p][h].turns)
          BY <2>1
        <5> HIDE DEF O
        <5> QED
          BY <2>1, <4>1, <4>2, <5>1, <5>2, <5>3, <5>4 DEF Loading
      <4> QED
        BY <4>2, <4>3, <4>4 DEF MissesNothing, Unstarted, Searching, Between, Answered
    <3> QED
      BY <1>2, <3>1, <3>2
  <2>4. c.hit => MissesNothing(b)
    BY <2>1 DEF MissesNothing
  <2> QED
    BY <1>5, <2>1, <2>3, <2>4 DEF GoesOn, b, c
<1> QED
  BY <1>3, <1>4, <1>5

LEMMA ReadNextIndexGoesOn ==
  ASSUME TypeInv, NEW x \in Calls \ Writers, ReadNextIndex(x)
  PROVE  GoesOn(x)
<1> DEFINE c == call[x]
           p == Head(c.left)
           ids == index[p][c.key].ids
           e == <<>>
<1>1. ReadOK(c) /\ c \in ReadCall /\ c.pc = "index" /\ c.key \in Keys /\ e \in Ids
  BY DEF TypeInv, ReadOK, ReadNextIndex, At, Ids
<1>2. /\ p \in Replicas /\ ToSet(c.left) = {p} \union ToSet(Tail(c.left))
      /\ (Tail(c.left) = <<>> => ToSet(Tail(c.left)) = {})
  <2>1. c.left \in Seq(Replicas) /\ c.left # <<>>
    BY <1>1 DEF ReadOK, ReadCall, Paths
  <2>2. ToSet(<<>>) = {}
    BY DEF ToSet
  <2> QED
    BY <2>1, <2>2, HeadTailToSet
<1>3. ids \in Ids
  BY <1>1, <1>2, StoredFacts DEF TypeInv, Index
<1>4. Becomes(x, AfterIndex(c, ids)) \/ Becomes(x, Hit(AfterIndex(c, e)))
  BY DEF ReadNextIndex, AfterIndex
<1> HIDE DEF c, p, ids, e
<1>5. CASE Becomes(x, Hit(AfterIndex(c, e)))
  <2>1. ReadOK(AfterIndex(c, e))
    BY <1>1, AfterIndexFacts
  <2> QED
    BY <1>5, <2>1, HitGoesOn
<1>6. CASE Becomes(x, AfterIndex(c, ids))
  <2> DEFINE b == AfterIndex(c, ids)
             R == /\ ReadOK(b) /\ b.hit = c.hit /\ b.replica = c.replica
                  /\ b.due = c.due /\ b.owed = c.owed
  <2>1. \/ /\ R
           /\ b.pc = "index" /\ b.key = c.key /\ b.turns = c.turns /\ b.newest = c.newest
           /\ b.left = Tail(c.left)
           /\ ToSet(b.todo) = ToSet(c.todo) \union ToSet(ids)
        \/ /\ R
           /\ b.pc = "fanOut" /\ b.turns = c.turns /\ b.newest = c.newest
           /\ Tail(c.left) = <<>>
           /\ ToSet(b.todo) = ToSet(c.todo) \union ToSet(ids)
        \/ /\ R
           /\ b.pc = "done" /\ Tail(c.left) = <<>>
           /\ ToSet(c.todo) \union ToSet(ids) = {}
    BY <1>1, <1>3, AfterIndexFacts
  <2> HIDE DEF b
  <2>2. ASSUME MissesNothing(c), ~c.hit  PROVE MissesNothing(b)
    <3>1. /\ c.owed = {} /\ c.turns = <<>> /\ c.newest = {} /\ Kept(c)
          /\ \A t \in c.due : \/ t \in ToSet(c.todo)
                              \/ \E q \in ToSet(c.left) : t \in ToSet(index[q][c.key].ids)
      BY <1>1, <2>2 DEF MissesNothing, Searching
    <3>2. \A t \in c.due : \/ t \in ToSet(c.todo) \union ToSet(ids)
                           \/ \E q \in ToSet(Tail(c.left)) : t \in ToSet(index[q][c.key].ids)
      BY <1>2, <3>1 DEF ids
    <3>3. Kept(b)
      BY <2>1, <3>1 DEF Kept
    <3>4. Searching(b) /\ Between(b) /\ Answered(b)
      <4>1. CASE b.pc = "index"
        BY <2>1, <3>1, <3>2, <4>1 DEF Searching, Between, Answered
      <4>2. CASE b.pc = "fanOut"
        BY <1>2, <2>1, <3>1, <3>2, <4>2 DEF Searching, Between, Answered
      <4>3. CASE b.pc = "done"
        BY <1>2, <2>1, <3>1, <3>2, <4>3 DEF Searching, Between, Answered
      <4> QED
        BY <2>1, <4>1, <4>2, <4>3
    <3> QED
      BY <2>1, <3>3, <3>4 DEF MissesNothing, Unstarted, Loading
  <2>3. c.hit => MissesNothing(b)
    BY <2>1 DEF MissesNothing
  <2> QED
    BY <1>6, <2>1, <2>2, <2>3 DEF GoesOn, b, c
<1> QED
  BY <1>4, <1>5, <1>6

\* A slice that was written makes its snapshot, or a newer one, the newest.
LEMMA NewestFacts ==
  ASSUME NEW c, NEW r
  PROVE  r.ver # 0 \/ c.newest # {} => NewestOf(c, r) # {}
  BY DEF NewestOf

\* The next slice hides no task that is due, and no turn that is owed.
LEMMA SliceMissesNothing ==
  ASSUME NEW c, ReadOK(c), c.pc = "slice", MissesNothing(c),
         NEW r \in Record, r = task[Head(c.left)][Head(c.todo)], r.ver = 0 => r.turns = <<>>,
         NEW b, b = AfterSlice(c, r)
  PROVE  MissesNothing(b)
<1> DEFINE p == Head(c.left)
           left == OtherReplicas(c)
           todo == OtherTasks(c)
           h == Head(c.todo)
           all == AllTurns(c, r)
           new == NewestOf(c, r)
           have == FoundOf(c, r)
<1>1. c \in ReadCall /\ c.pc = "slice"
  BY DEF ReadOK
<1>2. /\ p \in Replicas /\ ToSet(c.left) = {p} \union ToSet(left)
      /\ h \in Tasks /\ ToSet(c.todo) = {h} \union ToSet(todo)
      /\ (left = <<>> => ToSet(left) = {})
      /\ (todo = <<>> => ToSet(todo) = {})
  <2>1. /\ c.left \in Seq(Replicas) /\ c.left # <<>>
        /\ c.todo \in Seq(Tasks) /\ c.todo # <<>>
    BY <1>1 DEF ReadOK, ReadCall, Paths, Ids
  <2>2. ToSet(<<>>) = {}
    BY DEF ToSet
  <2> QED
    BY <2>1, <2>2, HeadTailToSet DEF OtherReplicas, OtherTasks
<1>4. r.ver = 0 => r.turns = <<>>
  OBVIOUS
<1>6. /\ ToSet(all) = ToSet(c.turns) \union ToSet(r.turns)
      /\ (all # <<>> => c.turns # <<>> \/ r.turns # <<>>)
      /\ (all = <<>> => ToSet(all) = {})
  <2>1. c.turns \in Seq(Writers) /\ r.turns \in Seq(Writers)
    BY <1>1 DEF ReadCall, Record, Turns
  <2>2. <<>> \o <<>> = <<>> /\ ToSet(<<>>) = {}
    BY DEF ToSet
  <2> QED
    BY <2>1, <2>2, ConcatToSet DEF AllTurns
<1>7. /\ ReadOK(b) /\ b.hit = c.hit /\ b.replica = c.replica
      /\ b.due = c.due /\ b.owed = c.owed
      /\ \/ /\ b.pc = "slice" /\ b.todo = c.todo /\ b.left = left
            /\ b.newest = new /\ b.turns = all
            /\ b.found = c.found
         \/ /\ b.pc = "fanOut" /\ b.todo = todo /\ left = <<>>
            /\ b.newest = {} /\ b.turns = <<>> /\ b.found = have
         \/ /\ b.pc = "done" /\ left = <<>> /\ todo = <<>>
            /\ b.found = have
  <2>1. /\ ReadOK(c) /\ c.pc = "slice" /\ r \in Record /\ b = AfterSlice(c, r)
        /\ left = OtherReplicas(c) /\ todo = OtherTasks(c)
        /\ all = AllTurns(c, r) /\ new = NewestOf(c, r) /\ have = FoundOf(c, r)
    OBVIOUS
  <2> HIDE DEF p, h, left, todo, all, new, have
  <2> QED
    BY ONLY <2>1, AfterSliceFacts
<1>8. r.ver # 0 \/ c.newest # {} => new # {}
  BY NewestFacts
<1>9. have = IF new = {} THEN c.found
             ELSE c.found \union {[task |-> h, turns |-> ToSet(all)]}
  BY DEF FoundOf, AllTurns
<1>11. r = task[p][h]
  OBVIOUS
<1> HIDE DEF p, h, left, todo, all, new, have
<1>12. CASE c.hit
  BY <1>7, <1>12 DEF MissesNothing
<1>10. CASE ~c.hit
  <2>1. /\ Kept(c) /\ (c.turns # <<>> => c.newest # {})
        /\ \A t \in c.due : t \in ToSet(c.todo) \/ FoundTask(c, t)
        /\ h \in c.due => c.newest # {} \/ \E q \in ToSet(c.left) : task[q][h].ver # 0
        /\ \A o \in c.owed :
             \/ FoundTurn(c, o)
             \/ /\ o[1] = h
                /\ \/ o[2] \in ToSet(c.turns)
                   \/ \E q \in ToSet(c.left) : o[2] \in ToSet(task[q][h].turns)
    BY <1>1, <1>10 DEF MissesNothing, Loading, h
  <2>2. all # <<>> => new # {}
    BY <1>4, <1>6, <1>8, <2>1
  <2>3. h \in c.due => new # {} \/ \E q \in ToSet(left) : task[q][h].ver # 0
    BY <1>2, <1>8, <1>11, <2>1
  <2>4. \A o \in c.owed :
          \/ FoundTurn(c, o)
          \/ /\ o[1] = h
             /\ \/ o[2] \in ToSet(all)
                \/ \E q \in ToSet(left) : o[2] \in ToSet(task[q][h].turns)
    BY <1>2, <1>6, <1>11, <2>1
  <2>5. Kept(b)
    BY <1>7, <2>1 DEF Kept
  <2>6. CASE b.pc = "slice"
    <3>1. b.found = c.found /\ b.due = c.due /\ b.owed = c.owed /\ Head(b.todo) = h
      BY <1>7, <2>6 DEF h
    <3>2. /\ \A t \in b.due : t \in ToSet(b.todo) \/ FoundTask(b, t)
          /\ \A o \in c.owed : FoundTurn(c, o) <=> FoundTurn(b, o)
      BY <1>7, <2>1, <2>6, <3>1 DEF FoundTask, FoundTurn
    <3>3. Loading(b)
      BY <1>7, <2>2, <2>3, <2>4, <2>6, <3>1, <3>2 DEF Loading
    <3> QED
      BY <2>5, <2>6, <3>3 DEF MissesNothing, Unstarted, Searching, Between, Answered
  <2>7. CASE b.pc # "slice"
    <3>1. /\ left = <<>> /\ b.found = have /\ b.due = c.due /\ b.owed = c.owed
          /\ ToSet(left) = {} /\ c.found \subseteq have
      BY <1>2, <1>7, <1>9, <2>7
    <3>2. new # {} => [task |-> h, turns |-> ToSet(all)] \in b.found
      BY <1>9, <3>1
    <3>3. \A t \in c.due : t \in ToSet(todo) \/ FoundTask(b, t)
      <4>1. h \in c.due => FoundTask(b, h)
        BY <2>3, <3>1, <3>2 DEF FoundTask
      <4>2. \A t \in c.due : FoundTask(c, t) => FoundTask(b, t)
        BY <3>1 DEF FoundTask
      <4> QED
        BY <1>2, <2>1, <4>1, <4>2
    <3>4. \A o \in c.owed : FoundTurn(b, o)
      <4>1. ASSUME NEW o \in c.owed, FoundTurn(c, o)  PROVE FoundTurn(b, o)
        BY <3>1, <4>1 DEF FoundTurn
      <4>2. ASSUME NEW o \in c.owed, o[1] = h, o[2] \in ToSet(all)  PROVE FoundTurn(b, o)
        BY <1>6, <2>2, <3>2, <4>2 DEF FoundTurn
      <4> QED
        BY <2>4, <3>1, <4>1, <4>2
    <3>5. Between(b)
      BY <1>7, <3>1, <3>3, <3>4 DEF Between
    <3>6. Answered(b)
      BY <1>2, <1>7, <3>1, <3>3, <3>4 DEF Answered
    <3>7. b.pc \in {"fanOut", "done"}
      BY <1>7, <2>7
    <3> QED
      BY <2>5, <3>5, <3>6, <3>7 DEF MissesNothing, Unstarted, Searching, Loading
  <2> QED
    BY <2>6, <2>7
<1> QED
  BY <1>10, <1>12

LEMMA ReadNextSliceGoesOn ==
  ASSUME TypeInv, PlainSlices, NEW x \in Calls \ Writers, ReadNextSlice(x)
  PROVE  GoesOn(x)
<1> DEFINE c == call[x]
           r == task[Head(c.left)][Head(c.todo)]
<1>1. ReadOK(c) /\ c.pc = "slice"
  BY DEF TypeInv, ReadNextSlice, At
<1>2. Head(c.left) \in Replicas /\ Head(c.todo) \in Tasks
  <2>1. /\ c.left \in Seq(Replicas) /\ c.left # <<>>
        /\ c.todo \in Seq(Tasks) /\ c.todo # <<>>
    BY <1>1 DEF ReadOK, ReadCall, Paths, Ids
  <2> HIDE DEF c
  <2> QED
    BY <2>1, HeadTailToSet
<1>3. r \in Record /\ (r.ver = 0 => r.turns = <<>>) /\ NoTask \in Record
  <2>1. NoTask \in Record
    BY DEF NoTask, Record, Turns
  <2> QED
    BY <1>2, <2>1, StoredFacts DEF TypeInv, PlainSlices
<1>4. Becomes(x, AfterSlice(c, r)) \/ Becomes(x, Hit(AfterSlice(c, NoTask)))
  BY DEF ReadNextSlice, AfterSlice, NewestOf, FoundOf
<1>5. CASE Becomes(x, Hit(AfterSlice(c, NoTask)))
  <2>1. ReadOK(AfterSlice(c, NoTask))
    BY <1>1, <1>3, AfterSliceFacts
  <2> QED
    BY <1>5, <2>1, HitGoesOn
<1>6. CASE Becomes(x, AfterSlice(c, r))
  <2> DEFINE b == AfterSlice(c, r)
  <2>1. ReadOK(b)
    BY <1>1, <1>3, AfterSliceFacts
  <2>2. MissesNothing(c) => MissesNothing(b)
    BY <1>1, <1>3, SliceMissesNothing
  <2> QED
    BY <1>6, <2>1, <2>2 DEF GoesOn
<1> QED
  BY <1>4, <1>5, <1>6

LEMMA ReadGoesOn ==
  ASSUME TypeInv, PlainSlices, NEW x \in Calls \ Writers, Read(x)
  PROVE  GoesOn(x) /\ UNCHANGED stored
<1>1. UNCHANGED stored
  BY DEF Read, BeginList, BeginLoad, ListReplicas, ReadNextIndex, ReadNextSlice
<1>2. GoesOn(x)
  BY BeginGoesOn, ListReplicasGoesOn, ReadNextIndexGoesOn, ReadNextSliceGoesOn DEF Read
<1> QED
  BY <1>1, <1>2

----------------------------------------------------------------------------
(* What the steps of the others do to what a call reads. *)

\* The storage after a step still has what it had: tasks, turns and index entries.
SlicesGrow ==
  \A p \in Replicas, t \in Tasks :
    /\ task[p][t].ver # 0 => task'[p][t].ver # 0
    /\ ToSet(task[p][t].turns) \subseteq ToSet(task'[p][t].turns)

IndexesGrow ==
  \A p \in Replicas, k \in Keys : ToSet(index[p][k].ids) \subseteq ToSet(index'[p][k].ids)

ListingsGrow ==
  \A p \in Replicas : ToSet(Listing(p)) \subseteq ToSet(Listing(p)')

LEMMA MissesNothingKept ==
  ASSUME TypeInv, SlicesGrow, IndexesGrow, ListingsGrow, NEW x \in Calls \ Writers,
         call'[x] = call[x], MissesNothing(call[x])
  PROVE  MissesNothing(call[x])'
<1> DEFINE c == call[x]
<1> SUFFICES ASSUME ~c.hit
             PROVE  /\ Kept(call[x])' /\ Unstarted(call[x])' /\ Searching(call[x])'
                    /\ Between(call[x])' /\ Loading(call[x])' /\ Answered(call[x])'
  BY DEF MissesNothing
<1>1. ReadOK(c) /\ c \in ReadCall /\ c.replica \in Replicas /\ c.due \subseteq Tasks
  BY DEF TypeInv, ReadOK, ReadCall
<1>2. ToSet(Listing(c.replica)) \subseteq Replicas /\ ToSet(c.left) \subseteq Replicas
  <2>1. Listing(c.replica) \in Seq(Replicas) /\ c.left \in Seq(Replicas)
    BY <1>1, ListingFacts DEF Paths, ReadCall
  <2> HIDE DEF c
  <2> QED
    BY <2>1, ToSetFacts
<1>3. Unstarted(call[x])' /\ Between(call[x])' /\ Answered(call[x])'
  BY DEF MissesNothing, Unstarted, Between, Answered, FoundTask, FoundTurn
<1>4. Kept(call[x])'
  BY <1>1, <1>2 DEF MissesNothing, Kept, SlicesGrow, ListingsGrow
<1>5. Searching(call[x])'
  <2>1. c.pc = "index" => c.key \in Keys
    BY <1>1 DEF ReadOK
  <2> QED
    BY <1>1, <1>2, <2>1 DEF MissesNothing, Searching, IndexesGrow
<1>6. Loading(call[x])'
  <2>1. c.pc = "slice" => Head(c.todo) \in Tasks
    <3>1. c.pc = "slice" => c.todo \in Seq(Tasks) /\ c.todo # <<>>
      BY <1>1 DEF ReadOK, ReadCall, Ids
    <3> HIDE DEF c
    <3> QED
      BY <3>1, HeadTailToSet
  <2>2. CASE c.pc = "slice"
    <3>1. /\ c.turns # <<>> => c.newest # {}
          /\ \A t \in c.due : t \in ToSet(c.todo) \/ FoundTask(c, t)
      BY <2>2 DEF MissesNothing, Loading
    <3>2. Head(c.todo) \in c.due =>
            c.newest # {} \/ \E p \in ToSet(c.left) : task'[p][Head(c.todo)].ver # 0
      BY <1>2, <2>1, <2>2 DEF MissesNothing, Loading, SlicesGrow
    <3>3. \A o \in c.owed :
            \/ FoundTurn(c, o)
            \/ /\ o[1] = Head(c.todo)
               /\ \/ o[2] \in ToSet(c.turns)
                  \/ \E p \in ToSet(c.left) : o[2] \in ToSet(task'[p][Head(c.todo)].turns)
      BY <1>2, <2>1, <2>2 DEF MissesNothing, Loading, SlicesGrow
    <3> QED
      BY <3>1, <3>2, <3>3 DEF Loading, FoundTask, FoundTurn
  <2> QED
    BY <2>2 DEF Loading
<1> QED
  BY <1>3, <1>4, <1>5, <1>6

\* The step of the call itself.
LEMMA MissesNothingStill ==
  ASSUME NEW x \in Calls \ Writers, NEW b, call'[x] = b, UNCHANGED stored, MissesNothing(b)
  PROVE  MissesNothing(call[x])'
  BY DEF MissesNothing, Kept, Unstarted, Searching, Between, Loading, Answered, FoundTask,
         FoundTurn, stored, Listing

----------------------------------------------------------------------------
(* The steps of a call that writes. *)

\* It never has more rounds behind it than it may lose.
LEMMA TriesBounded ==
  ASSUME StoreInv, NEW x \in Writers, call[x].tries < MaxRetries, Write(x)
  PROVE  UNCHANGED registry /\ \E b : Becomes(x, b) /\ b.tries < MaxRetries
<1>0. UNCHANGED registry
  BY DEF Write, BeginWrite, CreateTask, ReadIndex, WriteIndex, RereadTask, RewriteTask,
         OverwriteTask, stored
<1> SUFFICES \E b : Becomes(x, b) /\ b.tries < 3
  BY <1>0 DEF MaxRetries
<1> DEFINE c == call[x]
<1>1. c \in WriteCall /\ c.tries \in Nat /\ c.tries < 3
  BY CallFacts DEF WriteCall, MaxRetries
<1>2. \A d : d \in WriteCall => Done(d).tries = 0 /\ Hit(d) \in WriteCall /\ Hit(d).tries = d.tries
  BY DEF Done, Hit, WriteCall
<1>3. \A d : d \in WriteCall => NextKey(d).tries = 0
  BY <1>2 DEF NextKey, WriteCall
<1>4. ASSUME NEW p \in Replicas, NEW t \in Tasks, BeginWrite(x, p, t)
      PROVE  \E b : Becomes(x, b) /\ b.tries < 3
  <2> DEFINE b == [c EXCEPT !.pc = "create", !.replica = p, !.task = t,
                            !.now = IF t \in PutTasks THEN 0 ELSE clock]
  <2>1. Becomes(x, b)
    BY <1>4 DEF BeginWrite
  <2>2. b.tries = c.tries
    BY <1>1 DEF WriteCall
  <2> QED
    BY <1>1, <2>1, <2>2
<1>5. CASE CreateTask(x)
  <2> DEFINE next    == [c EXCEPT !.pc = "readIndex", !.key = ContextOf[c.task],
                                  !.created = TRUE]
             refused == [c EXCEPT !.pc = IF c.task \in PutTasks THEN "overwrite" ELSE "reread"]
  <2>1. Becomes(x, next) \/ Becomes(x, refused) \/ Becomes(x, Hit(refused))
    BY <1>5 DEF CreateTask
  <2>2. next.tries = c.tries /\ refused.tries = c.tries /\ refused \in WriteCall
    BY <1>1 DEF WriteCall
  <2> HIDE DEF next, refused
  <2> QED
    BY <1>1, <1>2, <2>1, <2>2
<1>6. CASE ReadIndex(x)
  <2> DEFINE i == index[c.replica][c.key]
             next == [c EXCEPT !.pc = "writeIndex", !.ver = i.ver, !.ids = i.ids]
  <2>1. Becomes(x, next) \/ Becomes(x, NextKey(Hit(c)))
    BY <1>6 DEF ReadIndex
  <2>2. next.tries = c.tries
    BY <1>1 DEF WriteCall
  <2> HIDE DEF next
  <2> QED
    BY <1>1, <1>2, <1>3, <2>1, <2>2
<1>7. CASE WriteIndex(x)
  <2> DEFINE again == [c EXCEPT !.pc = "readIndex", !.tries = @ + 1]
  <2>1. \/ Becomes(x, NextKey(c)) \/ Becomes(x, NextKey(Hit(c)))
        \/ Becomes(x, again) /\ c.tries + 1 < 3
    BY <1>7 DEF WriteIndex, MaxRetries
  <2>2. again.tries = c.tries + 1
    BY <1>1 DEF WriteCall
  <2> HIDE DEF again
  <2> QED
    BY <1>1, <1>2, <1>3, <2>1, <2>2
<1>8. CASE RereadTask(x)
  <2> DEFINE old == task[c.replica][c.task]
             next == [c EXCEPT !.pc = "rewrite", !.ver = old.ver, !.turns = old.turns,
                               !.made = IF old.ver = 0 THEN c.now ELSE old.created]
  <2>1. Becomes(x, next) \/ Becomes(x, Done(Hit(c)))
    BY <1>8 DEF RereadTask
  <2>2. next.tries = c.tries
    BY <1>1 DEF WriteCall
  <2> HIDE DEF next
  <2> QED
    BY <1>1, <1>2, <2>1, <2>2
<1>9. CASE RewriteTask(x) \/ OverwriteTask(x)
  <2> DEFINE again == [c EXCEPT !.pc = "reread", !.tries = @ + 1]
  <2>1. \/ Becomes(x, Done(c)) \/ Becomes(x, Done(Hit(c)))
        \/ Becomes(x, again) /\ c.tries + 1 < 3
    BY <1>9 DEF RewriteTask, OverwriteTask, MaxRetries
  <2>2. again.tries = c.tries + 1
    BY <1>1 DEF WriteCall
  <2> HIDE DEF again
  <2> QED
    BY <1>1, <1>2, <2>1, <2>2
<1> QED
  BY <1>4, <1>5, <1>6, <1>7, <1>8, <1>9 DEF Write

\* One slice is written: with a version, and with the turns it had.
LEMMA SliceWritten ==
  ASSUME StoreInv, PlainSlices, NEW p \in Replicas, NEW t \in Tasks, NEW r \in Record,
         task' = [task EXCEPT ![p][t] = r], r.ver # 0,
         t \in PutTasks => r.turns = <<>>,
         \/ t \in PutTasks
         \/ task[p][t].ver = 0
         \/ \E u \in Turns : r.turns = task[p][t].turns \o u
  PROVE  SlicesGrow /\ PlainSlices'
<1>1. \A q \in Replicas, v \in Tasks : task'[q][v] = IF q = p /\ v = t THEN r ELSE task[q][v]
  BY DEF StoreInv, Typed
<1>2. PlainSlices'
  BY <1>1 DEF PlainSlices
<1>3. ToSet(task[p][t].turns) \subseteq ToSet(r.turns)
  <2> DEFINE s == task[p][t].turns
  <2>1. s \in Seq(Writers)
    BY DEF StoreInv, Typed, Record, Turns
  <2>2. CASE s = <<>>
    BY <2>2 DEF ToSet
  <2>3. CASE s # <<>>
    <3>1. PICK u \in Seq(Writers) : r.turns = s \o u
      BY <2>3 DEF PlainSlices, Turns
    <3> HIDE DEF s
    <3>2. ToSet(s \o u) = ToSet(s) \union ToSet(u)
      BY <2>1, ConcatToSet
    <3>3. ToSet(r.turns) = ToSet(s) \union ToSet(u)
      BY Zenon, <3>1, <3>2
    <3> QED
      BY <3>3 DEF s
  <2> QED
    BY <2>2, <2>3
<1> QED
  BY <1>1, <1>2, <1>3 DEF SlicesGrow

LEMMA WriteSlices ==
  ASSUME StoreInv, PlainSlices, NEW x \in Writers, Write(x)
  PROVE  SlicesGrow /\ PlainSlices'
<1> DEFINE c == call[x]
           p == c.replica
           t == c.task
           own == OwnTurns(x)
<1>1. /\ p \in Replicas /\ t \in Tasks /\ own \in Turns /\ c \in WriteCall
      /\ task[p][t] \in Record /\ TaskRead(c, task)
      /\ (t \in PutTasks => own = <<>>)
  BY CallFacts DEF OwnTurns
<1>2. c.now \in Nat /\ c.ver \in Nat /\ c.made \in Nat /\ c.turns \in Turns
      /\ task[p][t].ver \in Nat
  BY <1>1 DEF WriteCall, Record
<1>3. CASE UNCHANGED task
  BY <1>3 DEF SlicesGrow, PlainSlices
<1> DEFINE Wrote(r) == task' = [task EXCEPT ![p][t] = r]
<1>4. CASE CreateTask(x)
  <2> DEFINE r == Snapshot(x, 1, c.now, own)
  <2>1. r \in Record /\ r.ver # 0 /\ r.turns = own
    BY <1>1, <1>2, SnapshotFacts DEF Snapshot
  <2>2. UNCHANGED task \/ (task[p][t].ver = 0 /\ Wrote(r))
    BY <1>4 DEF CreateTask
  <2> HIDE DEF r, own, p, t, c
  <2> QED
    BY <1>1, <1>3, <2>1, <2>2, SliceWritten
<1>5. CASE RewriteTask(x)
  <2> DEFINE r == Snapshot(x, c.ver + 1, c.made, c.turns \o own)
  <2>1. t \notin PutTasks /\ (task[p][t].ver = c.ver => c.turns = task[p][t].turns)
    BY <1>1, <1>5 DEF RewriteTask, At, TaskRead
  <2>2. r \in Record /\ r.ver # 0 /\ r.turns = c.turns \o own
    <3>1. c.turns \o own \in Turns /\ c.ver + 1 \in Nat /\ c.ver + 1 # 0
      BY <1>1, <1>2 DEF Turns
    <3> QED
      BY <1>2, <3>1, SnapshotFacts DEF Snapshot
  <2>3. UNCHANGED task \/ (task[p][t].ver = c.ver /\ Wrote(r))
    BY <1>5 DEF RewriteTask
  <2>4. task[p][t].ver = c.ver => \E u \in Turns : r.turns = task[p][t].turns \o u
    BY <1>1, <2>1, <2>2
  <2> HIDE DEF r, own, p, t, c
  <2> QED
    BY <1>1, <1>3, <2>1, <2>2, <2>3, <2>4, SliceWritten
<1>6. CASE OverwriteTask(x)
  <2> DEFINE r == Snapshot(x, task[p][t].ver + 1, c.now, own)
  <2>1. t \in PutTasks
    BY <1>1, <1>6 DEF OverwriteTask, At, TaskRead
  <2>2. r \in Record /\ r.ver # 0 /\ r.turns = own
    <3>1. task[p][t].ver + 1 \in Nat /\ task[p][t].ver + 1 # 0
      BY <1>2
    <3> QED
      BY <1>1, <1>2, <3>1, SnapshotFacts DEF Snapshot
  <2>3. UNCHANGED task \/ Wrote(r)
    BY <1>1, <1>6 DEF OverwriteTask, StoreInv, Typed
  <2> HIDE DEF r, own, p, t, c
  <2> QED
    BY <1>1, <1>3, <2>1, <2>2, <2>3, SliceWritten
<1>7. CASE \/ \E q \in Replicas, u \in Tasks : BeginWrite(x, q, u)
           \/ ReadIndex(x) \/ WriteIndex(x) \/ RereadTask(x)
  BY <1>3, <1>7 DEF BeginWrite, ReadIndex, WriteIndex, RereadTask, stored
<1> QED
  BY <1>4, <1>5, <1>6, <1>7 DEF Write

LEMMA WriteIndexes ==
  ASSUME StoreInv, NEW x \in Writers, Write(x)
  PROVE  IndexesGrow
<1> DEFINE c == call[x]
<1>1. c.replica \in Replicas /\ c.task \in Tasks
  BY CallFacts
<1>2. CASE UNCHANGED index
  BY <1>2 DEF IndexesGrow
<1>3. CASE WriteIndex(x)
  <2> DEFINE p == c.replica
             k == c.key
             i == index[p][k]
             j == [ver |-> c.ver + 1, ids |-> Append(c.ids, c.task)]
  <2>1. UNCHANGED index \/ (i.ver = c.ver /\ index' = [index EXCEPT ![p][k] = j])
    BY <1>3 DEF WriteIndex
  <2>2. k \in Keys /\ (i.ver = c.ver => c.ids = i.ids)
    BY <1>3, CallFacts DEF WriteIndex, At, Indexing, IndexRead
  <2>3. CASE i.ver = c.ver /\ index' = [index EXCEPT ![p][k] = j]
    <3>1. i.ids \in Seq(Tasks)
      BY <1>1, <2>2 DEF StoreInv, Typed, Index, Ids
    <3>2. j.ids = Append(i.ids, c.task)
      BY <2>2, <2>3
    <3>3. \A q \in Replicas, l \in Keys :
            index'[q][l] = IF q = p /\ l = k THEN j ELSE index[q][l]
      BY <1>1, <2>2, <2>3 DEF StoreInv, Typed
    <3> HIDE DEF i, j
    <3>4. ToSet(i.ids) \subseteq ToSet(j.ids)
      BY <1>1, <3>1, <3>2, AppendToSet
    <3> QED
      BY <3>3, <3>4 DEF IndexesGrow, i
  <2> QED
    BY <1>2, <2>1, <2>3
<1>4. CASE \/ \E q \in Replicas, u \in Tasks : BeginWrite(x, q, u)
           \/ CreateTask(x) \/ ReadIndex(x) \/ RereadTask(x) \/ RewriteTask(x)
           \/ OverwriteTask(x)
  BY <1>2, <1>4 DEF BeginWrite, CreateTask, ReadIndex, RereadTask, RewriteTask,
                    OverwriteTask, stored
<1> QED
  BY <1>3, <1>4 DEF Write

----------------------------------------------------------------------------
(* The list of replicas. *)

\* A step of a replica that starts keeps the types, and leaves the stores alone.
LEMMA StartStep ==
  ASSUME TypeInv, NEW p \in Starting, ReadRegistry(p) \/ WriteRegistry(p)
  PROVE  /\ UNCHANGED <<task, index>> /\ registry' \in Paths
         /\ \E b : Becomes(p, b) /\ ReadOK(b)
<1> DEFINE c == call[p]
<1>1. p \in Calls \ Writers /\ p \in Replicas
  BY TaskStoreAssumption DEF Calls
<1>2. c \in ReadCall /\ ReadOK(c) /\ registry \in Paths
  BY <1>1 DEF TypeInv, ReadOK
<1>3. ReadOK(Done(c)) /\ ReadOK(Done(Hit(c)))
  BY <1>2, DoneOK
<1>4. CASE ReadRegistry(p)
  <2> DEFINE more == Append(registry, p)
             b    == [c EXCEPT !.pc = "writeRegistry", !.replica = p, !.left = more]
  <2>1. more \in Paths
    BY <1>1, <1>2, AppendProperties DEF Paths
  <2>2. Becomes(p, Done(c)) \/ Becomes(p, Done(Hit(c))) \/ Becomes(p, b)
    BY <1>4 DEF ReadRegistry
  <2> HIDE DEF more
  <2>3. b \in ReadCall /\ b.pc = "writeRegistry"
    BY <1>1, <1>2, <2>1 DEF ReadCall
  <2> HIDE DEF b, c
  <2>4. ReadOK(b)
    BY <2>3 DEF ReadOK
  <2>5. UNCHANGED <<task, index, registry>>
    BY <1>4 DEF ReadRegistry, stored
  <2> QED
    BY <1>2, <1>3, <2>2, <2>4, <2>5
<1>5. CASE WriteRegistry(p)
  <2>1. Becomes(p, Done(c)) \/ Becomes(p, Done(Hit(c)))
    BY <1>5 DEF WriteRegistry
  <2>2. (UNCHANGED registry \/ registry' = c.left) /\ UNCHANGED <<task, index>>
    BY <1>5 DEF WriteRegistry
  <2>3. c.left \in Paths
    BY <1>2 DEF ReadCall
  <2> HIDE DEF c
  <2> QED
    BY <1>2, <1>3, <2>1, <2>2, <2>3
<1> QED
  BY <1>4, <1>5

LEMMA ToSetOfAppend ==
  ASSUME NEW p \in Starting
  PROVE  /\ Registered \in Seq(Replicas) /\ Append(Registered, p) # <<>>
         /\ ToSet(Append(Registered, p)) = ToSet(Registered) \union {p}
<1>1. Registered \in Seq(Replicas) /\ p \in Replicas
  <2>1. Registered \in Seq(Replicas \ Starting) /\ Replicas \ Starting \subseteq Replicas
    BY TaskStoreAssumption
  <2>2. Registered \in Seq(Replicas)
    BY <2>1, SeqMonotonic
  <2> QED
    BY <2>2, TaskStoreAssumption
<1>2. Append(Registered, p) # <<>>
  BY <1>1, AppendProperties, EmptySeq, LenProperties
<1> QED
  BY <1>1, <1>2, AppendToSet

LEMMA RegistrySteps ==
  ASSUME TypeInv, SteadyRegistry, RegistryGrows,
         NEW p \in Starting, ReadRegistry(p) \/ WriteRegistry(p)
  PROVE  RegistryGrows' /\ ListingsGrow
<1> DEFINE c == call[p]
           more == Append(Registered, p)
<1>1. \A q \in Starting : q = p
  BY DEF SteadyRegistry
<1>2. Registered # <<>> /\ p \in Calls \ Writers /\ p \in Replicas
  BY TaskStoreAssumption DEF SteadyRegistry, Calls
<1>3. registry = Registered \/ registry = more
  BY <1>1 DEF RegistryGrows
<1>4. \A b : Becomes(p, b) => call'[p] = b
  BY <1>2 DEF Becomes, TypeInv, StoreInv
<1>6. c \in ReadCall /\ Done(c).pc = "done" /\ Done(Hit(c)).pc = "done"
  <2>1. c \in ReadCall
    BY <1>2 DEF TypeInv, ReadOK
  <2> HIDE DEF c
  <2> QED
    BY <2>1, ReadHitFacts, ReadDoneFacts
<1>7. CASE ReadRegistry(p)
  <2> DEFINE b == [c EXCEPT !.pc = "writeRegistry", !.replica = p, !.left = Append(registry, p)]
  <2>1. UNCHANGED registry
    BY <1>7 DEF ReadRegistry, stored
  <2>2. ListingsGrow
    BY <2>1 DEF ListingsGrow, Listing
  <2>3. \/ Becomes(p, Done(c)) \/ Becomes(p, Done(Hit(c)))
        \/ Becomes(p, b) /\ p \notin ToSet(registry)
    BY <1>7 DEF ReadRegistry
  <2>4. call'[p].pc = "writeRegistry" => call'[p].left = more
    <3>1. CASE Becomes(p, b) /\ p \notin ToSet(registry)
      <4>1. registry = Registered
        BY <1>3, <3>1, ToSetOfAppend
      <4>2. b.left = more
        BY <1>6, <4>1 DEF ReadCall
      <4> QED
        BY <1>4, <3>1, <4>2
    <3>2. CASE Becomes(p, Done(c)) \/ Becomes(p, Done(Hit(c)))
      BY <1>4, <1>6, <3>2
    <3> QED
      BY <2>3, <3>1, <3>2
  <2>5. RegistryGrows'
    BY <1>1, <1>3, <2>1, <2>4 DEF RegistryGrows, At
  <2> QED
    BY <2>2, <2>5
<1>8. CASE WriteRegistry(p)
  <2>1. c.left = more
    BY <1>8 DEF WriteRegistry, RegistryGrows
  <2>2. registry' = registry \/ registry' = more
    BY <1>8, <2>1 DEF WriteRegistry
  <2>3. call'[p].pc = "done"
    BY <1>4, <1>6, <1>8 DEF WriteRegistry
  <2>4. RegistryGrows'
    BY <1>1, <1>3, <2>2, <2>3 DEF RegistryGrows, At
  <2>5. ListingsGrow
    BY <1>2, <1>3, <2>2, ToSetOfAppend DEF ListingsGrow, Listing
  <2> QED
    BY <2>4, <2>5
<1> QED
  BY <1>7, <1>8

----------------------------------------------------------------------------
(* The types, in all steps. *)

LEMMA InitTypeInv == Init => TypeInv /\ PlainSlices
<1> SUFFICES ASSUME Init PROVE TypeInv /\ PlainSlices
  OBVIOUS
<1> DEFINE p == CHOOSE q \in Replicas : TRUE
           t == CHOOSE u \in Tasks : TRUE
           e == <<>>
<1>1. p \in Replicas /\ t \in Tasks
  BY TaskStoreAssumption
<1>2. e \in Ids /\ e \in Turns /\ e \in Paths
  BY DEF Ids, Turns, Paths
<1>3. Fresh = [pc |-> "new", replica |-> p, task |-> t, key |-> NoUser,
               now |-> 0, ver |-> 0, ids |-> e, turns |-> e, made |-> 0, tries |-> 0,
               left |-> e, todo |-> e, newest |-> {}, found |-> {},
               created |-> FALSE, hit |-> FALSE, due |-> {}, owed |-> {}]
  BY DEF Fresh
<1>4. \A x \in Calls : call[x] = Fresh
  BY DEF Init
<1> HIDE DEF p, t, e
<1>5. Fresh \in ReadCall /\ Fresh.pc = "new" /\ Fresh.tries = 0
  BY <1>1, <1>2, <1>3 DEF ReadCall
<1>6. \A x \in Calls \ Writers : ReadOK(call[x])
  BY <1>4, <1>5 DEF ReadOK
<1>7. \A x \in Writers : call[x].tries < MaxRetries
  BY <1>4, <1>5 DEF Calls, MaxRetries
<1>8. registry \in Paths
  <2>1. Registered \in Seq(Replicas \ Starting) /\ Replicas \ Starting \subseteq Replicas
    BY TaskStoreAssumption
  <2>2. Registered \in Seq(Replicas)
    BY <2>1, SeqMonotonic
  <2> QED
    BY <2>2 DEF Init, Paths
<1>9. PlainSlices
  BY DEF Init, PlainSlices, NoTask
<1> QED
  BY <1>6, <1>7, <1>8, <1>9, InitStoreInv DEF TypeInv

\* The calls, when one of them takes a step.
LEMMA OneMoves ==
  ASSUME TypeInv, StoreInv', registry' \in Paths, NEW x \in Calls, NEW b, Becomes(x, b),
         x \in Writers => b.tries < MaxRetries,
         x \notin Writers => ReadOK(b)
  PROVE  TypeInv'
<1>1. \A y \in Calls : call'[y] = IF y = x THEN b ELSE call[y]
  BY DEF Becomes, TypeInv, StoreInv
<1>2. Writers \subseteq Calls
  BY DEF Calls
<1>3. \A y \in Writers : call'[y].tries < MaxRetries
  BY <1>1, <1>2 DEF TypeInv
<1>4. \A y \in Calls \ Writers : ReadOK(call'[y])
  BY <1>1, <1>2 DEF TypeInv
<1> QED
  BY <1>3, <1>4 DEF TypeInv, ReadOK

LEMMA CrashTyped ==
  ASSUME TypeInv, StoreInv', NEW x \in Calls, Crash(x)
  PROVE  TypeInv'
<1> DEFINE c == call[x]
           b == Done(Hit(c))
<1>1. Becomes(x, b) /\ registry' \in Paths
  BY DEF Crash, stored, TypeInv
<1>2. CASE x \in Writers
  <2>1. b.tries < MaxRetries
    <3>1. c \in WriteCall
      BY <1>2, CallFacts DEF TypeInv
    <3>2. Hit(c) \in WriteCall
      BY <3>1, HitFacts
    <3> HIDE DEF c
    <3> QED
      BY <3>2 DEF Done, WriteCall, MaxRetries
  <2> HIDE DEF b
  <2> QED
    BY <1>1, <1>2, <2>1, OneMoves
<1>3. CASE x \notin Writers
  <2>1. ReadOK(b)
    BY <1>3, DoneOK DEF TypeInv, ReadOK
  <2> HIDE DEF b
  <2> QED
    BY <1>1, <1>3, <2>1, OneMoves
<1> QED
  BY <1>2, <1>3

LEMMA NextTypeInv == TypeInv /\ PlainSlices /\ [Next]_vars => TypeInv' /\ PlainSlices'
<1> SUFFICES ASSUME TypeInv, PlainSlices, [Next]_vars  PROVE TypeInv' /\ PlainSlices'
  OBVIOUS
<1>1. StoreInv /\ StoreInv'
  BY NextStoreInv DEF TypeInv
<1>2. ASSUME UNCHANGED task  PROVE PlainSlices'
  BY <1>2 DEF PlainSlices
<1>3. \A x \in Writers : x \in Calls
  BY DEF Calls
<1>4. \A x \in Readers \union Starting : x \in Calls \ Writers
  BY TaskStoreAssumption DEF Calls
<1>5. ASSUME NEW x \in Writers, Write(x)  PROVE TypeInv' /\ PlainSlices'
  <2>1. call[x].tries < MaxRetries /\ registry \in Paths
    BY DEF TypeInv
  <2>2. registry' \in Paths /\ \E b : Becomes(x, b) /\ b.tries < MaxRetries
    BY <1>1, <1>5, <2>1, TriesBounded
  <2>3. TypeInv'
    BY <1>1, <1>3, <2>2, OneMoves
  <2> QED
    BY <1>1, <1>5, <2>3, WriteSlices
<1>6. ASSUME NEW x \in Readers, Read(x)  PROVE TypeInv' /\ PlainSlices'
  <2>1. GoesOn(x) /\ UNCHANGED stored
    BY <1>4, <1>6, ReadGoesOn
  <2>2. UNCHANGED task /\ registry' \in Paths
    BY <2>1 DEF stored, TypeInv
  <2> QED
    BY <1>1, <1>2, <1>4, <2>1, <2>2, OneMoves DEF GoesOn
<1>7. ASSUME NEW p \in Starting, ReadRegistry(p) \/ WriteRegistry(p)
      PROVE  TypeInv' /\ PlainSlices'
  BY <1>1, <1>2, <1>4, <1>7, StartStep, OneMoves
<1>8. ASSUME NEW x \in Calls, Crash(x)  PROVE TypeInv' /\ PlainSlices'
  BY <1>1, <1>2, <1>8, CrashTyped DEF Crash, stored
<1>9. CASE Tick \/ UNCHANGED vars
  <2>1. UNCHANGED <<task, registry, call>>
    BY <1>9 DEF Tick, stored, vars
  <2> QED
    BY <1>1, <1>2, <2>1 DEF TypeInv, ReadOK
<1> QED
  BY <1>5, <1>6, <1>7, <1>8, <1>9 DEF Next

LEMMA TypeInvTypes == TypeInv => TypeOK
<1> SUFFICES ASSUME TypeInv PROVE TypeOK
  OBVIOUS
<1>1. ASSUME NEW p \in Replicas, NEW t \in Tasks
      PROVE  /\ {task[p][t].ver, task[p][t].created, task[p][t].updated} \subseteq Nat
             /\ task[p][t].turns \in Seq(Writers)
  BY DEF TypeInv, StoreInv, Typed, Record, Turns
<1>2. ASSUME NEW p \in Replicas, NEW k \in Keys
      PROVE  index[p][k].ver \in Nat /\ index[p][k].ids \in Seq(Tasks)
  BY DEF TypeInv, StoreInv, Typed, Index, Ids
<1>3. registry \in Seq(Replicas)
  BY DEF TypeInv, Paths
<1>4. ASSUME NEW x \in Calls
      PROVE  LET c == call[x] IN
             /\ c.replica \in Replicas /\ c.task \in Tasks
             /\ c.pc \in {"readIndex", "writeIndex", "index"} => c.key \in Keys
             /\ c.pc \in {"index", "slice"} => c.left # <<>>
             /\ c.pc \in {"fanOut", "slice"} => c.todo # <<>>
             /\ c.tries < MaxRetries
  <2> DEFINE c == call[x]
  <2>1. CASE x \in Writers
    <3>1. /\ c \in WriteCall /\ c.replica \in Replicas /\ c.task \in Tasks
          /\ c.tries < MaxRetries
          /\ c.pc \in {"readIndex", "writeIndex"} => c.key \in Keys
      BY <2>1, CallFacts DEF TypeInv, Indexing
    <3>2. c.pc \notin {"index", "slice", "fanOut"}
      BY <3>1 DEF WriteCall
    <3> QED
      BY <3>1, <3>2
  <2>2. CASE x \notin Writers
    <3>1. ReadOK(c) /\ c \in ReadCall
      BY <2>2 DEF TypeInv, ReadOK
    <3>2. c.replica \in Replicas /\ c.task \in Tasks /\ c.tries < MaxRetries
          /\ c.pc \notin {"readIndex", "writeIndex"}
      BY <3>1 DEF ReadCall, MaxRetries
    <3> QED
      BY <3>1, <3>2 DEF ReadOK
  <2> QED
    BY <2>1, <2>2
<1> QED
  BY <1>1, <1>2, <1>3, <1>4 DEF TypeOK

\* Records, indexes, the list of replicas and the locals of every call keep their
\* types: no call takes the head of an empty list, and none starts a round that it may
\* not lose.
THEOREM TypeCorrect == Spec => []TypeOK
<1>1. TypeInv /\ PlainSlices => TypeOK
  BY TypeInvTypes
<1> QED
  BY <1>1, InitTypeInv, NextTypeInv, PTL DEF Spec

----------------------------------------------------------------------------
(* What is read, in all steps. *)

LEMMA InitReadInv == Init => ReadInv
<1> SUFFICES ASSUME Init PROVE ReadInv
  OBVIOUS
<1>1. ASSUME NEW x \in Calls
      PROVE  /\ call[x].pc = "new" /\ call[x].due = {} /\ call[x].owed = {}
             /\ call[x].turns = <<>> /\ call[x].newest = {}
  BY DEF Init, Fresh
<1>2. \A x \in Readers \union Starting : x \in Calls
  BY DEF Calls
<1>3. \A x \in Readers : MissesNothing(call[x])
  BY <1>1, <1>2
     DEF MissesNothing, Kept, Unstarted, Searching, Between, Loading, Answered
<1>4. RegistryGrows
  BY <1>1, <1>2 DEF RegistryGrows, At, Init
<1> QED
  BY <1>3, <1>4, InitTypeInv DEF ReadInv

LEMMA NothingShrinks ==
  ASSUME UNCHANGED <<task, index, registry>>
  PROVE  SlicesGrow /\ IndexesGrow /\ ListingsGrow
  BY DEF SlicesGrow, IndexesGrow, ListingsGrow, Listing

\* The reads, when another call takes a step.
LEMMA ReadersKept ==
  ASSUME TypeInv, ReadInv, SlicesGrow, IndexesGrow, ListingsGrow,
         NEW S, \A y \in Readers \ S : call'[y] = call[y]
  PROVE  \A y \in Readers \ S : MissesNothing(call[y])'
<1> SUFFICES ASSUME NEW y \in Readers \ S  PROVE MissesNothing(call[y])'
  OBVIOUS
<1>1. y \in Calls \ Writers /\ call'[y] = call[y] /\ MissesNothing(call[y])
  BY TaskStoreAssumption DEF Calls, ReadInv
<1> QED
  BY <1>1, MissesNothingKept

LEMMA NextReadInv ==
  ASSUME SteadyRegistry
  PROVE  TypeInv /\ ReadInv /\ [Next]_vars => ReadInv'
<1> SUFFICES ASSUME TypeInv, ReadInv, [Next]_vars  PROVE ReadInv'
  OBVIOUS
<1>1. /\ StoreInv /\ PlainSlices /\ PlainSlices' /\ RegistryGrows
      /\ \A x \in Readers : MissesNothing(call[x])
  BY NextTypeInv DEF TypeInv, ReadInv
<1>2. /\ \A x \in Readers : x \in Calls \ Writers /\ x \notin Starting
      /\ \A x \in Starting : x \in Calls \ Writers /\ x \notin Readers
      /\ \A x \in Writers : x \in Calls /\ x \notin Readers /\ x \notin Starting
  BY TaskStoreAssumption DEF Calls
<1>3. \A x, b : Becomes(x, b) /\ x \in Calls =>
        call'[x] = b /\ \A y \in Calls \ {x} : call'[y] = call[y]
  BY <1>1 DEF Becomes, StoreInv
<1>4. ASSUME UNCHANGED registry, \A p \in Starting : call'[p] = call[p] \/ call'[p].pc = "done"
      PROVE  RegistryGrows'
  BY <1>1, <1>4 DEF RegistryGrows, At
<1>5. ASSUME NEW x \in Writers, Write(x)  PROVE ReadInv'
  <2>1. UNCHANGED registry /\ \E b : Becomes(x, b)
    BY <1>1, <1>5, TriesBounded DEF TypeInv
  <2>2. SlicesGrow /\ IndexesGrow /\ ListingsGrow
    BY <1>1, <1>5, <2>1, WriteSlices, WriteIndexes DEF ListingsGrow, Listing
  <2>3. \A y \in Readers \union Starting : call'[y] = call[y]
    BY <1>2, <1>3, <2>1
  <2>4. \A y \in Readers : MissesNothing(call[y])'
    BY <2>2, <2>3, ReadersKept
  <2> QED
    BY <1>1, <1>4, <2>1, <2>3, <2>4 DEF ReadInv
<1>6. ASSUME NEW x \in Readers, Read(x)  PROVE ReadInv'
  <2>1. GoesOn(x) /\ UNCHANGED stored
    BY <1>1, <1>2, <1>6, ReadGoesOn
  <2>2. PICK b : Becomes(x, b) /\ MissesNothing(b)
    BY <1>1, <2>1 DEF GoesOn
  <2>3. call'[x] = b /\ \A y \in (Readers \union Starting) \ {x} : call'[y] = call[y]
    BY <1>2, <1>3, <2>2
  <2>4. MissesNothing(call[x])'
    BY <1>2, <2>1, <2>2, <2>3, MissesNothingStill
  <2>5. SlicesGrow /\ IndexesGrow /\ ListingsGrow
    BY <2>1, NothingShrinks DEF stored
  <2>6. \A y \in Readers \ {x} : MissesNothing(call[y])'
    BY <2>3, <2>5, ReadersKept
  <2>7. RegistryGrows'
    BY <1>2, <1>4, <2>1, <2>3 DEF stored
  <2> QED
    BY <1>1, <2>4, <2>6, <2>7 DEF ReadInv
<1>7. ASSUME NEW p \in Starting, ReadRegistry(p) \/ WriteRegistry(p)  PROVE ReadInv'
  <2>1. UNCHANGED <<task, index>> /\ \E b : Becomes(p, b)
    BY <1>7, StartStep
  <2>2. RegistryGrows' /\ ListingsGrow
    BY <1>1, <1>7, RegistrySteps
  <2>3. SlicesGrow /\ IndexesGrow
    BY <2>1 DEF SlicesGrow, IndexesGrow
  <2>4. \A y \in Readers : call'[y] = call[y]
    BY <1>2, <1>3, <2>1
  <2>5. \A y \in Readers : MissesNothing(call[y])'
    BY <2>2, <2>3, <2>4, ReadersKept
  <2> QED
    BY <1>1, <2>2, <2>5 DEF ReadInv
<1>8. ASSUME NEW x \in Calls, Crash(x)  PROVE ReadInv'
  <2> DEFINE b == Done(Hit(call[x]))
  <2>1. Becomes(x, b) /\ UNCHANGED stored
    BY <1>8 DEF Crash
  <2>2. x \notin Writers => b.hit /\ b.pc = "done"
    BY ReadHitFacts, ReadDoneFacts DEF TypeInv, ReadOK
  <2> HIDE DEF b
  <2>3. call'[x] = b /\ \A y \in Calls \ {x} : call'[y] = call[y]
    BY <1>3, <2>1
  <2>4. x \in Readers => MissesNothing(call[x])'
    BY <1>2, <2>2, <2>3 DEF MissesNothing
  <2>5. SlicesGrow /\ IndexesGrow /\ ListingsGrow
    BY <2>1, NothingShrinks DEF stored
  <2>6. \A y \in Readers \ {x} : MissesNothing(call[y])'
    BY <1>2, <2>3, <2>5, ReadersKept
  <2>7. RegistryGrows'
    BY <1>2, <1>4, <2>1, <2>2, <2>3 DEF stored
  <2> QED
    BY <1>1, <2>4, <2>6, <2>7 DEF ReadInv
<1>9. CASE Tick \/ UNCHANGED vars
  <2>1. UNCHANGED <<task, index, registry, call>>
    BY <1>9 DEF Tick, stored, vars
  <2>2. SlicesGrow /\ IndexesGrow /\ ListingsGrow
    BY <2>1, NothingShrinks
  <2>3. \A y \in Readers : MissesNothing(call[y])'
    BY <2>1, <2>2, ReadersKept
  <2> QED
    BY <1>1, <1>4, <2>1, <2>3 DEF ReadInv
<1> QED
  BY <1>5, <1>6, <1>7, <1>8, <1>9 DEF Next

LEMMA ReadInvComplete == ReadInv => ReadsAreComplete
<1> SUFFICES ASSUME ReadInv, NEW x \in Readers, At(x, "done"), ~call[x].hit
             PROVE  /\ call[x].due \subseteq {f.task : f \in call[x].found}
                    /\ \A o \in call[x].owed :
                         \E f \in call[x].found : f.task = o[1] /\ o[2] \in f.turns
  BY DEF ReadsAreComplete
<1>1. Answered(call[x]) /\ call[x].pc = "done"
  BY DEF ReadInv, MissesNothing, At
<1> QED
  BY <1>1 DEF Answered, FoundTask, FoundTurn

\* While at most one replica starts, and not as the first of all, a read that no fault
\* meets finds every task that was listed when it began and every turn that was there
\* when it began to load the task, however many calls write meanwhile.
THEOREM ReadsComplete == ASSUME SteadyRegistry  PROVE Spec => []ReadsAreComplete
<1>1. Init => TypeInv /\ PlainSlices /\ ReadInv
  BY InitTypeInv, InitReadInv
<1>2. TypeInv /\ PlainSlices /\ ReadInv /\ [Next]_vars => TypeInv' /\ PlainSlices' /\ ReadInv'
  BY NextTypeInv, NextReadInv
<1> QED
  BY <1>1, <1>2, ReadInvComplete, PTL DEF Spec
=============================================================================
