-------------------------- MODULE Compliance_proofs --------------------------
(* What reviews leave alone, what they cover and what waits because of them,  *)
(* and what an upload promises, for any plans, tabs, days, requests and       *)
(* bounds.                                                                    *)
EXTENDS Checklist, DocumentUpload, FiniteSetTheorems, SequenceTheorems, WellFoundedInduction, TLAPS

PlanRows ==
    {Plan(c, r) : c \in Contents, r \in Nat} \cup UNION {ToSet(h) : h \in Histories}

TaskFields == {"item", "plan", "status"}

IsTask(t) == DOMAIN t = TaskFields /\ t.plan \in Nat

TypeInv ==
    /\ today \in Nat /\ revision \in Nat
    /\ plans \in Seq(PlanRows)
    /\ tasks \in Seq(ToSet(tasks)) /\ \A i \in DOMAIN tasks : IsTask(tasks[i])
    /\ ack \in 0 .. Latest

-----------------------------------------------------------------------------
(* Lists.                                                                     *)
LEMMA ListsAreSequences ==
    ASSUME NEW n \in Nat, NEW f, f = [i \in 1 .. n |-> f[i]]
    PROVE  f \in Seq(ToSet(f)) /\ Len(f) = n /\ DOMAIN f = 1 .. n
<1>1. f \in [1 .. n -> ToSet(f)]
  BY DEF ToSet
<1>. QED BY <1>1, SeqDef

LEMMA Joined ==
    ASSUME NEW s, NEW t, s \in Seq(ToSet(s)), t \in Seq(ToSet(t))
    PROVE  /\ s \o t \in Seq(ToSet(s \o t))
           /\ DOMAIN (s \o t) = 1 .. Len(s) + Len(t)
           /\ \A i \in DOMAIN s : i \in DOMAIN (s \o t) /\ (s \o t)[i] = s[i]
           /\ \A i \in DOMAIN (s \o t) \ DOMAIN s :
                i - Len(s) \in DOMAIN t /\ (s \o t)[i] = t[i - Len(s)]
<1>. DEFINE S == ToSet(s) \cup ToSet(t)
<1>1. s \in Seq(S) /\ t \in Seq(S)
  BY SeqMonotonic
<1>2. /\ Len(s) \in Nat /\ Len(t) \in Nat /\ DOMAIN s = 1 .. Len(s) /\ DOMAIN t = 1 .. Len(t)
      /\ s \o t \in Seq(S) /\ Len(s \o t) = Len(s) + Len(t)
      /\ \A i \in 1 .. Len(s) + Len(t) : (s \o t)[i] = IF i <= Len(s) THEN s[i] ELSE t[i - Len(s)]
  BY <1>1, ConcatProperties, LenProperties
<1>. DEFINE j == s \o t
<1>3. DOMAIN j = 1 .. Len(s) + Len(t) /\ j = [i \in 1 .. Len(s) + Len(t) |-> j[i]]
  BY <1>2, LenProperties
<1>4. Len(s) + Len(t) \in Nat
  BY <1>2
<1>5. j \in Seq(ToSet(j))
  <2>. HIDE DEF j
  <2>. QED BY <1>3, <1>4, ListsAreSequences
<1>. QED BY <1>2, <1>3, <1>5

(* Indices have a greatest.                                                   *)
LEMMA MaxIsAMember ==
    ASSUME NEW n \in Nat, NEW S \in SUBSET (0 .. n), S # {}
    PROVE  Max(S) \in S /\ \A x \in S : x <= Max(S)
<1>. DEFINE T == {n - x : x \in S}
<1>1. T \subseteq Nat /\ T # {}
  <2>1. \A x \in S : n - x \in Nat
    OBVIOUS
  <2>2. PICK x \in S : TRUE
    OBVIOUS
  <2>. QED BY <2>1, <2>2, Zenon
<1>2. PICK y \in T : \A z \in T : ~(<<z, y>> \in OpToRel(<, Nat))
  BY <1>1, NatLessThanWellFounded, WFMin, Zenon
<1>3. \A z \in T : ~(z < y)
  BY <1>1, <1>2 DEF OpToRel
<1>4. PICK x \in S : y = n - x
  OBVIOUS
<1>5. \A q \in S : x >= q
  BY <1>3, <1>4, SMTT(30)
<1>. QED BY <1>5 DEF Max

(* The lines of a plan, one for each of its requirements.                     *)
LinesOf(items) ==
    /\ \A item \in items : IsLine(item)
    /\ \A i, j \in items : ToSet(i.rules) \cap ToSet(j.rules) # {} => i = j

LEMMA FirstRule ==
    ASSUME NEW item, IsLine(item)
    PROVE  item.rules[1] \in Nat /\ item.rules[1] \in ToSet(item.rules)
<1>1. item.rules \in Seq(Nat) /\ item.rules # <<>>
  BY DEF IsLine
<1>2. Len(item.rules) \in Nat /\ Len(item.rules) # 0 /\ DOMAIN item.rules = 1 .. Len(item.rules)
  BY <1>1, EmptySeq, LenProperties
<1>3. 1 \in DOMAIN item.rules
  BY <1>2
<1>. QED BY <1>1, <1>3, ElementOfSeq DEF ToSet

LEMMA LinesAreApart ==
    ASSUME NEW items, LinesOf(items), NEW i \in items, NEW j \in items,
           Requirement(i) = Requirement(j) \/ i.rules[1] = j.rules[1]
    PROVE  i = j
<1>1. i.rules[1] = j.rules[1]
  BY DEF Requirement
<1>2. i.rules[1] \in ToSet(i.rules) /\ j.rules[1] \in ToSet(j.rules)
  BY FirstRule DEF LinesOf
<1>. QED BY <1>1, <1>2 DEF LinesOf

LEMMA FilingIsAnOrder ==
    ASSUME NEW items, LinesOf(items), NEW i \in items, NEW j \in items
    PROVE  /\ ~FiledBefore(i, i)
           /\ i = j \/ FiledBefore(i, j) \/ FiledBefore(j, i)
           /\ FiledBefore(i, j) => \A k \in items : FiledBefore(j, k) => FiledBefore(i, k)
<1>. DEFINE d(x) == FilingDate(x)
<1>1. \A x \in items : d(x) \in Nat \cup {None} /\ x.rules[1] \in Nat
  BY FirstRule DEF LinesOf, IsLine
<1>2. \A x, y \in items : x.rules[1] = y.rules[1] => x = y
  BY LinesAreApart
<1>3. \A x, y : FiledBefore(x, y) <=>
        \/ d(x) # None /\ d(y) = None
        \/ d(x) # None /\ d(y) # None /\ d(x) < d(y)
        \/ d(x) = d(y) /\ x.rules[1] < y.rules[1]
  BY DEF FiledBefore
<1>. HIDE DEF d
<1>4. ~FiledBefore(i, i)
  BY <1>1, <1>3
<1>5. i = j \/ FiledBefore(i, j) \/ FiledBefore(j, i)
  BY <1>1, <1>2, <1>3
<1>6. ASSUME FiledBefore(i, j), NEW k \in items, FiledBefore(j, k) PROVE FiledBefore(i, k)
  BY <1>1, <1>3, <1>6
<1>. QED BY <1>4, <1>5, <1>6

(* Filing order lists each line once.                                         *)
LEMMA FilingOrderLists ==
    ASSUME NEW items, IsFiniteSet(items), LinesOf(items)
    PROVE  LET list == InFilingOrder(items)
           IN  /\ Cardinality(items) \in Nat /\ DOMAIN list = 1 .. Cardinality(items)
               /\ \A k \in DOMAIN list : list[k] \in items
               /\ \A item \in items : \E k \in DOMAIN list : list[k] = item
               /\ \A k, l \in DOMAIN list : list[k] = list[l] => k = l
<1>. DEFINE n == Cardinality(items)
<1>. DEFINE ahead(x) == {i \in items : FiledBefore(i, x)}
<1>. DEFINE rank == [x \in items |-> Cardinality(ahead(x))]
<1>0. n \in Nat /\ n - 1 \in Int
  BY FS_CardinalityType
<1>1. ASSUME NEW x \in items PROVE IsFiniteSet(ahead(x)) /\ rank[x] \in 0 .. n - 1
  <2>1. IsFiniteSet(items \ {x}) /\ Cardinality(items \ {x}) = n - 1
    BY FS_RemoveElement
  <2>2. ahead(x) \in SUBSET (items \ {x})
    BY FilingIsAnOrder
  <2>3. IsFiniteSet(ahead(x)) /\ Cardinality(ahead(x)) <= n - 1
    BY <2>1, <2>2, FS_Subset
  <2>4. Cardinality(ahead(x)) \in Nat
    BY <2>3, FS_CardinalityType
  <2>. QED BY <1>0, <2>3, <2>4
<1>2. ASSUME NEW x \in items, NEW y \in items, FiledBefore(x, y) PROVE rank[x] # rank[y]
  <2>1. ahead(x) \in SUBSET ahead(y) /\ x \in ahead(y) \ ahead(x)
    BY <1>2, FilingIsAnOrder
  <2>2. Cardinality(ahead(x)) # Cardinality(ahead(y))
    BY <1>1, <2>1, FS_Subset
  <2>. QED BY <2>2
<1>3. rank \in Injection(items, 0 .. n - 1)
  <2>1. rank \in [items -> 0 .. n - 1]
    BY <1>1
  <2>2. \A x, y \in items : rank[x] = rank[y] => x = y
    <3>. HIDE DEF rank
    <3>. QED BY <1>2, FilingIsAnOrder
  <2>. QED BY <2>1, <2>2 DEF Injection, IsInjective
<1>4. IsFiniteSet(0 .. n - 1) /\ Cardinality(0 .. n - 1) = n
  BY <1>0, FS_Interval
<1>5. rank \in Surjection(items, 0 .. n - 1)
  BY <1>3, <1>4, FS_Injection
<1>. DEFINE list == InFilingOrder(items)
<1>6. DOMAIN list = 1 .. n
  BY DEF InFilingOrder
<1>7. ASSUME NEW k \in 1 .. n PROVE list[k] \in items /\ rank[list[k]] = k - 1
  <2>1. k - 1 \in 0 .. n - 1
    BY <1>0
  <2>2. \E x \in items : Cardinality(ahead(x)) = k - 1
    BY <1>5, <2>1 DEF Surjection
  <2>3. list[k] = CHOOSE x \in items : Cardinality(ahead(x)) = k - 1
    BY DEF InFilingOrder
  <2>. QED BY <2>2, <2>3
<1>8. ASSUME NEW x \in items PROVE \E k \in 1 .. n : list[k] = x
  <2>1. rank[x] \in 0 .. n - 1
    BY <1>1
  <2>2. rank[x] + 1 \in 1 .. n /\ (rank[x] + 1) - 1 = rank[x]
    BY <1>0, <2>1
  <2>3. list[rank[x] + 1] \in items /\ rank[list[rank[x] + 1]] = rank[x]
    BY <1>7, <2>2
  <2>4. list[rank[x] + 1] = x
    BY <1>3, <2>3 DEF Injection, IsInjective
  <2>. QED BY <2>2, <2>4
<1>9. ASSUME NEW k \in 1 .. n, NEW l \in 1 .. n, list[k] = list[l] PROVE k = l
  <2>1. k - 1 = l - 1
    BY <1>7, <1>9
  <2>. QED BY <2>1
<1>. HIDE DEF list, n
<1>10. \A k \in DOMAIN list : list[k] \in items
  BY <1>6, <1>7
<1>11. \A item \in items : \E k \in DOMAIN list : list[k] = item
  BY <1>6, <1>8
<1>12. \A k, l \in DOMAIN list : list[k] = list[l] => k = l
  BY <1>6, <1>9
<1>. QED BY <1>0, <1>6, <1>10, <1>11, <1>12 DEF list, n

-----------------------------------------------------------------------------
(* Materializing.                                                             *)
TasksFollow(ts, p) ==
    /\ p = 0 => DOMAIN ts = {}
    /\ \A i \in DOMAIN ts :
         /\ ts[i].plan <= p
         /\ IF ts[i].plan = p THEN ts[i].item \in Tracked(p) ELSE Struck(ts[i], p)
    /\ \A i, j \in DOMAIN ts :
         /\ ts[i].plan = p /\ ts[j].plan = p
         /\ Requirement(ts[i].item) = Requirement(ts[j].item)
         => i = j
    /\ p # 0 => \A item \in Tracked(p) :
         \E i \in DOMAIN ts : ts[i].plan = p /\ ts[i].item = item

TaskInv == TasksFollow(tasks, ack)

LEMMA PlanLines ==
    ASSUME TypeInv, NEW p \in DOMAIN plans
    PROVE  IsFiniteSet(plans[p].items) /\ LinesOf(plans[p].items)
<1>1. plans[p] \in PlanRows
  BY DEF TypeInv
<1>2. CASE \E c \in Contents, r \in Nat : plans[p] = Plan(c, r)
  <2>1. PICK c \in Contents : plans[p].items = c.items
    BY <1>2 DEF Plan
  <2>. QED BY <2>1, PlansAreFinite, RulesAreOfOneLine DEF LinesOf
<1>3. CASE \E h \in Histories : plans[p] \in ToSet(h)
  BY <1>3, PlansAreFinite, RulesAreOfOneLine DEF LinesOf
<1>. QED BY <1>1, <1>2, <1>3 DEF PlanRows

LEMMA CurrentIs ==
    ASSUME TypeInv, NEW p \in DOMAIN plans, NEW item \in plans[p].items, NEW task,
           Requirement(task.item) = Requirement(item)
    PROVE  Current(task, p) = item
<1>1. \A other \in plans[p].items : Requirement(other) = Requirement(item) => other = item
  BY PlanLines, LinesAreApart
<1>. QED BY <1>1 DEF Current

(* A review of plan p by its tasks: a task follows p exactly if it was live   *)
(* and p raises its requirement.                                              *)
LEMMA LiveTasks ==
    ASSUME TypeInv, TaskInv, NEW p \in DOMAIN plans, ack <= p, NEW i \in Live(tasks, p)
    PROVE  /\ tasks[i].plan = ack /\ tasks[i].item \in Tracked(ack)
           /\ tasks[i].plan = p \/ ~OmittedBy(tasks[i], p)
<1>1. i \in DOMAIN tasks /\ ~Struck(tasks[i], p)
  BY DEF Live
<1>2. p \in Nat /\ ack \in Nat /\ tasks[i].plan \in Nat /\ tasks[i].plan <= ack
  BY <1>1, LenProperties DEF TypeInv, TaskInv, TasksFollow, IsTask, Latest
<1>3. Struck(tasks[i], ack) => Struck(tasks[i], p)
  BY <1>2 DEF Struck
<1>4. tasks[i].plan # p => p \in (tasks[i].plan + 1) .. p
  BY <1>2
<1>. QED BY <1>1, <1>3, <1>4 DEF TaskInv, TasksFollow, Struck

(* At most one task is live for a requirement of p, and the review moves it.  *)
LEMMA WhoFollows ==
    ASSUME TypeInv, TaskInv, NEW p \in DOMAIN plans, ack <= p
    PROVE  /\ \A item \in Tracked(p) : \A i, j \in TrackedBy(p, item) : i = j
           /\ \A i \in Live(tasks, p) : \E item \in Tracked(p) : i \in TrackedBy(p, item)
           /\ \A i \in DOMAIN tasks :
                (\E item \in Tracked(p) : TrackedBy(p, item) # {} /\ i = Max(TrackedBy(p, item)))
                   <=> i \in Live(tasks, p)
<1>1. ASSUME NEW item \in Tracked(p), NEW i \in TrackedBy(p, item), NEW j \in TrackedBy(p, item)
      PROVE  i = j
  <2>1. /\ i \in Live(tasks, p) /\ j \in Live(tasks, p) /\ i \in DOMAIN tasks /\ j \in DOMAIN tasks
        /\ Requirement(tasks[i].item) = Requirement(tasks[j].item)
    BY DEF TrackedBy, Live
  <2>2. tasks[i].plan = ack /\ tasks[j].plan = ack
    BY <2>1, LiveTasks
  <2>. QED BY <2>1, <2>2 DEF TaskInv, TasksFollow
<1>2. ASSUME NEW i \in Live(tasks, p) PROVE \E item \in Tracked(p) : i \in TrackedBy(p, item)
  <2>1. /\ tasks[i].item \in plans[ack].items /\ tasks[i].item.kind \in Trackable
        /\ tasks[i].plan = ack
    BY LiveTasks DEF Tracked
  <2>2. PICK item \in plans[p].items : Requirement(item) = Requirement(tasks[i].item)
    <3>1. CASE tasks[i].plan = p
      BY <2>1, <3>1
    <3>2. CASE tasks[i].plan # p
      BY <3>2, LiveTasks DEF OmittedBy
    <3>. QED BY <3>1, <3>2
  <2>3. item.kind = tasks[i].item.kind
    BY <2>2 DEF Requirement
  <2>. QED BY <2>1, <2>2, <2>3 DEF Tracked, TrackedBy
<1>3. ASSUME NEW item \in Tracked(p), TrackedBy(p, item) # {}
      PROVE  Max(TrackedBy(p, item)) \in TrackedBy(p, item)
  <2>1. Len(tasks) \in Nat /\ TrackedBy(p, item) \in SUBSET (0 .. Len(tasks))
    BY LenProperties DEF TypeInv, TrackedBy, Live
  <2>. QED BY <1>3, <2>1, MaxIsAMember
<1>4. ASSUME NEW i \in DOMAIN tasks, NEW item \in Tracked(p), TrackedBy(p, item) # {},
             i = Max(TrackedBy(p, item))
      PROVE  i \in Live(tasks, p)
  BY <1>3, <1>4 DEF TrackedBy
<1>5. ASSUME NEW i \in Live(tasks, p)
      PROVE  \E item \in Tracked(p) : TrackedBy(p, item) # {} /\ i = Max(TrackedBy(p, item))
  <2>1. PICK item \in Tracked(p) : i \in TrackedBy(p, item)
    BY <1>2
  <2>2. i = Max(TrackedBy(p, item))
    BY <1>1, <1>3, <2>1
  <2>. QED BY <2>1, <2>2
<1>. QED BY <1>1, <1>2, <1>4, <1>5

(* The tasks of a review: the old ones, of which some follow plan p, and new  *)
(* ones for the rest of its requirements.                                     *)
Moves(p, i) ==
    \E item \in Tracked(p) : TrackedBy(p, item) # {} /\ i = Max(TrackedBy(p, item))

Untracked(p) == {item \in Tracked(p) : TrackedBy(p, item) = {}}

LEMMA MaterializedTasks ==
    ASSUME TypeInv, NEW p \in DOMAIN plans
    PROVE  LET ts == Materialized(p)
               new == InFilingOrder(Untracked(p))
           IN  /\ ts \in Seq(ToSet(ts)) /\ \A i \in DOMAIN ts : IsTask(ts[i])
               /\ \A i \in DOMAIN tasks :
                    /\ i \in DOMAIN ts
                    /\ ts[i] = IF Moves(p, i)
                               THEN [tasks[i] EXCEPT !.plan = p, !.item = Current(tasks[i], p)]
                               ELSE tasks[i]
               /\ \A i \in DOMAIN ts \ DOMAIN tasks :
                    /\ i - Len(tasks) \in DOMAIN new
                    /\ ts[i] = [item |-> new[i - Len(tasks)], plan |-> p,
                                status |-> "not_started"]
               /\ \A k \in DOMAIN new : Len(tasks) + k \in DOMAIN ts \ DOMAIN tasks
<1>. DEFINE f == Followed(p)
<1>. DEFINE new == InFilingOrder(Untracked(p))
<1>. DEFINE t == [k \in DOMAIN new |-> [item |-> new[k], plan |-> p, status |-> "not_started"]]
<1>0. /\ Len(tasks) \in Nat /\ DOMAIN tasks = 1 .. Len(tasks) /\ p \in Nat
      /\ \A i \in DOMAIN tasks : IsTask(tasks[i])
  BY LenProperties DEF TypeInv
<1>. DEFINE moved(i) == [tasks[i] EXCEPT !.plan = p, !.item = Current(tasks[i], p)]
<1>1. /\ DOMAIN f = DOMAIN tasks /\ f = [i \in 1 .. Len(tasks) |-> f[i]]
      /\ \A i \in DOMAIN tasks : f[i] = IF Moves(p, i) THEN moved(i) ELSE tasks[i]
  BY <1>0 DEF Followed, Moves
<1>2. \A i \in DOMAIN tasks : IsTask(f[i])
  <2>1. \A i \in DOMAIN tasks : IsTask(moved(i))
    BY <1>0 DEF IsTask, TaskFields
  <2>. HIDE DEF f, moved
  <2>. QED BY <1>0, <1>1, <2>1
<1>4. f \in Seq(ToSet(f)) /\ Len(f) = Len(tasks)
  <2>. HIDE DEF f
  <2>. QED BY <1>0, <1>1, ListsAreSequences
<1>5. PICK n \in Nat : DOMAIN new = 1 .. n
  <2>1. IsFiniteSet(Untracked(p))
    <3>1. IsFiniteSet(plans[p].items) /\ Untracked(p) \in SUBSET plans[p].items
      BY PlanLines DEF Tracked, Untracked
    <3>. QED BY <3>1, FS_Subset
  <2>. QED BY <2>1, FS_CardinalityType DEF InFilingOrder
<1>6. /\ t \in Seq(ToSet(t)) /\ Len(t) = n /\ DOMAIN t = 1 .. n
      /\ \A k \in DOMAIN t : /\ IsTask(t[k])
                             /\ t[k] = [item |-> new[k], plan |-> p, status |-> "not_started"]
  <2>1. /\ DOMAIN t = 1 .. n /\ t = [k \in 1 .. n |-> t[k]]
        /\ \A k \in DOMAIN t : t[k] = [item |-> new[k], plan |-> p, status |-> "not_started"]
    BY <1>5
  <2>2. \A x : IsTask([item |-> x, plan |-> p, status |-> "not_started"])
    BY <1>0 DEF IsTask, TaskFields
  <2>3. t \in Seq(ToSet(t)) /\ Len(t) = n
    <3>. HIDE DEF t
    <3>. QED BY <2>1, ListsAreSequences
  <2>. QED BY <2>1, <2>2, <2>3
<1>7. Materialized(p) = f \o t
  BY DEF Materialized, New, Untracked
<1>. HIDE DEF f, t, new
<1>8. /\ f \o t \in Seq(ToSet(f \o t))
      /\ DOMAIN (f \o t) = 1 .. Len(tasks) + n
      /\ \A i \in DOMAIN f : i \in DOMAIN (f \o t) /\ (f \o t)[i] = f[i]
      /\ \A i \in DOMAIN (f \o t) \ DOMAIN f :
           i - Len(f) \in DOMAIN t /\ (f \o t)[i] = t[i - Len(f)]
  <2>1. f \in Seq(ToSet(f)) /\ t \in Seq(ToSet(t))
    BY <1>4, <1>6
  <2>2. /\ f \o t \in Seq(ToSet(f \o t))
        /\ DOMAIN (f \o t) = 1 .. Len(f) + Len(t)
        /\ \A i \in DOMAIN f : i \in DOMAIN (f \o t) /\ (f \o t)[i] = f[i]
        /\ \A i \in DOMAIN (f \o t) \ DOMAIN f :
             i - Len(f) \in DOMAIN t /\ (f \o t)[i] = t[i - Len(f)]
    BY <2>1, Joined, Zenon
  <2>3. Len(f) = Len(tasks) /\ Len(t) = n
    BY <1>4, <1>6
  <2>. QED BY <2>2, <2>3, Zenon
<1>9. \A i \in DOMAIN (f \o t) : IsTask((f \o t)[i])
  BY <1>1, <1>2, <1>6, <1>8
<1>10. \A i \in DOMAIN tasks :
         i \in DOMAIN (f \o t) /\ (f \o t)[i] = IF Moves(p, i) THEN moved(i) ELSE tasks[i]
  <2>. HIDE DEF moved
  <2>. QED BY <1>1, <1>8
<1>11. \A i \in DOMAIN (f \o t) \ DOMAIN tasks :
         /\ i - Len(tasks) \in DOMAIN new
         /\ (f \o t)[i] = [item |-> new[i - Len(tasks)], plan |-> p, status |-> "not_started"]
  <2>1. \A i \in DOMAIN (f \o t) \ DOMAIN tasks :
          i - Len(tasks) \in DOMAIN t /\ (f \o t)[i] = t[i - Len(tasks)]
    BY <1>1, <1>4, <1>8
  <2>. QED BY <1>5, <1>6, <2>1
<1>12. \A k \in DOMAIN new : Len(tasks) + k \in DOMAIN (f \o t) \ DOMAIN tasks
  BY <1>0, <1>5, <1>8
<1>. QED BY <1>7, <1>8, <1>9, <1>10, <1>11, <1>12 DEF new

(* Reviewing plan p leaves what is struck as it is.                           *)
LEMMA MaterializeKeepsTheStruck ==
    ASSUME TypeInv, NEW p \in DOMAIN plans, NEW i \in DOMAIN tasks, Struck(tasks[i], p)
    PROVE  Materialized(p)[i] = tasks[i]
<1>1. Len(tasks) \in Nat /\ \A item : TrackedBy(p, item) \in SUBSET (0 .. Len(tasks))
  BY LenProperties DEF TypeInv, TrackedBy, Live
<1>2. \A item : TrackedBy(p, item) # {} => Max(TrackedBy(p, item)) \in TrackedBy(p, item)
  BY <1>1, MaxIsAMember
<1>3. ~Moves(p, i)
  BY <1>2 DEF Moves, TrackedBy, Live
<1>. QED BY <1>3, MaterializedTasks

(* After the review the tasks follow plan p.                                  *)
LEMMA MaterializeFollows ==
    ASSUME TypeInv, TaskInv, NEW p \in DOMAIN plans, ack <= p
    PROVE  TasksFollow(Materialized(p), p)
<1>. DEFINE ts == Materialized(p)
<1>. DEFINE new == InFilingOrder(Untracked(p))
<1>0. p \in Nat \ {0} /\ Len(tasks) \in Nat /\ DOMAIN tasks = 1 .. Len(tasks) /\ ack \in Nat
  BY LenProperties DEF TypeInv, Latest
<1>1. \A i \in DOMAIN tasks : Moves(p, i) <=> i \in Live(tasks, p)
  BY WhoFollows DEF Moves
<1>2. ASSUME NEW i \in DOMAIN tasks, i \in Live(tasks, p)
      PROVE  /\ i \in DOMAIN ts /\ ts[i].plan = p /\ ts[i].item \in Tracked(p)
             /\ Requirement(ts[i].item) = Requirement(tasks[i].item)
             /\ i \in TrackedBy(p, ts[i].item)
  <2>1. PICK item \in Tracked(p) : i \in TrackedBy(p, item)
    BY <1>2, WhoFollows
  <2>2. Requirement(tasks[i].item) = Requirement(item) /\ item \in plans[p].items
    BY <2>1 DEF TrackedBy, Tracked
  <2>3. Current(tasks[i], p) = item
    BY <2>2, CurrentIs
  <2>4. i \in DOMAIN ts /\ ts[i] = [tasks[i] EXCEPT !.plan = p, !.item = Current(tasks[i], p)]
    BY <1>1, <1>2, MaterializedTasks
  <2>5. IsTask(tasks[i])
    BY DEF TypeInv
  <2>6. ts[i].plan = p /\ ts[i].item = item
    BY <2>3, <2>4, <2>5 DEF IsTask, TaskFields
  <2>. QED BY <2>1, <2>2, <2>4, <2>6
<1>3. ASSUME NEW i \in DOMAIN tasks, i \notin Live(tasks, p)
      PROVE  /\ i \in DOMAIN ts /\ ts[i] = tasks[i] /\ Struck(ts[i], p)
             /\ ts[i].plan <= p /\ ts[i].plan # p
  <2>1. i \in DOMAIN ts /\ ts[i] = tasks[i]
    BY <1>1, <1>3, MaterializedTasks
  <2>2. Struck(tasks[i], p)
    BY <1>3 DEF Live
  <2>3. tasks[i].plan \in Nat /\ tasks[i].plan <= ack
    BY DEF TypeInv, IsTask, TaskInv, TasksFollow
  <2>. QED BY <1>0, <2>1, <2>2, <2>3 DEF Struck
<1>4. /\ DOMAIN new = 1 .. Cardinality(Untracked(p))
      /\ \A k \in DOMAIN new : new[k] \in Untracked(p)
      /\ \A item \in Untracked(p) : \E k \in DOMAIN new : new[k] = item
      /\ \A k, l \in DOMAIN new : new[k] = new[l] => k = l
  <2>1. /\ IsFiniteSet(plans[p].items) /\ LinesOf(plans[p].items)
        /\ Untracked(p) \in SUBSET plans[p].items
    BY PlanLines DEF Tracked, Untracked
  <2>2. IsFiniteSet(Untracked(p)) /\ LinesOf(Untracked(p))
    BY <2>1, FS_Subset DEF LinesOf
  <2>. QED BY <2>2, FilingOrderLists
<1>5. ASSUME NEW i \in DOMAIN ts \ DOMAIN tasks
      PROVE  /\ ts[i].plan = p /\ ts[i].item \in Untracked(p) /\ ts[i].item \in Tracked(p)
             /\ i - Len(tasks) \in DOMAIN new /\ ts[i].item = new[i - Len(tasks)]
  <2>1. /\ i - Len(tasks) \in DOMAIN new
        /\ ts[i] = [item |-> new[i - Len(tasks)], plan |-> p, status |-> "not_started"]
    BY MaterializedTasks
  <2>2. new[i - Len(tasks)] \in Untracked(p)
    BY <1>4, <2>1
  <2>. QED BY <2>1, <2>2 DEF Untracked
<1>6. \A i \in DOMAIN tasks : i \in DOMAIN ts
  BY <1>2, <1>3
<1>7. DOMAIN ts \subseteq Int
  <2>1. ts \in Seq(ToSet(ts))
    BY MaterializedTasks
  <2>. HIDE DEF ts
  <2>. QED BY <2>1, LenProperties
<1>8. ASSUME NEW k \in DOMAIN new
      PROVE  Len(tasks) + k \in DOMAIN ts \ DOMAIN tasks
  BY MaterializedTasks
<1>. HIDE DEF ts, new
<1>9. \A i \in DOMAIN ts :
         /\ ts[i].plan <= p
         /\ IF ts[i].plan = p THEN ts[i].item \in Tracked(p) ELSE Struck(ts[i], p)
  BY <1>0, <1>2, <1>3, <1>5
<1>10. ASSUME NEW i \in DOMAIN ts, NEW j \in DOMAIN ts, ts[i].plan = p, ts[j].plan = p,
              Requirement(ts[i].item) = Requirement(ts[j].item)
       PROVE  i = j
  <2>1. ts[i].item = ts[j].item
    <3>1. ts[i].item \in plans[p].items /\ ts[j].item \in plans[p].items
      BY <1>9, <1>10 DEF Tracked
    <3>. QED BY <1>10, <3>1, PlanLines, LinesAreApart
  <2>2. CASE i \in DOMAIN tasks /\ j \in DOMAIN tasks
    <3>1. i \in Live(tasks, p) /\ j \in Live(tasks, p)
      BY <1>3, <1>10, <2>2
    <3>2. i \in TrackedBy(p, ts[i].item) /\ j \in TrackedBy(p, ts[i].item) /\ ts[i].item \in Tracked(p)
      BY <1>2, <2>1, <2>2, <3>1
    <3>. QED BY <3>2, WhoFollows
  <2>3. CASE i \in DOMAIN tasks /\ j \notin DOMAIN tasks
    BY <1>2, <1>3, <1>5, <1>10, <2>1, <2>3 DEF Untracked
  <2>4. CASE i \notin DOMAIN tasks /\ j \in DOMAIN tasks
    BY <1>2, <1>3, <1>5, <1>10, <2>1, <2>4 DEF Untracked
  <2>5. CASE i \notin DOMAIN tasks /\ j \notin DOMAIN tasks
    <3>1. i - Len(tasks) = j - Len(tasks)
      BY <1>4, <1>5, <2>1, <2>5
    <3>. QED BY <1>0, <1>7, <3>1
  <2>. QED BY <2>2, <2>3, <2>4, <2>5
<1>11. ASSUME NEW item \in Tracked(p)
       PROVE  \E i \in DOMAIN ts : ts[i].plan = p /\ ts[i].item = item
  <2>1. CASE TrackedBy(p, item) = {}
    <3>1. PICK k \in DOMAIN new : new[k] = item
      BY <1>4, <2>1 DEF Untracked
    <3>2. Len(tasks) + k \in DOMAIN ts \ DOMAIN tasks /\ (Len(tasks) + k) - Len(tasks) = k
      BY <1>0, <1>4, <1>8
    <3>. QED BY <1>5, <3>1, <3>2
  <2>2. CASE TrackedBy(p, item) # {}
    <3>1. PICK i \in TrackedBy(p, item) : TRUE
      BY <2>2
    <3>2. /\ i \in DOMAIN tasks /\ i \in Live(tasks, p)
          /\ Requirement(tasks[i].item) = Requirement(item)
      BY DEF TrackedBy, Live
    <3>3. Requirement(ts[i].item) = Requirement(item) /\ ts[i].item \in plans[p].items
      BY <1>2, <3>2 DEF Tracked
    <3>4. ts[i].item = item
      BY <3>3, PlanLines, LinesAreApart DEF Tracked
    <3>. QED BY <1>2, <3>2, <3>4
  <2>. QED BY <2>1, <2>2
<1>12. TasksFollow(ts, p)
  BY <1>0, <1>9, <1>10, <1>11 DEF TasksFollow
<1>. QED BY <1>12 DEF ts

-----------------------------------------------------------------------------
(* Plans are only ever appended, so what is struck stays struck.              *)
LEMMA PlansOnlyGrow ==
    ASSUME TypeInv, \/ UNCHANGED <<plans, revision>>
                    \/ Generate
                    \/ EditEvent
    PROVE  /\ plans' \in Seq(PlanRows) /\ revision' \in Nat
           /\ Latest \in Nat /\ Latest' \in Nat /\ Latest <= Latest'
           /\ \A q \in 1 .. Latest : plans'[q] = plans[q]
<1>1. CASE UNCHANGED plans
  <2>1. revision' \in Nat
    BY <1>1 DEF TypeInv, EditEvent, Generate
  <2>. QED BY <1>1, <2>1, LenProperties DEF TypeInv, Latest
<1>2. CASE Generate
  <2>1. PICK c \in Contents : plans' = Append(plans, Plan(c, revision))
    BY <1>2 DEF Generate
  <2>2. Plan(c, revision) \in PlanRows
    BY DEF PlanRows, TypeInv
  <2>. QED BY <1>2, <2>1, <2>2, AppendProperties, LenProperties DEF TypeInv, Latest, Generate
<1>. QED BY <1>1, <1>2 DEF EditEvent

LEMMA StaysStruck ==
    ASSUME TypeInv, NEW i \in DOMAIN tasks, Struck(tasks[i], Latest),
           tasks'[i].item = tasks[i].item, tasks'[i].plan = tasks[i].plan,
           \/ UNCHANGED <<plans, revision>>
           \/ Generate
           \/ EditEvent
    PROVE  Struck(tasks[i], Latest)'
<1>1. PICK q \in (tasks[i].plan + 1) .. Latest : OmittedBy(tasks[i], q)
  BY DEF Struck
<1>2. tasks[i].plan \in Nat /\ Latest \in Nat
  BY LenProperties DEF TypeInv, IsTask, Latest
<1>3. q \in 1 .. Latest /\ q \in (tasks'[i].plan + 1) .. Latest'
  BY <1>1, <1>2, PlansOnlyGrow
<1>4. plans'[q] = plans[q]
  BY <1>3, PlansOnlyGrow
<1>5. \A item \in plans'[q].items : Requirement(item) # Requirement(tasks'[i].item)
  BY <1>1, <1>4 DEF OmittedBy, Requirement
<1>. QED BY <1>3, <1>5 DEF Struck, OmittedBy

-----------------------------------------------------------------------------
(* What a step does: nothing to the checklist and its alerts, a review, a     *)
(* status, or a tick of the poller.                                           *)
Aside ==
    /\ UNCHANGED <<tasks, ack, contacts, alerts>>
    /\ UNCHANGED <<plans, revision>> \/ Generate \/ EditEvent
    /\ today' \in {today, today + 1}

Reviewed(to) ==
    /\ Fresh
    /\ Reached(to) # {} => ~Unattributed(plans[Latest], Tracked(Latest), today)
    /\ tasks' = Materialized(Latest) /\ contacts' = to
    /\ alerts' = Scheduled(Latest, to) /\ ack' = Latest
    /\ UNCHANGED <<today, plans, revision>>

Worked(i) ==
    /\ \E s \in Statuses : tasks' = [tasks EXCEPT ![i].status = s]
    /\ UNCHANGED <<today, plans, revision, ack, contacts, alerts>>

LEMMA StepCases ==
    ASSUME [Next]_vars
    PROVE  \/ Aside
           \/ \E tab \in Tabs : \E to : tabs[tab].plan = Latest /\ Reviewed(to)
           \/ \E i \in DOMAIN tasks : Worked(i)
           \/ Deliver
<1>1. ASSUME NEW tab \in Tabs, Review(tab)
      PROVE  Aside \/ \E to : tabs[tab].plan = Latest /\ Reviewed(to)
  <2>1. CASE Superseded(tab)
    BY <1>1, <2>1 DEF Review, Superseded, Aside
  <2>2. CASE Accepted(tab)
    <3>1. PICK update \in Updates :
            LET to == Resolved(update)
            IN  /\ Fresh /\ tabs[tab].plan = Latest
                /\ Reached(to) # {} => ~Unattributed(plans[Latest], Tracked(Latest), today)
                /\ tasks' = Materialized(Latest)
                /\ contacts' = to
                /\ alerts' = Scheduled(Latest, to)
                /\ ack' = Latest
                /\ UNCHANGED tabs
      BY <2>2, Zenon DEF Accepted
    <3>2. UNCHANGED <<today, revision, plans>>
      BY <1>1 DEF Review
    <3>. QED BY <3>1, <3>2, Zenon DEF Reviewed
  <2>. QED BY <1>1, <2>1, <2>2 DEF Review
<1>2. ASSUME NEW tab \in Tabs, OpenPlan(tab) \/ BeginRead(tab) \/ EndRead(tab)
      PROVE  Aside
  BY <1>2 DEF OpenPlan, BeginRead, EndRead, Aside
<1>3. ASSUME NEW i \in DOMAIN tasks, SetStatus(i)
      PROVE  Worked(i)
  BY <1>3 DEF SetStatus, Worked
<1>4. CASE NextDay \/ Generate \/ EditEvent \/ UNCHANGED vars
  BY <1>4 DEF NextDay, Generate, EditEvent, vars, Aside
<1>. QED BY <1>1, <1>2, <1>3, <1>4 DEF Next

LEMMA StatusOnly ==
    ASSUME TypeInv, NEW i \in DOMAIN tasks, Worked(i)
    PROVE  /\ DOMAIN tasks' = DOMAIN tasks /\ tasks' \in Seq(ToSet(tasks'))
           /\ \A j \in DOMAIN tasks : /\ IsTask(tasks'[j]) /\ tasks'[j].item = tasks[j].item
                                      /\ tasks'[j].plan = tasks[j].plan
<1>1. /\ DOMAIN tasks' = DOMAIN tasks /\ Len(tasks) \in Nat /\ DOMAIN tasks = 1 .. Len(tasks)
      /\ \A j \in DOMAIN tasks : IsTask(tasks'[j]) /\ tasks'[j].item = tasks[j].item
                               /\ tasks'[j].plan = tasks[j].plan
  BY LenProperties DEF TypeInv, IsTask, TaskFields, Worked
<1>2. tasks' = [j \in 1 .. Len(tasks) |-> tasks'[j]]
  BY <1>1 DEF Worked
<1>3. tasks' \in Seq(ToSet(tasks'))
  BY <1>1, <1>2, ListsAreSequences
<1>. QED BY <1>1, <1>3

LEMMA TypesStay == ASSUME TypeInv, [Next]_vars PROVE TypeInv'
<1>1. CASE Aside
  BY <1>1, PlansOnlyGrow DEF TypeInv, Aside
<1>2. ASSUME NEW to, Reviewed(to) PROVE TypeInv'
  <2>1. Latest \in DOMAIN plans /\ Latest \in Nat /\ Latest' = Latest
    BY <1>2, LenProperties DEF TypeInv, Reviewed, Fresh, Latest
  <2>2. tasks' \in Seq(ToSet(tasks')) /\ \A i \in DOMAIN tasks' : IsTask(tasks'[i])
    BY <1>2, <2>1, MaterializedTasks DEF Reviewed
  <2>. QED BY <1>2, <2>1, <2>2 DEF TypeInv, IsTask, Reviewed
<1>3. ASSUME NEW i \in DOMAIN tasks, Worked(i) PROVE TypeInv'
  BY <1>3, StatusOnly DEF TypeInv, Latest, IsTask, Worked
<1>4. CASE Deliver
  BY <1>4 DEF Deliver, TypeInv, Latest, IsTask
<1>. QED BY <1>1, <1>2, <1>3, <1>4, StepCases

LEMMA StruckStay ==
    ASSUME TypeInv, [Next]_vars, NEW i \in DOMAIN tasks, Struck(tasks[i], Latest)
    PROVE  /\ tasks'[i].item = tasks[i].item /\ tasks'[i].plan = tasks[i].plan
           /\ Struck(tasks[i], Latest)'
<1>. DEFINE kept == /\ tasks'[i].item = tasks[i].item /\ tasks'[i].plan = tasks[i].plan
                    /\ UNCHANGED <<plans, revision>> \/ Generate \/ EditEvent
<1>1. kept
  <2>1. CASE Aside \/ Deliver
    BY <2>1 DEF Aside, Deliver
  <2>2. ASSUME NEW to, Reviewed(to) PROVE kept
    <3>1. Latest \in DOMAIN plans
      BY <2>2, LenProperties DEF TypeInv, Reviewed, Fresh, Latest
    <3>. QED BY <2>2, <3>1, MaterializeKeepsTheStruck DEF Reviewed
  <2>3. ASSUME NEW j \in DOMAIN tasks, Worked(j) PROVE kept
    BY <2>3, StatusOnly DEF Worked
  <2>. QED BY <2>1, <2>2, <2>3, StepCases
<1>. QED BY <1>1, StaysStruck

-----------------------------------------------------------------------------
(* The tasks follow the plan that was reviewed, whatever happens in between.  *)
LEMMA TasksStay ==
    ASSUME TypeInv, TaskInv, ack' = ack, UNCHANGED <<plans, revision>> \/ Generate \/ EditEvent,
           DOMAIN tasks' = DOMAIN tasks,
           \A i \in DOMAIN tasks : tasks'[i].item = tasks[i].item /\ tasks'[i].plan = tasks[i].plan
    PROVE  TaskInv'
<1>1. /\ Latest \in Nat /\ ack \in 0 .. Latest
      /\ \A q \in 1 .. ack : plans'[q] = plans[q]
  BY PlansOnlyGrow DEF TypeInv
<1>2. ack # 0 => Tracked(ack)' = Tracked(ack)
  <2>1. ack # 0 => plans'[ack'] = plans[ack]
    BY <1>1
  <2>. QED BY <2>1 DEF Tracked
<1>3. ASSUME NEW i \in DOMAIN tasks, Struck(tasks[i], ack) PROVE Struck(tasks[i], ack)'
  <2>1. PICK q \in (tasks[i].plan + 1) .. ack :
          \A item \in plans[q].items : Requirement(item) # Requirement(tasks[i].item)
    BY <1>3 DEF Struck, OmittedBy
  <2>2. tasks[i].plan \in Nat
    BY DEF TypeInv, IsTask
  <2>3. q \in (tasks'[i].plan + 1) .. ack' /\ plans'[q] = plans[q]
    BY <1>1, <2>1, <2>2
  <2>. QED BY <2>1, <2>3 DEF Struck, OmittedBy, Requirement
<1>4. ack = 0 => DOMAIN tasks = {}
  BY DEF TaskInv, TasksFollow
<1>5. \A i \in DOMAIN tasks' :
        /\ tasks'[i].plan <= ack'
        /\ IF tasks'[i].plan = ack' THEN tasks'[i].item \in Tracked(ack)'
           ELSE Struck(tasks[i], ack)'
  BY <1>2, <1>3, <1>4 DEF TaskInv, TasksFollow
<1>6. \A i, j \in DOMAIN tasks' :
         /\ tasks'[i].plan = ack' /\ tasks'[j].plan = ack'
         /\ Requirement(tasks'[i].item) = Requirement(tasks'[j].item)
         => i = j
  BY DEF TaskInv, TasksFollow, Requirement
<1>7. ack' # 0 => \A item \in Tracked(ack)' :
         \E i \in DOMAIN tasks' : tasks'[i].plan = ack' /\ tasks'[i].item = item
  <2>1. ack # 0 => \A item \in Tracked(ack) :
         \E i \in DOMAIN tasks : tasks[i].plan = ack /\ tasks[i].item = item
    BY DEF TaskInv, TasksFollow
  <2>. QED BY <1>2, <2>1
<1>8. TasksFollow(tasks, ack)'
  BY <1>4, <1>5, <1>6, <1>7 DEF TasksFollow, Requirement
<1>. QED BY <1>8 DEF TaskInv

LEMMA TaskInvStays == ASSUME TypeInv, TaskInv, [Next]_vars PROVE TaskInv'
<1>1. CASE Aside
  BY <1>1, TasksStay DEF Aside
<1>2. ASSUME NEW to, Reviewed(to) PROVE TaskInv'
  <2>1. Latest \in DOMAIN plans /\ Latest \in Nat /\ ack <= Latest
    BY <1>2, LenProperties DEF TypeInv, Reviewed, Fresh, Latest
  <2>2. TasksFollow(Materialized(Latest), Latest)
    BY <2>1, MaterializeFollows
  <2>3. tasks' = Materialized(Latest) /\ ack' = Latest /\ plans' = plans
    BY <1>2 DEF Reviewed
  <2>4. TasksFollow(tasks, ack)'
    BY <2>2, <2>3 DEF TasksFollow, Tracked, Struck, OmittedBy, Requirement
  <2>. QED BY <2>4 DEF TaskInv
<1>3. ASSUME NEW i \in DOMAIN tasks, Worked(i) PROVE TaskInv'
  BY <1>3, StatusOnly, TasksStay DEF Worked
<1>4. CASE Deliver
  BY <1>4, TasksStay DEF Deliver
<1>. QED BY <1>1, <1>2, <1>3, <1>4, StepCases

(* Live tasks say what was reviewed.                                          *)
LEMMA LiveTasksWereReviewed ==
    ASSUME TypeInv, TaskInv, ack # 0, NEW i \in Live(tasks, Latest),
           NEW was \in plans[ack].items, Requirement(was) = Requirement(tasks[i].item)
    PROVE  tasks[i].plan = ack /\ tasks[i].item = was
<1>1. Latest \in DOMAIN plans /\ ack \in DOMAIN plans /\ ack <= Latest
  BY LenProperties DEF TypeInv, Latest
<1>2. tasks[i].plan = ack /\ tasks[i].item \in plans[ack].items
  BY <1>1, LiveTasks DEF Tracked
<1>. QED BY <1>1, <1>2, PlanLines, LinesAreApart

LEMMA MovesAreTold == TypeInv /\ TaskInv => MovedDateIsTold
<1>. SUFFICES ASSUME TypeInv, TaskInv, ack # 0, NEW i \in Live(tasks, Latest),
                     NEW was \in plans[ack].items,
                     Requirement(was) = Requirement(tasks[i].item),
                     LET is == Current(tasks[i], Latest)
                     IN  \/ Window(was).applyBy # Window(is).applyBy
                         \/ Window(was).deadline # Window(is).deadline
              PROVE  NoticeOf(tasks[i], Latest) # NoNotice
  BY DEF MovedDateIsTold
<1>. DEFINE is == Current(tasks[i], Latest)
<1>1. tasks[i].plan = ack /\ tasks[i].item = was /\ ~Struck(tasks[i], Latest)
  BY LiveTasksWereReviewed DEF Live
<1>2. tasks[i].plan # Latest
  <2>. SUFFICES ASSUME tasks[i].plan = Latest PROVE FALSE
    OBVIOUS
  <2>1. Latest \in DOMAIN plans /\ was \in plans[Latest].items
    <3>1. ack = Latest
      BY <1>1
    <3>2. Latest \in Nat \ {0} /\ DOMAIN plans = 1 .. Latest
      BY <3>1, LenProperties DEF TypeInv, Latest
    <3>. QED BY <3>1, <3>2
  <2>2. is = was
    BY <2>1, CurrentIs
  <2>. QED BY <2>2
<1>3. NoticeOf(tasks[i], Latest) = MovedDeadlineNotice(was, is)
  BY <1>1, <1>2 DEF NoticeOf
<1>. HIDE DEF is
<1>4. CASE Window(was).applyBy # Window(is).applyBy
  <2>1. DateChange(was, is) # "none"
    BY <1>4 DEF DateChange
  <2>. QED BY <1>3, <2>1 DEF MovedDeadlineNotice, NoNotice
<1>5. CASE Window(was).deadline # Window(is).deadline
  <2>1. StateSide(was) # StateSide(is)
    BY <1>5 DEF StateSide
  <2>. QED BY <1>3, <2>1 DEF MovedDeadlineNotice, NoNotice
<1>. QED BY <1>4, <1>5 DEF is

(* One task follows each requirement of the reviewed plan.                    *)
LEMMA OneTaskEach ==
    ASSUME TypeInv, TaskInv, ack # 0, NEW item \in Tracked(ack)
    PROVE  Cardinality({i \in DOMAIN tasks : tasks[i].plan = ack /\ tasks[i].item = item}) = 1
<1>1. PICK i \in DOMAIN tasks : tasks[i].plan = ack /\ tasks[i].item = item
  BY DEF TaskInv, TasksFollow
<1>2. \A j \in DOMAIN tasks : tasks[j].plan = ack /\ tasks[j].item = item => j = i
  BY <1>1 DEF TaskInv, TasksFollow
<1>3. {j \in DOMAIN tasks : tasks[j].plan = ack /\ tasks[j].item = item} = {i}
  BY <1>1, <1>2
<1>. QED BY <1>3, FS_Singleton

-----------------------------------------------------------------------------
(* What a line is scheduled as.                                               *)
LEMMA WholeFields ==
    ASSUME NEW item
    PROVE  LET s == WholeLine(item)
           IN  /\ s.rule = Attribution(item) /\ s.first = item.rules[1] /\ s.routed = FALSE
               /\ s.applyBy = item.applyBy /\ s.disposition = item.disposition
               /\ s.research = item.research
BY DEF WholeLine

LEMMA RouteFields ==
    ASSUME NEW item, NEW r
    PROVE  LET s == RouteSubject(item, r)
           IN  /\ s.rule = r.rule /\ s.first = r.rule /\ s.routed = TRUE
               /\ s.applyBy = r.applyBy /\ s.research = item.research
BY DEF RouteSubject

LEMMA Subjects ==
    ASSUME NEW item, IsLine(item), NEW s \in FilingSubjects(item)
    PROVE  /\ s.rule # None => s.rule \in ToSet(item.rules) /\ s.first = s.rule
           /\ s.applyBy \in Nat \cup {None} /\ s.routed \in BOOLEAN
           /\ ~s.routed => s.applyBy = item.applyBy
           /\ s.research = item.research
           /\ item.routes = <<>> => s.disposition = item.disposition
           /\ \A t \in FilingSubjects(item) : s.rule = t.rule => s = t
<1>1. CASE Len(item.routes) < 2
  <2>1. \A t \in FilingSubjects(item) : t = WholeLine(item)
    BY <1>1 DEF FilingSubjects, AlertSubjects
  <2>2. s = WholeLine(item)
    BY <2>1
  <2>3. \/ Attribution(item) = None
        \/ /\ Attribution(item) \in ToSet(item.rules)
           /\ item.rules[1] = Attribution(item)
    <3>1. item.rules \in Seq(Nat) /\ None \notin ToSet(item.rules)
      BY RulesAreOfOneLine, ElementOfSeq DEF IsLine, ToSet
    <3>2. Len(item.rules) = 1 \/ item.lead = None
      BY <1>1 DEF IsLine
    <3>3. CASE Len(item.rules) = 1
      BY <3>3, FirstRule DEF Attribution
    <3>4. CASE Len(item.rules) # 1
      BY <3>1, <3>2, <3>4 DEF Attribution
    <3>. QED BY <3>3, <3>4
  <2>4. item.applyBy \in Nat \cup {None}
    BY DEF IsLine
  <2>. QED BY <2>1, <2>2, <2>3, <2>4, WholeFields
<1>2. CASE ~(Len(item.routes) < 2)
  <2>1. \A t \in FilingSubjects(item) : \E r \in ToSet(item.routes) : t = RouteSubject(item, r)
    BY <1>2 DEF FilingSubjects, AlertSubjects
  <2>2. PICK r \in ToSet(item.routes) : s = RouteSubject(item, r)
    BY <2>1
  <2>3. r.rule \in ToSet(item.rules) /\ r.applyBy \in Nat \cup {None}
    BY DEF IsLine
  <2>4. ASSUME NEW t \in FilingSubjects(item), s.rule = t.rule PROVE s = t
    <3>1. PICK q \in ToSet(item.routes) : t = RouteSubject(item, q)
      BY <2>1
    <3>2. q.rule = r.rule
      BY <2>2, <2>4, <3>1, RouteFields
    <3>3. q = r
      BY <3>2 DEF IsLine, ToSet
    <3>. QED BY <2>2, <3>1, <3>3
  <2>5. item.routes # <<>>
    BY <1>2, EmptySeq
  <2>. QED BY <2>2, <2>3, <2>4, <2>5, RouteFields, ZenonT(40)
<1>. QED BY <1>1, <1>2

(* What an alert that a plan calls for is about.                              *)
IsWarning(a, p) ==
    /\ a.identity[1] = "slack_warning" /\ a.requirement = None
    /\ a.revision = plans[p].revision

IsAbout(a, item) ==
    /\ a.identity[1] # "slack_warning"
    /\ a.requirement = Requirement(item)
    /\ a.identity[3] \in ToSet(item.rules)
    /\ item.research => a.identity[3] \in a.body.confirms
    /\ (a.identity[1] = "deadline_reminder" /\ item.routes = <<>>)
         => (a.body.hedged <=> item.disposition # "required")
    /\ \E s \in FilingSubjects(item) :
         /\ s.rule = a.identity[3] /\ a.routed = s.routed
         /\ a.window = IF s.routed THEN s.applyBy ELSE None

LEMMA ReminderIsAbout ==
    ASSUME NEW plan, NEW item, IsLine(item), NEW s \in FilingSubjects(item), s.rule # None,
           NEW d, NEW day
    PROVE  IsAbout(Reminder(plan, item, s, d, day), item)
<1>. DEFINE a == Reminder(plan, item, s, d, day)
<1>1. /\ a.identity = <<"deadline_reminder", d, s.rule>> /\ a.requirement = Requirement(item)
      /\ a.routed = s.routed /\ a.window = IF s.routed THEN s.applyBy ELSE None
      /\ a.body.hedged = (s.disposition # "required")
      /\ s.research => s.first \in a.body.confirms
  BY DEF Reminder, ReminderCopy, SaysConfirm
<1>. HIDE DEF a
<1>3. /\ a.identity[1] = "deadline_reminder" /\ a.identity[3] = s.rule
      /\ s.rule \in ToSet(item.rules) /\ s.first = s.rule /\ s.research = item.research
      /\ item.routes = <<>> => s.disposition = item.disposition
  BY <1>1, Subjects
<1>2. IsAbout(a, item)
  <2>1. item.routes = <<>> => (a.body.hedged <=> item.disposition # "required")
    BY <1>1, <1>3
  <2>. QED BY <1>1, <1>3, <2>1 DEF IsAbout
<1>. QED BY <1>2 DEF a

LEMMA UnlockIsAbout ==
    ASSUME NEW plan, NEW item, IsLine(item), NEW s \in FilingSubjects(item), s.rule # None,
           NEW b, NEW day
    PROVE  IsAbout(Unlock(plan, item, s, b, day), item)
<1>. DEFINE a == Unlock(plan, item, s, b, day)
<1>1. /\ a.identity = <<"dependency_unlocked", 0, s.rule>> /\ a.requirement = Requirement(item)
      /\ a.routed = s.routed /\ a.window = IF s.routed THEN s.applyBy ELSE None
      /\ s.research => s.first \in a.body.confirms
  BY DEF Unlock, DependencyCopy, SaysConfirm
<1>. HIDE DEF a
<1>2. IsAbout(a, item)
  BY <1>1, Subjects DEF IsAbout
<1>. QED BY <1>2 DEF a

LEMMA PlannedAlertsAre ==
    ASSUME TypeInv, NEW p \in DOMAIN plans, ~Unattributed(plans[p], Tracked(p), today),
           NEW a \in PlannedAlerts(plans[p], Tracked(p), today)
    PROVE  IsWarning(a, p) \/ \E item \in Tracked(p) : IsAbout(a, item)
<1>1. CASE a \in SlackWarnings(plans[p], today)
  <2>1. a = SlackWarning(plans[p], today)
    BY <1>1 DEF SlackWarnings
  <2>. QED BY <2>1 DEF SlackWarning, IsWarning
<1>2. CASE a \notin SlackWarnings(plans[p], today)
  <2>1. PICK item \in Tracked(p) : \E s \in FilingSubjects(item) :
          \/ a \in Reminders(plans[p], item, s, today)
          \/ \E b \in Unlocking(plans[p], s, today) : a = Unlock(plans[p], item, s, b, today)
    BY <1>2 DEF PlannedAlerts
  <2>0. PICK s \in FilingSubjects(item) :
          \/ a \in Reminders(plans[p], item, s, today)
          \/ \E b \in Unlocking(plans[p], s, today) : a = Unlock(plans[p], item, s, b, today)
    BY <2>1
  <2>2. FilingOpen(s, today) \/ Unlocking(plans[p], s, today) # {}
    BY <2>0 DEF Reminders
  <2>3. s.rule # None
    BY <2>2 DEF Unattributed
  <2>4. IsLine(item)
    BY PlanLines DEF LinesOf, Tracked
  <2>5. CASE a \in Reminders(plans[p], item, s, today)
    <3>1. \E d : a = Reminder(plans[p], item, s, d, today)
      BY <2>5 DEF Reminders
    <3>. QED BY <2>3, <2>4, <3>1, ReminderIsAbout
  <2>6. CASE \E b \in Unlocking(plans[p], s, today) : a = Unlock(plans[p], item, s, b, today)
    BY <2>3, <2>4, <2>6, UnlockIsAbout
  <2>. QED BY <2>0, <2>5, <2>6
<1>. QED BY <1>1, <1>2

(* An alert names the task that follows its requirement.                      *)
LEMMA TaskNamed ==
    ASSUME TypeInv, NEW p \in DOMAIN plans, NEW ts, ts \in Seq(ToSet(ts)), TasksFollow(ts, p)
    PROVE  /\ TaskOf(ts, p, None) = 0
           /\ \A item \in Tracked(p) :
                LET i == TaskOf(ts, p, Requirement(item))
                IN  i # 0 /\ i \in DOMAIN ts /\ ts[i].plan = p /\ ts[i].item = item
<1>1. \A i \in DOMAIN ts : ts[i].plan = p => ts[i].item \in Tracked(p)
  BY DEF TasksFollow
<1>2. \A item \in Tracked(p) : item \in plans[p].items /\ Requirement(item) # None
  BY PlanLines DEF Tracked, LinesOf, IsLine
<1>3. DOMAIN ts = 1 .. Len(ts) /\ Len(ts) \in Nat
  BY LenProperties
<1>4. TaskOf(ts, p, None) = 0
  <2>1. {i \in DOMAIN ts : ts[i].plan = p /\ Requirement(ts[i].item) = None} = {}
    BY <1>1, <1>2
  <2>2. {0} \cup {} = {0} /\ {0} \in SUBSET (0 .. 0) /\ 0 \in Nat
    OBVIOUS
  <2>3. Max({0}) = 0
    BY <2>2, MaxIsAMember
  <2>. QED BY <2>1, <2>2, <2>3 DEF TaskOf
<1>5. ASSUME NEW item \in Tracked(p)
      PROVE  LET i == TaskOf(ts, p, Requirement(item))
             IN  i # 0 /\ i \in DOMAIN ts /\ ts[i].plan = p /\ ts[i].item = item
  <2>1. p # 0
    BY LenProperties DEF TypeInv
  <2>2. PICK i \in DOMAIN ts : ts[i].plan = p /\ ts[i].item = item
    BY <2>1 DEF TasksFollow
  <2>3. {j \in DOMAIN ts : ts[j].plan = p /\ Requirement(ts[j].item) = Requirement(item)} = {i}
    <3>1. \A j \in DOMAIN ts : ts[j].plan = p /\ Requirement(ts[j].item) = Requirement(item) => j = i
      BY <2>2 DEF TasksFollow
    <3>. QED BY <2>2, <3>1
  <2>4. {0} \cup {i} \in SUBSET (0 .. Len(ts)) /\ i > 0
    BY <1>3
  <2>5. Max({0} \cup {i}) = i
    <3>. DEFINE S == {0} \cup {i}
    <3>0. S # {} /\ i \in S /\ S \in SUBSET (0 .. Len(ts))
      BY <2>4
    <3>1. Max(S) \in S /\ i <= Max(S)
      <4>. HIDE DEF S
      <4>. QED BY <1>3, <3>0, MaxIsAMember
    <3>. DEFINE m == Max(S)
    <3>2. m \in S /\ i <= m
      BY <3>1
    <3>. HIDE DEF m
    <3>3. m = 0 \/ m = i
      BY <3>2
    <3>4. m = i
      BY <2>4, <3>2, <3>3
    <3>. QED BY <3>4 DEF m
  <2>6. TaskOf(ts, p, Requirement(item)) = i
    BY <2>3, <2>5 DEF TaskOf
  <2>. QED BY <2>2, <2>4, <2>6
<1>. QED BY <1>4, <1>5

-----------------------------------------------------------------------------
(* The alerts that wait are of the reviewed plan, and none is missing.        *)
RowFields ==
    {"status", "send", "intended", "task", "routed", "window", "revision", "body"}

RowIsOf(k, row, ts, p, to) ==
    /\ k.recipient = to[k.channel]
    /\ IF row.task = 0
       THEN k.identity[1] = "slack_warning" /\ row.revision = plans[p].revision
       ELSE /\ row.task \in DOMAIN ts /\ ts[row.task].plan = p
            /\ ts[row.task].item \in Tracked(p)
            /\ k.identity[3] \in ToSet(ts[row.task].item.rules)
            /\ ts[row.task].item.research => k.identity[3] \in row.body.confirms
            /\ (k.identity[1] = "deadline_reminder" /\ ts[row.task].item.routes = <<>>)
                 => (row.body.hedged <=> ts[row.task].item.disposition # "required")
            /\ \E s \in FilingSubjects(ts[row.task].item) :
                  /\ s.rule = k.identity[3] /\ row.routed = s.routed
                  /\ row.window = IF s.routed THEN s.applyBy ELSE None

AlertInv ==
    /\ \A k \in DOMAIN alerts : DOMAIN alerts[k] = RowFields
    /\ \A k \in Waiting : ack # 0 /\ RowIsOf(k, alerts[k], tasks, ack, contacts)

ReminderKey(c, days, s, to) ==
    [identity |-> <<"deadline_reminder", days, s.rule>>, channel |-> c, recipient |-> to[c]]

HasRows(rows, item, to) ==
    \A c \in Reached(to), days \in RemindBefore, s \in FilingSubjects(item) :
        FilingOpen(s, today) =>
            /\ ReminderKey(c, days, s, to) \in DOMAIN rows
            /\ rows[ReminderKey(c, days, s, to)].status # "cancelled"

RemindInv == ack # 0 => \A item \in Tracked(ack) : HasRows(alerts, item, contacts)

IInv == TypeInv /\ TaskInv /\ AlertInv /\ RemindInv

LEMMA UpsertedRow ==
    ASSUME NEW key, NEW a, NEW ts, NEW p
    PROVE  LET row == Upserted(key, a, ts, p)
           IN  \/ /\ key \in DOMAIN alerts /\ alerts[key].status = "sent"
                  /\ row = alerts[key]
               \/ /\ DOMAIN row = RowFields /\ row.status = "waiting"
                  /\ row.task = TaskOf(ts, p, a.requirement) /\ row.routed = a.routed
                  /\ row.window = a.window /\ row.revision = a.revision /\ row.body = a.body
<1>. DEFINE held == [status |-> "waiting", send |-> a.send, intended |-> a.intended,
                 task |-> TaskOf(ts, p, a.requirement), routed |-> a.routed,
                 window |-> a.window, revision |-> a.revision, body |-> a.body]
<1>. DEFINE again == [held EXCEPT
                !.send = IF FreshSchedule(alerts[key], a) THEN @ ELSE alerts[key].send]
<1>1. Upserted(key, a, ts, p) =
        IF key \notin DOMAIN alerts THEN held
        ELSE IF alerts[key].status = "sent" THEN alerts[key] ELSE again
  BY DEF Upserted
<1>2. ASSUME NEW row \in {held, again}
      PROVE  /\ DOMAIN row = RowFields /\ row.status = "waiting"
             /\ row.task = TaskOf(ts, p, a.requirement) /\ row.routed = a.routed
             /\ row.window = a.window /\ row.revision = a.revision /\ row.body = a.body
  BY DEF RowFields
<1>. HIDE DEF held, again
<1>. QED BY <1>1, <1>2

LEMMA DroppedRow ==
    ASSUME NEW row, DOMAIN row = RowFields
    PROVE  DOMAIN Dropped(row) = RowFields /\ Dropped(row).status # "waiting"
BY DEF Dropped, RowFields

(* A review schedules the alerts of its plan and drops what else waits.       *)
LEMMA ScheduledRows ==
    ASSUME TypeInv, TaskInv, AlertInv, NEW p \in DOMAIN plans, ack <= p, NEW to,
           Reached(to) # {} => ~Unattributed(plans[p], Tracked(p), today)
    PROVE  LET rows == Scheduled(p, to)
           IN  /\ \A k \in DOMAIN rows :
                    /\ DOMAIN rows[k] = RowFields
                    /\ rows[k].status = "waiting" => RowIsOf(k, rows[k], Materialized(p), p, to)
               /\ \A item \in Tracked(p) : HasRows(rows, item, to)
<1>. DEFINE rows == Scheduled(p, to)
<1>. DEFINE ts == Materialized(p)
<1>. DEFINE planned == Planned(p, to)
<1>. DEFINE keys == {Key(a, c, to) : a \in planned, c \in Reached(to)}
<1>. DEFINE chosen(k) == CHOOSE a \in planned : a.identity = k.identity
<1>1. /\ DOMAIN rows = DOMAIN alerts \cup keys
      /\ \A k \in DOMAIN rows :
           rows[k] = IF k \in keys THEN Upserted(k, chosen(k), ts, p) ELSE Dropped(alerts[k])
  BY DEF Scheduled
<1>2. ASSUME NEW k \in keys
      PROVE  /\ chosen(k) \in planned /\ chosen(k).identity = k.identity
             /\ k.recipient = to[k.channel] /\ Reached(to) # {}
  BY DEF Key
<1>3. TasksFollow(ts, p) /\ ts \in Seq(ToSet(ts))
  BY MaterializeFollows, MaterializedTasks
<1>4. ASSUME NEW k \in keys, NEW row, NEW a \in planned, a.identity = k.identity,
             row.task = TaskOf(ts, p, a.requirement), row.routed = a.routed,
             row.window = a.window, row.revision = a.revision, row.body = a.body
      PROVE  RowIsOf(k, row, ts, p, to)
  <2>0. k.recipient = to[k.channel] /\ Reached(to) # {}
    BY <1>2
  <2>1. a \in PlannedAlerts(plans[p], Tracked(p), today)
    BY <2>0 DEF Planned
  <2>2. IsWarning(a, p) \/ \E item \in Tracked(p) : IsAbout(a, item)
    BY <2>0, <2>1, PlannedAlertsAre
  <2>. HIDE DEF ts, keys, planned
  <2>3. CASE IsWarning(a, p)
    <3>1. TaskOf(ts, p, None) = 0
      BY <1>3, TaskNamed
    <3>. QED BY <1>4, <2>0, <2>3, <3>1 DEF IsWarning, RowIsOf
  <2>4. ASSUME NEW item \in Tracked(p), IsAbout(a, item) PROVE RowIsOf(k, row, ts, p, to)
    <3>1. a.requirement = Requirement(item)
      BY <2>4 DEF IsAbout
    <3>2. row.task # 0 /\ row.task \in DOMAIN ts /\ ts[row.task].plan = p /\ ts[row.task].item = item
      BY <1>3, <1>4, <3>1, TaskNamed
    <3>3. /\ k.identity[3] \in ToSet(item.rules)
          /\ item.research => k.identity[3] \in row.body.confirms
          /\ (k.identity[1] = "deadline_reminder" /\ item.routes = <<>>)
               => (row.body.hedged <=> item.disposition # "required")
          /\ \E s \in FilingSubjects(item) :
               /\ s.rule = k.identity[3] /\ row.routed = s.routed
               /\ row.window = IF s.routed THEN s.applyBy ELSE None
      BY <1>4, <2>4 DEF IsAbout
    <3>. QED BY <2>0, <3>2, <3>3 DEF RowIsOf
  <2>. QED BY <2>2, <2>3, <2>4
<1>5. ASSUME NEW k \in DOMAIN rows
      PROVE  /\ DOMAIN rows[k] = RowFields
             /\ rows[k].status = "waiting" => RowIsOf(k, rows[k], ts, p, to)
  <2>1. CASE k \in keys
    <3>1. rows[k] = Upserted(k, chosen(k), ts, p)
      BY <1>1, <2>1
    <3>2. chosen(k) \in planned /\ chosen(k).identity = k.identity
      BY <1>2, <2>1
    <3>. HIDE DEF rows, ts, planned, keys, chosen
    <3>3. CASE k \in DOMAIN alerts /\ alerts[k].status = "sent" /\ rows[k] = alerts[k]
      BY <3>3 DEF AlertInv
    <3>4. CASE /\ DOMAIN rows[k] = RowFields /\ rows[k].status = "waiting"
               /\ rows[k].task = TaskOf(ts, p, chosen(k).requirement)
               /\ rows[k].routed = chosen(k).routed
               /\ rows[k].window = chosen(k).window /\ rows[k].revision = chosen(k).revision
               /\ rows[k].body = chosen(k).body
      BY <1>4, <2>1, <3>2, <3>4
    <3>. QED BY <3>1, <3>3, <3>4, UpsertedRow
  <2>2. CASE k \notin keys
    <3>. HIDE DEF rows, keys, chosen
    <3>1. rows[k] = Dropped(alerts[k]) /\ k \in DOMAIN alerts
      BY <1>1, <1>5, <2>2
    <3>. QED BY <3>1, DroppedRow DEF AlertInv
  <2>. QED BY <2>1, <2>2
<1>6. ASSUME NEW item \in Tracked(p), NEW c \in Reached(to), NEW days \in RemindBefore,
             NEW s \in FilingSubjects(item), FilingOpen(s, today)
      PROVE  /\ ReminderKey(c, days, s, to) \in DOMAIN rows
             /\ rows[ReminderKey(c, days, s, to)].status # "cancelled"
  <2>. DEFINE k == ReminderKey(c, days, s, to)
  <2>. DEFINE a == Reminder(plans[p], item, s, days, today)
  <2>1. a \in planned
    <3>1. a \in Reminders(plans[p], item, s, today)
      BY <1>6 DEF Reminders
    <3>2. a \in PlannedAlerts(plans[p], Tracked(p), today)
      <4>. HIDE DEF a
      <4>. QED BY <3>1 DEF PlannedAlerts
    <3>. QED BY <3>2 DEF Planned
  <2>2. Key(a, c, to) = k
    BY DEF Key, ReminderKey, Reminder
  <2>3. k \in keys
    BY <2>1, <2>2
  <2>4. rows[k] = Upserted(k, chosen(k), ts, p) /\ k \in DOMAIN rows
    BY <1>1, <2>3
  <2>. HIDE DEF rows, k, chosen, ts
  <2>5. rows[k].status \in {"sent", "waiting"}
    BY <2>4, UpsertedRow
  <2>. QED BY <2>4, <2>5 DEF k
<1>. QED BY <1>5, <1>6 DEF HasRows

(* No message for a window still open is kept back.                           *)
LEMMA ReminderStaysOpen ==
    ASSUME IInv, ack # 0, NEW item \in Tracked(ack), NEW c \in Reached(contacts),
           NEW days \in RemindBefore, NEW s \in FilingSubjects(item), FilingOpen(s, today),
           ReminderKey(c, days, s, contacts) \in Waiting
    PROVE  ~WindowHasShut(alerts[ReminderKey(c, days, s, contacts)])
<1>. DEFINE k == ReminderKey(c, days, s, contacts)
<1>. DEFINE row == alerts[k]
<1>1. k.identity = <<"deadline_reminder", days, s.rule>>
  BY DEF ReminderKey
<1>2. RowIsOf(k, row, tasks, ack, contacts)
  BY DEF IInv, AlertInv
<1>. HIDE DEF k, row
<1>. DEFINE its == tasks[row.task].item
<1>3. /\ row.task # 0 /\ its \in Tracked(ack) /\ s.rule \in ToSet(its.rules)
      /\ \E t \in FilingSubjects(its) :
           /\ t.rule = s.rule /\ row.routed = t.routed
           /\ row.window = IF t.routed THEN t.applyBy ELSE None
  BY <1>1, <1>2 DEF RowIsOf
<1>. HIDE DEF its
<1>4. ack \in DOMAIN plans
  BY LenProperties DEF IInv, TypeInv, Latest
<1>5. IsLine(item) /\ IsLine(its)
  BY <1>3, <1>4, PlanLines DEF IInv, Tracked, LinesOf
<1>6. s.rule \in ToSet(item.rules)
  <2>1. its.rules \in Seq(Nat)
    BY <1>5 DEF IsLine
  <2>2. s.rule # None
    BY <1>3, <2>1, RulesAreOfOneLine, ElementOfSeq DEF ToSet
  <2>. QED BY <1>5, <2>2, Subjects
<1>7. its = item
  <2>1. its \in plans[ack].items /\ item \in plans[ack].items
    BY <1>3 DEF Tracked
  <2>. QED BY <1>3, <1>4, <1>6, <2>1, PlanLines DEF IInv, LinesOf
<1>8. row.routed = s.routed /\ row.window = IF s.routed THEN s.applyBy ELSE None
  BY <1>3, <1>5, <1>7, Subjects
<1>9. s.applyBy # None /\ s.applyBy \in Nat /\ ~(s.applyBy < today) /\ s.routed \in BOOLEAN
      /\ (~s.routed => s.applyBy = tasks[row.task].item.applyBy)
  <2>1. s.applyBy # None /\ s.applyBy >= today
    BY DEF FilingOpen
  <2>2. s.applyBy \in Nat /\ today \in Nat
    BY <1>5, <2>1, Subjects DEF IInv, TypeInv
  <2>3. s.routed \in BOOLEAN /\ (~s.routed => s.applyBy = item.applyBy)
    BY <1>5, Subjects
  <2>. QED BY <1>7, <2>1, <2>2, <2>3 DEF its
<1>10. ~WindowHasShut(row)
  BY <1>8, <1>9 DEF WindowHasShut
<1>. QED BY <1>10 DEF row, k

(* What the poller and the organizer do in between leaves that so.            *)
LEMMA AlertsStay ==
    ASSUME IInv, ack' = ack, UNCHANGED contacts,
           UNCHANGED <<plans, revision>> \/ Generate \/ EditEvent,
           DOMAIN tasks' = DOMAIN tasks,
           \A i \in DOMAIN tasks : tasks'[i].item = tasks[i].item /\ tasks'[i].plan = tasks[i].plan,
           DOMAIN alerts' = DOMAIN alerts,
           \A k \in DOMAIN alerts :
              \/ alerts'[k] = alerts[k]
              \/ DOMAIN alerts'[k] = RowFields /\ alerts'[k].status # "waiting"
    PROVE  AlertInv'
<1>1. /\ Latest \in Nat /\ ack \in 0 .. Latest
      /\ \A q \in 1 .. Latest : plans'[q] = plans[q]
  BY PlansOnlyGrow DEF IInv, TypeInv
<1>2. ack # 0 => plans'[ack'] = plans[ack] /\ Tracked(ack)' = Tracked(ack)
  <2>1. ack # 0 => plans'[ack'] = plans[ack]
    BY <1>1
  <2>. QED BY <2>1 DEF Tracked
<1>3. ASSUME NEW k \in Waiting' PROVE ack' # 0 /\ RowIsOf(k, alerts[k], tasks, ack, contacts)'
  <2>1. k \in Waiting /\ alerts'[k] = alerts[k]
    BY <1>3 DEF Waiting
  <2>2. ack # 0 /\ RowIsOf(k, alerts[k], tasks, ack, contacts)
    BY <2>1 DEF IInv, AlertInv
  <2>3. RowIsOf(k, alerts[k], tasks, ack, contacts)'
    <3>1. CASE alerts[k].task = 0
      BY <1>2, <2>1, <2>2, <3>1 DEF RowIsOf
    <3>2. CASE alerts[k].task # 0
      <4>. DEFINE i == alerts[k].task
      <4>1. i \in DOMAIN tasks /\ tasks'[i].item = tasks[i].item /\ tasks'[i].plan = tasks[i].plan
        BY <2>2, <3>2 DEF RowIsOf
      <4>. QED BY <1>2, <2>1, <2>2, <3>2, <4>1 DEF RowIsOf
    <3>. QED BY <3>1, <3>2
  <2>. QED BY <2>2, <2>3
<1>4. \A k \in DOMAIN alerts' : DOMAIN alerts'[k] = RowFields
  BY DEF IInv, AlertInv
<1>. QED BY <1>3, <1>4 DEF AlertInv

LEMMA RemindersStay ==
    ASSUME IInv, ack' = ack, UNCHANGED contacts,
           UNCHANGED <<plans, revision>> \/ Generate \/ EditEvent,
           today' \in {today, today + 1},
           DOMAIN alerts' = DOMAIN alerts,
           \A k \in DOMAIN alerts :
              \/ alerts'[k] = alerts[k]
              \/ alerts'[k].status = "sent"
              \/ k \in Waiting /\ WindowHasShut(alerts[k])
    PROVE  RemindInv'
<1>1. /\ Latest \in Nat /\ ack \in 0 .. Latest /\ today \in Nat
      /\ \A q \in 1 .. Latest : plans'[q] = plans[q]
  BY PlansOnlyGrow DEF IInv, TypeInv
<1>2. ack # 0 => plans'[ack'] = plans[ack]
  BY <1>1
<1>3. ASSUME ack # 0, NEW item \in Tracked(ack), NEW c \in Reached(contacts),
             NEW days \in RemindBefore, NEW s \in FilingSubjects(item), FilingOpen(s, today')
      PROVE  /\ ReminderKey(c, days, s, contacts) \in DOMAIN alerts'
             /\ alerts'[ReminderKey(c, days, s, contacts)].status # "cancelled"
  <2>. DEFINE k == ReminderKey(c, days, s, contacts)
  <2>1. FilingOpen(s, today)
    <3>1. ack \in DOMAIN plans
      BY <1>1, <1>3, LenProperties DEF IInv, TypeInv, Latest
    <3>2. IsLine(item)
      BY <3>1, PlanLines DEF IInv, Tracked, LinesOf
    <3>. QED BY <1>1, <1>3, <3>2, Subjects DEF FilingOpen
  <2>2. k \in DOMAIN alerts /\ alerts[k].status # "cancelled"
    BY <1>3, <2>1 DEF IInv, RemindInv, HasRows
  <2>3. k \in Waiting => ~WindowHasShut(alerts[k])
    BY <1>3, <2>1, ReminderStaysOpen
  <2>. HIDE DEF k
  <2>4. alerts'[k].status # "cancelled"
    BY <2>2, <2>3
  <2>. QED BY <2>2, <2>4 DEF k
<1>4. ack' # 0 => \A item \in Tracked(ack)' : HasRows(alerts, item, contacts)'
  BY <1>2, <1>3 DEF HasRows, Tracked, Reached, ReminderKey
<1>. QED BY <1>4 DEF RemindInv

LEMMA TickRows ==
    ASSUME AlertInv, Deliver
    PROVE  /\ DOMAIN alerts' = DOMAIN alerts
           /\ \A k \in DOMAIN alerts :
                \/ alerts'[k] = alerts[k]
                \/ /\ k \in Waiting /\ DOMAIN alerts'[k] = RowFields
                   /\ \/ alerts'[k].status = "sent"
                      \/ alerts'[k].status = "cancelled" /\ WindowHasShut(alerts[k])
<1>1. DOMAIN alerts' = DOMAIN alerts
  BY DEF Deliver
<1>2. ASSUME NEW k \in DOMAIN alerts, Due(alerts[k])
      PROVE  /\ k \in Waiting /\ DOMAIN alerts'[k] = RowFields
             /\ \/ alerts'[k].status = "sent"
                \/ alerts'[k].status = "cancelled" /\ WindowHasShut(alerts[k])
  <2>1. alerts'[k] = [alerts[k] EXCEPT
                 !.status = IF WindowHasShut(alerts[k]) THEN "cancelled" ELSE "sent"]
    BY <1>2 DEF Deliver
  <2>2. DOMAIN alerts[k] = RowFields
    BY DEF AlertInv
  <2>3. DOMAIN alerts'[k] = RowFields
        /\ alerts'[k].status = IF WindowHasShut(alerts[k]) THEN "cancelled" ELSE "sent"
    BY <2>1, <2>2 DEF RowFields
  <2>. QED BY <1>2, <2>3 DEF Due, Waiting
<1>3. ASSUME NEW k \in DOMAIN alerts, ~Due(alerts[k]) PROVE alerts'[k] = alerts[k]
  BY <1>3 DEF Deliver
<1>. QED BY <1>1, <1>2, <1>3

LEMMA InvariantStays == ASSUME IInv, [Next]_vars PROVE IInv'
<1>1. TypeInv' /\ TaskInv'
  BY TypesStay, TaskInvStays DEF IInv
<1>2. CASE Aside
  <2>1. AlertInv'
    BY <1>2, AlertsStay DEF Aside
  <2>2. RemindInv'
    BY <1>2, RemindersStay DEF Aside
  <2>. QED BY <1>1, <2>1, <2>2 DEF IInv
<1>3. ASSUME NEW to, Reviewed(to) PROVE IInv'
  <2>. DEFINE p == Latest
  <2>1. p \in DOMAIN plans /\ p # 0 /\ ack <= p
    BY <1>3, LenProperties DEF IInv, TypeInv, Reviewed, Fresh, Latest
  <2>2. Reached(to) # {} => ~Unattributed(plans[p], Tracked(p), today)
    BY <1>3 DEF Reviewed
  <2>3. /\ alerts' = Scheduled(p, to) /\ tasks' = Materialized(p) /\ contacts' = to /\ ack' = p
        /\ plans' = plans /\ today' = today
    BY <1>3 DEF Reviewed
  <2>. HIDE DEF p
  <2>4. /\ \A k \in DOMAIN alerts' :
             /\ DOMAIN alerts'[k] = RowFields
             /\ alerts'[k].status = "waiting" => RowIsOf(k, alerts'[k], tasks', p, to)
        /\ \A item \in Tracked(p) : HasRows(alerts', item, to)
    BY <2>1, <2>2, <2>3, ScheduledRows DEF IInv
  <2>5. AlertInv'
    <3>1. \A k \in Waiting' : RowIsOf(k, alerts'[k], tasks', p, to)
      BY <2>4 DEF Waiting
    <3>2. \A k \in Waiting' : RowIsOf(k, alerts[k], tasks, ack, contacts)'
      BY <2>3, <3>1 DEF RowIsOf, Tracked
    <3>. QED BY <2>1, <2>3, <2>4, <3>2 DEF AlertInv
  <2>6. RemindInv'
    BY <2>3, <2>4 DEF RemindInv, HasRows, Tracked, Reached, ReminderKey
  <2>. QED BY <1>1, <2>5, <2>6 DEF IInv
<1>4. ASSUME NEW i \in DOMAIN tasks, Worked(i) PROVE IInv'
  <2>1. AlertInv'
    BY <1>4, StatusOnly, AlertsStay DEF Worked, IInv
  <2>2. RemindInv'
    BY <1>4, RemindersStay DEF Worked
  <2>. QED BY <1>1, <2>1, <2>2 DEF IInv
<1>5. CASE Deliver
  <2>0. UNCHANGED <<today, revision, plans, tasks, ack, contacts>>
    BY <1>5 DEF Deliver
  <2>1. AlertInv'
    BY <1>5, <2>0, TickRows, AlertsStay DEF IInv
  <2>2. RemindInv'
    BY <1>5, <2>0, TickRows, RemindersStay DEF IInv
  <2>. QED BY <1>1, <2>1, <2>2 DEF IInv
<1>. QED BY <1>2, <1>3, <1>4, <1>5, StepCases

LEMMA InitHolds == Init => IInv
<1>. SUFFICES ASSUME Init PROVE IInv
  OBVIOUS
<1>1. plans \in Seq(ToSet(plans)) /\ ToSet(plans) \subseteq PlanRows
  BY PlansAreFinite DEF Init, PlanRows
<1>2. plans \in Seq(PlanRows)
  BY <1>1, SeqMonotonic
<1>3. tasks \in Seq(ToSet(tasks)) /\ DOMAIN tasks = {}
  BY EmptySeq DEF Init
<1>4. TypeInv
  BY <1>2, <1>3, LenProperties DEF Init, TypeInv, Latest
<1>5. TaskInv
  BY <1>3 DEF Init, TaskInv, TasksFollow
<1>6. AlertInv /\ RemindInv
  BY DEF Init, AlertInv, RemindInv, Waiting
<1>. QED BY <1>4, <1>5, <1>6 DEF IInv

LEMMA Invariance == Spec => []IInv
<1>. QED BY InitHolds, InvariantStays, PTL DEF Spec

-----------------------------------------------------------------------------
(* A task struck through stays struck with the item it was dropped with,      *)
(* whatever later plans raise and whoever reviews them (materialize).         *)
THEOREM StruckStaysStruck == Spec => StruckIsTerminal
<1>1. IInv /\ [Next]_vars =>
        [\A i \in DOMAIN tasks :
           Struck(tasks[i], Latest) =>
              /\ tasks'[i].item = tasks[i].item /\ tasks'[i].plan = tasks[i].plan
              /\ Struck(tasks[i], Latest)']_vars
  BY StruckStay DEF IInv
<1>. QED BY <1>1, Invariance, PTL DEF Spec, StruckIsTerminal

(* What was reviewed moves forward only, to a plan that a tab displays and    *)
(* that is the newest and answers the event as it stands (POST /checklist).   *)
THEOREM ReviewsAreOfTheShownPlan == Spec => ReviewIsOfTheShownPlan
<1>1. ASSUME IInv, [Next]_vars, ack' # ack
      PROVE  /\ ack' > ack /\ ack' = Latest
             /\ \E tab \in Tabs : tabs[tab].plan = ack'
             /\ plans[ack'].revision = revision
  <2>1. ~Aside /\ ~Deliver /\ \A i : ~Worked(i)
    BY <1>1 DEF Aside, Deliver, Worked
  <2>2. PICK tab \in Tabs : tabs[tab].plan = Latest /\ \E to : Reviewed(to)
    BY <1>1, <2>1, StepCases
  <2>3. Fresh /\ ack' = Latest
    BY <2>2 DEF Reviewed
  <2>4. Latest \in Nat /\ ack \in 0 .. Latest
    BY <1>1, LenProperties DEF IInv, TypeInv, Latest
  <2>. QED BY <1>1, <2>2, <2>3, <2>4 DEF Fresh
<1>. QED BY <1>1, Invariance, PTL DEF Spec, ReviewIsOfTheShownPlan

(* What a tab is reading is a plan that exists.                               *)
TabInv ==
    /\ tabs \in [Tabs -> [at : {"idle", "rows"}, plan : Nat, read : Nat]]
    /\ \A tab \in Tabs : tabs[tab].at = "rows" => tabs[tab].read \in 1 .. Latest

LEMMA TabInvStays == ASSUME TypeInv, TabInv, [Next]_vars PROVE TabInv'
<1>0. Latest \in Nat /\ Latest' \in Nat /\ Latest <= Latest'
  <2>1. CASE Aside
    BY <2>1, PlansOnlyGrow DEF Aside
  <2>2. CASE UNCHANGED plans
    BY <2>2, LenProperties DEF TypeInv, Latest
  <2>. QED BY <2>1, <2>2, StepCases DEF Reviewed, Worked, Deliver
<1>1. ASSUME NEW tab \in Tabs, NEW p \in Nat, tabs' = [tabs EXCEPT ![tab] = Idle(p)]
      PROVE  TabInv'
  BY <1>0, <1>1 DEF TabInv, Idle
<1>2. ASSUME NEW tab \in Tabs, BeginRead(tab) PROVE TabInv'
  <2>. DEFINE next == [tabs[tab] EXCEPT !.at = "rows", !.read = Latest]
  <2>1. tabs' = [tabs EXCEPT ![tab] = next]
    BY <1>2 DEF BeginRead, TabInv
  <2>2. Latest \in 1 .. Latest'
    BY <1>0, <1>2 DEF BeginRead
  <2>3. next.read = Latest /\ next \in [at : {"idle", "rows"}, plan : Nat, read : Nat]
    BY <1>0 DEF TabInv
  <2>. HIDE DEF next
  <2>. QED BY <1>0, <2>1, <2>2, <2>3 DEF TabInv
<1>3. ASSUME NEW tab \in Tabs, EndRead(tab) PROVE TabInv'
  <2>1. tabs[tab].plan \in Nat /\ tabs[tab].read \in Nat
    BY DEF TabInv
  <2>. QED BY <1>1, <1>3, <2>1 DEF EndRead
<1>4. ASSUME NEW tab \in Tabs, OpenPlan(tab) \/ Superseded(tab) PROVE TabInv'
  BY <1>0, <1>1, <1>4 DEF OpenPlan, Superseded
<1>5. CASE UNCHANGED tabs
  BY <1>0, <1>5 DEF TabInv
<1>. QED
  BY <1>2, <1>3, <1>4, <1>5
     DEF Next, vars, Review, Accepted, SetStatus, Deliver, Generate, EditEvent, NextDay

LEMMA ReviewedTasksAreShown ==
    ASSUME TypeInv, TaskInv, NEW p \in DOMAIN plans, ack <= p
    PROVE  ~Incoherent(tasks, p)
<1>1. ASSUME NEW i \in Live(tasks, p), OmittedBy(tasks[i], p) PROVE FALSE
  <2>1. tasks[i].plan = p /\ tasks[i].item \in plans[p].items
    BY <1>1, LiveTasks DEF Tracked
  <2>. QED BY <1>1, <2>1 DEF OmittedBy
<1>. QED BY <1>1 DEF Incoherent

(* The checklist of the newest plan can always be shown, and a read in several *)
(* statements fails only beside a review of a plan newer than the one it began *)
(* with (GET /checklist).                                                      *)
THEOREM ReadsFailOnlyBesideReviews == Spec => []ChecklistCanBeRead
<1>1. Init => TabInv
  BY DEF Init, TabInv, Idle
<1>2. IInv /\ TabInv /\ [Next]_vars => TabInv'
  BY TabInvStays DEF IInv
<1>3. IInv /\ TabInv => ChecklistCanBeRead
  <2>. SUFFICES ASSUME IInv, TabInv PROVE ChecklistCanBeRead
    OBVIOUS
  <2>1. /\ TypeInv /\ TaskInv /\ Latest \in Nat /\ ack \in 0 .. Latest
        /\ DOMAIN plans = 1 .. Latest
    BY LenProperties DEF IInv, TypeInv, Latest
  <2>2. Latest > 0 => ~Incoherent(tasks, Latest)
    BY <2>1, ReviewedTasksAreShown
  <2>3. ASSUME NEW tab \in Tabs, tabs[tab].at = "rows", Incoherent(tasks, tabs[tab].read)
        PROVE  ack > tabs[tab].read
    <3>1. tabs[tab].read \in 1 .. Latest
      BY <2>3 DEF TabInv
    <3>2. ~(ack <= tabs[tab].read)
      BY <2>1, <2>3, <3>1, ReviewedTasksAreShown
    <3>. QED BY <2>1, <3>1, <3>2
  <2>. QED BY <2>2, <2>3 DEF ChecklistCanBeRead
<1>. QED BY <1>1, <1>2, <1>3, Invariance, PTL DEF Spec

(* The date an organizer reviewed for a requirement never changes on the      *)
(* checklist without a notice, however many plans came in between             *)
(* (movedDeadlineNotice, compared with the plan of the task's last review).   *)
THEOREM MovedDatesAreTold == Spec => []MovedDateIsTold
<1>1. IInv => MovedDateIsTold
  BY MovesAreTold DEF IInv
<1>. QED BY <1>1, Invariance, PTL

(* No alert waits for a task the last review struck, for a rule its task no   *)
(* longer names, for a destination the organizer replaced or to say more      *)
(* than the reviewed plan does (the upsert and the cancelling of the rest).   *)
THEOREM WaitingAlertsMatchTheReview == Spec => []WaitingAlertsAreOfTheReview
<1>1. ASSUME IInv, NEW k \in Waiting
      PROVE  LET row == alerts[k]
             IN  /\ k.recipient = contacts[k.channel]
                 /\ IF row.task = 0 THEN row.revision = plans[ack].revision
                    ELSE /\ tasks[row.task].plan = ack
                         /\ k.identity[3] \in ToSet(tasks[row.task].item.rules)
                         /\ SaysWhatThePlanSays(k, tasks[row.task].item)
  BY <1>1 DEF IInv, AlertInv, RowIsOf, SaysWhatThePlanSays
<1>2. IInv => WaitingAlertsAreOfTheReview
  BY <1>1 DEF WaitingAlertsAreOfTheReview
<1>. QED BY <1>2, Invariance, PTL

(* Every trackable requirement of the reviewed plan has exactly one task that *)
(* follows it and reminders of its dates on every channel, and every other    *)
(* task is struck, whatever ticks, edits, days and plans followed the review  *)
(* (materialize, the scheduler).                                              *)
THEOREM ReviewsAreCovered == Spec => []ReviewedPlanIsCovered
<1>1. ASSUME IInv, ack # 0, NEW item \in Tracked(ack)
      PROVE  /\ Cardinality({i \in DOMAIN tasks :
                               tasks[i].plan = ack /\ tasks[i].item = item}) = 1
             /\ HasReminders(item)
  <2>1. HasReminders(item)
    BY <1>1 DEF IInv, RemindInv, HasRows, HasReminders, ReminderKey
  <2>. QED BY <1>1, <2>1, OneTaskEach DEF IInv
<1>2. ASSUME IInv, NEW i \in DOMAIN tasks, tasks[i].plan # ack
      PROVE  Struck(tasks[i], ack)
  BY <1>2 DEF IInv, TaskInv, TasksFollow
<1>3. IInv => ReviewedPlanIsCovered
  BY <1>1, <1>2 DEF ReviewedPlanIsCovered
<1>. QED BY <1>3, Invariance, PTL

-----------------------------------------------------------------------------
(* What the two stores of an upload promise, for any requests, intents and   *)
(* faults, when an insert does not outlive its connection.                    *)
Stages ==
    {"idle", "put", "insert", "reread", "outcome", "remove", "answered", "dead"}

Answers ==
    {"none", "not_found", "invalid", "unavailable", "failed", "created", "exists",
     "conflict", "unknown"}

Sent == [pc : Stages, intent : Intents, answer : Answers, then : Answers]

UploadTypeInv == request \in [Requests -> Sent \cup {NotSent}]

(* A row is the one its own attempt inserted: the attempt has put its bytes,  *)
(* is past its insert and has not been told that it failed.                   *)
RowInv ==
    \A d \in DOMAIN documents :
        LET o == documents[d].object
        IN  /\ o \in Requests /\ o \in objects
            /\ request[o].pc \in {"outcome", "answered", "dead"}
            /\ request[o] \in Sent
            /\ d = DocumentId(o)
            /\ documents[d].operands = Operands(request[o].intent.body)
            /\ ~Told(o, "failed") /\ ~Told(o, "unavailable")

(* The bytes are there before the row that names them.                        *)
BytesInv == \A r \in Requests : At(r, "insert") => r \in objects

(* An attempt that waits to remove its bytes has no row, and answers "exists" *)
(* only for the document it sent.                                             *)
Backed(r) == Stored(r) /\ Row(r).operands = Operands(request[r].intent.body)

AnswerInv ==
    \A r \in Requests :
        /\ At(r, "remove") => request[r].then # "created"
        /\ At(r, "remove") /\ request[r].then = "exists" => Backed(r)
        /\ Told(r, "exists") => Backed(r)
        /\ Told(r, "created") => Backed(r) /\ Row(r).object = r

Settled == running = {}

UploadInv == UploadTypeInv /\ Settled /\ RowInv /\ BytesInv /\ AnswerInv

LEMMA UploadInitHolds == UploadInit => UploadInv
BY DEF UploadInit, UploadInv, UploadTypeInv, Settled, RowInv, BytesInv, AnswerInv, NotSent, At, Told

(* A step that leaves the tables alone and moves one request.                 *)
LEMMA TypeStep ==
    ASSUME UploadTypeInv, UploadNext PROVE UploadTypeInv'
<1>1. ASSUME NEW r \in Requests, Arrive(r) PROVE UploadTypeInv'
  <2>. DEFINE told(i, a) == [pc |-> "answered", intent |-> i, answer |-> a, then |-> "none"]
  <2>1. PICK i \in Intents : request' = [request EXCEPT ![r] =
            IF i.item \notin Items THEN told(i, "not_found")
            ELSE IF i.key # NoKey /\ <<i.item, i.key>> \in DOMAIN documents
                 THEN told(i, Committed(documents[<<i.item, i.key>>], i, "exists"))
            ELSE IF i.body \notin Genuine THEN told(i, "invalid")
            ELSE [pc |-> "put", intent |-> i, answer |-> "none", then |-> "none"]]
    BY <1>1 DEF Arrive
  <2>2. \A a \in Answers : told(i, a) \in Sent
    BY DEF Sent, Stages, Answers
  <2>3. Committed(documents[<<i.item, i.key>>], i, "exists") \in Answers
    BY DEF Committed, Answers
  <2>4. {"not_found", "invalid"} \subseteq Answers
    BY DEF Answers
  <2>5. [pc |-> "put", intent |-> i, answer |-> "none", then |-> "none"] \in Sent
    BY DEF Sent, Stages, Answers
  <2>. HIDE DEF told
  <2>. QED BY <2>1, <2>2, <2>3, <2>4, <2>5 DEF UploadTypeInv
<1>2. ASSUME NEW r \in Requests, UploadStep(r) \/ Failure(r) PROVE UploadTypeInv'
  <2>1. request[r] \in Sent \cup {NotSent}
    BY DEF UploadTypeInv
  <2>2. CASE Put(r)
    BY <2>1, <2>2 DEF Put, At, Goto, UploadTypeInv, Sent, Stages, Answers, NotSent
  <2>3. CASE Insert(r)
    BY <2>1, <2>3 DEF Insert, At, Goto, Answer, UploadTypeInv, Sent, Stages, Answers, NotSent
  <2>4. CASE Reread(r)
    <3>1. request[r] \in Sent
      BY <2>1, <2>4 DEF Reread, At, NotSent
    <3>2. Committed(Row(r), request[r].intent, "exists") \in Answers
      BY DEF Committed, Answers
    <3>3. \A a \in Answers : [request[r] EXCEPT !.pc = "remove", !.then = a] \in Sent
      BY <3>1 DEF Sent, Stages
    <3>. QED BY <2>4, <3>2, <3>3 DEF Reread, UploadTypeInv
  <2>5. CASE ReadOutcome(r)
    BY <2>1, <2>5 DEF ReadOutcome, At, Answer, Committed, UploadTypeInv, Sent, Stages, Answers, NotSent
  <2>6. CASE RemoveOrphan(r)
    <3>1. request[r] \in Sent
      BY <2>1, <2>6 DEF RemoveOrphan, At, NotSent
    <3>2. [request[r] EXCEPT !.pc = "answered", !.answer = request[r].then] \in Sent
      BY <3>1 DEF Sent, Stages
    <3>. QED BY <2>6, <3>2 DEF RemoveOrphan, Answer, UploadTypeInv
  <2>7. CASE Failure(r)
    BY <2>1, <2>7 DEF Failure, PutFails, InsertRefused, InsertUnanswered, RereadFails,
       RereadUnanswered, OutcomeUnknown, RemoveFails, At, Goto, Answer, UploadTypeInv, Sent,
       Stages, Answers, NotSent
  <2>. QED BY <1>2, <2>2, <2>3, <2>4, <2>5, <2>6, <2>7 DEF UploadStep
<1>3. ASSUME NEW r \in Requests, RunningInsertEnds(r) PROVE UploadTypeInv'
  BY <1>3 DEF RunningInsertEnds, UploadTypeInv
<1>4. CASE Crash
  BY <1>4 DEF Crash, InFlight, UploadTypeInv, Sent, Stages, Answers, NotSent
<1>. QED BY <1>1, <1>2, <1>3, <1>4 DEF UploadNext

-----------------------------------------------------------------------------
(* Every step either moves requests and leaves the table alone, or inserts    *)
(* the row of one attempt, which is past its insert then.                     *)
Stays(r) == request'[r] = request[r]

LEMMA Arrives ==
    ASSUME UploadInv, NEW r \in Requests, Arrive(r) PROVE UploadInv'
<1>. DEFINE told(i, a) == [pc |-> "answered", intent |-> i, answer |-> a, then |-> "none"]
<1>1. PICK i \in Intents : request' = [request EXCEPT ![r] =
          IF i.item \notin Items THEN told(i, "not_found")
          ELSE IF i.key # NoKey /\ <<i.item, i.key>> \in DOMAIN documents
               THEN told(i, Committed(documents[<<i.item, i.key>>], i, "exists"))
          ELSE IF i.body \notin Genuine THEN told(i, "invalid")
          ELSE [pc |-> "put", intent |-> i, answer |-> "none", then |-> "none"]]
  BY DEF Arrive
<1>2. \A q \in Requests \ {r} : Stays(q)
  BY <1>1 DEF Stays, UploadInv, UploadTypeInv
<1>3. UNCHANGED <<documents, objects, running>> /\ request[r].pc = "idle"
  BY DEF Arrive, At
<1>4. UploadTypeInv'
  BY TypeStep DEF UploadInv, UploadNext
<1>5. RowInv'
  BY <1>2, <1>3 DEF RowInv, UploadInv, Stays, DocumentId, Told
<1>6. request'[r].pc \in {"answered", "put"}
  BY <1>1 DEF UploadInv, UploadTypeInv
<1>7. BytesInv'
  BY <1>2, <1>3, <1>6 DEF BytesInv, UploadInv, Stays, At
<1>8. ASSUME Told(r, "exists")' \/ Told(r, "created")'
      PROVE Backed(r)' /\ Told(r, "exists")'
  <2>1. /\ request'[r].intent = i
        /\ i.key # NoKey /\ <<i.item, i.key>> \in DOMAIN documents
        /\ request'[r].answer = Committed(documents[<<i.item, i.key>>], i, "exists")
    BY <1>1, <1>8 DEF UploadInv, UploadTypeInv, Told
  <2>. QED BY <1>3, <1>8, <2>1 DEF Backed, Stored, Row, DocumentId, Committed, Told
<1>9. AnswerInv'
  <2>1. \A q \in Requests \ {r} : DocumentId(q)' = DocumentId(q)
    BY <1>2 DEF Stays, DocumentId
  <2>2. \A q \in Requests \ {r} : Backed(q)' = Backed(q) /\ Row(q)' = Row(q)
    BY <1>2, <1>3, <2>1 DEF Stays, Backed, Stored, Row
  <2>3. \A q \in Requests \ {r} :
          At(q, "remove")' = At(q, "remove") /\ \A a : Told(q, a)' = Told(q, a)
    BY <1>2 DEF Stays, At, Told
  <2>4. ~Told(r, "created")' /\ ~At(r, "remove")'
    BY <1>6, <1>8 DEF At, Told
  <2>. QED BY <1>2, <1>8, <2>2, <2>3, <2>4 DEF AnswerInv, UploadInv, Stays
<1>. QED BY <1>3, <1>4, <1>5, <1>7, <1>9 DEF UploadInv, Settled

(* One request that was sent moves on, with the table and its intent as they  *)
(* were; what it is told then is as true as the rows.                         *)
UploadMoves(r) ==
    /\ r \in Requests /\ request[r] \in Sent
    /\ request'[r].intent = request[r].intent
    /\ \A q \in Requests \ {r} : Stays(q)
    /\ UNCHANGED <<documents, running>>

LEMMA RowsStay ==
    ASSUME UploadInv, UploadTypeInv', NEW r \in Requests, UploadMoves(r),
           objects' = objects \/ objects' = objects \cup {r}
               \/ (objects' = objects \ {r} /\ At(r, "remove")),
           request[r].pc \in {"outcome", "answered", "dead"} =>
               /\ request'[r].pc \in {"outcome", "answered", "dead"} \/ ~Stored(r) \/ Row(r).object # r
               /\ ~Told(r, "failed")' /\ ~Told(r, "unavailable")'
    PROVE  RowInv'
BY DEF RowInv, UploadInv, UploadTypeInv, Sent, NotSent, UploadMoves, Stays, DocumentId, Told, At, Stored, Row

LEMMA AnswersStay ==
    ASSUME UploadInv, NEW r \in Requests, UploadMoves(r),
           At(r, "remove")' => request'[r].then # "created",
           At(r, "remove")' /\ request'[r].then = "exists" => Backed(r),
           Told(r, "exists")' => Backed(r),
           Told(r, "created")' => Backed(r) /\ Row(r).object = r
    PROVE  AnswerInv'
<1>1. \A q \in Requests : DocumentId(q)' = DocumentId(q)
  BY DEF UploadMoves, Stays, DocumentId
<1>2. \A q \in Requests : Backed(q)' = Backed(q) /\ Row(q)' = Row(q)
  BY <1>1 DEF UploadMoves, Stays, Backed, Stored, Row
<1>3. \A q \in Requests \ {r} :
        At(q, "remove")' = At(q, "remove") /\ \A a : Told(q, a)' = Told(q, a)
  BY DEF UploadMoves, Stays, At, Told
<1>. QED BY <1>2, <1>3 DEF AnswerInv, UploadInv, UploadMoves, Stays

(* An insert adds the attempt's row; no other row changes.                    *)
LEMMA Inserts ==
    ASSUME UploadInv, UploadTypeInv', NEW r \in Requests, At(r, "insert"), ~Stored(r),
           documents' = With(DocumentId(r), NewRow(r)),
           UNCHANGED <<objects, running>>,
           request'[r].intent = request[r].intent,
           \A q \in Requests \ {r} : Stays(q),
           At(r, "outcome")' \/ Told(r, "created")'
    PROVE  UploadInv'
<1>1. request[r] \in Sent /\ request'[r] \in Sent
  BY DEF UploadInv, UploadTypeInv, Sent, NotSent, At, Told
<1>2. DOMAIN documents' = DOMAIN documents \cup {DocumentId(r)}
  BY DEF With
<1>3. \A d \in DOMAIN documents : documents'[d] = documents[d]
  BY DEF With, Stored
<1>4. documents'[DocumentId(r)] = NewRow(r)
  BY DEF With
<1>5. DocumentId(r)' = DocumentId(r) /\ \A q \in Requests \ {r} : DocumentId(q)' = DocumentId(q)
  BY DEF DocumentId, Stays
<1>6. RowInv'
  <2>1. ASSUME NEW d \in DOMAIN documents
        PROVE  /\ documents'[d] = documents[d] /\ documents[d].object \in Requests \ {r}
    BY <1>3 DEF UploadInv, RowInv, At
  <2>2. r \in objects
    BY DEF UploadInv, BytesInv
  <2>3. /\ NewRow(r).object = r
        /\ NewRow(r).operands = Operands(request'[r].intent.body)
    BY DEF NewRow
  <2>. QED BY <1>1, <1>2, <1>4, <1>5, <2>1, <2>2, <2>3 DEF RowInv, UploadInv, Stays, Told, At
<1>7. BytesInv'
  BY DEF BytesInv, UploadInv, Stays, At, Told
<1>8. \A q \in Requests : Backed(q) => Backed(q)' /\ (Row(q).object = q => (Row(q).object = q)')
  BY <1>2, <1>3, <1>5 DEF Backed, Stored, Row, Stays
<1>9. Backed(r)' /\ (Row(r).object = r)'
  BY <1>2, <1>4, <1>5 DEF Backed, Stored, Row, NewRow
<1>10. AnswerInv'
  BY <1>8, <1>9 DEF AnswerInv, UploadInv, Stays, At, Told
<1>. QED BY <1>6, <1>7, <1>10 DEF UploadInv, Settled

LEMMA MoveKeepsIInv ==
    ASSUME UploadInv, UploadTypeInv', NEW r \in Requests, UploadMoves(r),
           objects' = objects \/ objects' = objects \cup {r}
               \/ (objects' = objects \ {r} /\ At(r, "remove")),
           request[r].pc \in {"outcome", "answered", "dead"} =>
               /\ request'[r].pc \in {"outcome", "answered", "dead"} \/ ~Stored(r) \/ Row(r).object # r
               /\ ~Told(r, "failed")' /\ ~Told(r, "unavailable")',
           At(r, "insert")' => r \in objects',
           At(r, "remove")' => request'[r].then # "created",
           At(r, "remove")' /\ request'[r].then = "exists" => Backed(r),
           Told(r, "exists")' => Backed(r),
           Told(r, "created")' => Backed(r) /\ Row(r).object = r
    PROVE  UploadInv'
<1>1. BytesInv'
  BY DEF BytesInv, UploadInv, UploadMoves, Stays, At
<1>2. RowInv' /\ AnswerInv'
  BY RowsStay, AnswersStay
<1>. QED BY <1>1, <1>2 DEF UploadInv, Settled, UploadMoves

LEMMA NextKeepsIInv ==
    ASSUME UploadInv, LateInserts = FALSE, UploadNext PROVE UploadInv'
<1>0. UploadTypeInv'
  BY TypeStep DEF UploadInv
<1>1. ASSUME NEW r \in Requests, Arrive(r) PROVE UploadInv'
  BY <1>1, Arrives
<1>2. ASSUME NEW r \in Requests, RunningInsertEnds(r) PROVE UploadInv'
  BY <1>2 DEF RunningInsertEnds, UploadInv, Settled
<1>3. ASSUME NEW r \in Requests, UploadStep(r) \/ Failure(r) PROVE UploadInv'
  <2>1. request[r] \in Sent \cup {NotSent}
    BY DEF UploadInv, UploadTypeInv
  <2>2. CASE Put(r)
    BY <2>1, <2>2, <1>0, MoveKeepsIInv
       DEF Put, At, Goto, UploadMoves, Stays, UploadInv, UploadTypeInv, Sent, NotSent, Told
  <2>3. CASE Insert(r)
    <3>1. CASE Stored(r)
      BY <2>1, <2>3, <3>1, <1>0, MoveKeepsIInv
         DEF Insert, At, Goto, UploadMoves, Stays, UploadInv, UploadTypeInv, Sent, NotSent, Told
    <3>2. CASE ~Stored(r)
      BY <2>1, <2>3, <3>2, <1>0, Inserts
         DEF Insert, At, Answer, Stays, UploadInv, UploadTypeInv, Sent, NotSent, Told
    <3>. QED BY <3>1, <3>2
  <2>4. CASE Reread(r)
    <3>. DEFINE found == Committed(Row(r), request[r].intent, "exists")
    <3>1. /\ Stored(r) /\ request[r].pc = "reread"
          /\ request' = [request EXCEPT ![r].pc = "remove", ![r].then = found]
          /\ UNCHANGED <<documents, objects, running>>
      BY <2>4 DEF Reread, At
    <3>2. request[r] \in Sent
      BY <2>1, <3>1 DEF NotSent
    <3>3. found # "created" /\ (found = "exists" => Backed(r))
      BY <3>1 DEF Committed, Backed
    <3>. HIDE DEF found
    <3>4. request'[r] = [request[r] EXCEPT !.pc = "remove", !.then = found]
      BY <3>1 DEF UploadInv, UploadTypeInv
    <3>5. /\ request'[r].pc = "remove" /\ request'[r].then = found
          /\ request'[r].intent = request[r].intent
      BY <3>2, <3>4 DEF Sent
    <3>6. UploadMoves(r)
      BY <3>1, <3>2, <3>5 DEF UploadMoves, Stays, UploadInv, UploadTypeInv
    <3>. QED BY <1>0, <3>1, <3>3, <3>5, <3>6, MoveKeepsIInv DEF At, Told
  <2>5. CASE ReadOutcome(r)
    BY <2>1, <2>5, <1>0, MoveKeepsIInv
       DEF ReadOutcome, At, Answer, Committed, Backed, UploadMoves, Stays, UploadInv, UploadTypeInv, Sent, NotSent, Told
  <2>6. CASE RemoveOrphan(r)
    BY <2>1, <2>6, <1>0, MoveKeepsIInv
       DEF RemoveOrphan, At, Answer, UploadMoves, Stays, UploadInv, UploadTypeInv, Sent, NotSent, Told, AnswerInv
  <2>7. CASE PutFails(r) \/ InsertRefused(r) \/ RereadFails(r) \/ RereadUnanswered(r)
    BY <2>1, <2>7, <1>0, MoveKeepsIInv
       DEF PutFails, InsertRefused, RereadFails, RereadUnanswered, At, Goto, UploadMoves, Stays, UploadInv,
           UploadTypeInv, Sent, NotSent, Told
  <2>8. CASE OutcomeUnknown(r) \/ RemoveFails(r)
    BY <2>1, <2>8, <1>0, MoveKeepsIInv
       DEF OutcomeUnknown, RemoveFails, At, Answer, UploadMoves, Stays, UploadInv, UploadTypeInv, Sent, NotSent,
           Told, AnswerInv
  <2>9. CASE InsertUnanswered(r)
    <3>1. CASE UNCHANGED <<documents, running>>
      BY <2>1, <2>9, <3>1, <1>0, MoveKeepsIInv
         DEF InsertUnanswered, At, Goto, UploadMoves, Stays, UploadInv, UploadTypeInv, Sent, NotSent, Told
    <3>2. CASE ~Stored(r) /\ documents' = With(DocumentId(r), NewRow(r)) /\ UNCHANGED running
      BY <2>1, <2>9, <3>2, <1>0, Inserts
         DEF InsertUnanswered, At, Goto, Stays, UploadInv, UploadTypeInv, Sent, NotSent, Told
    <3>. QED BY <2>9, <3>1, <3>2 DEF InsertUnanswered
  <2>. QED BY <1>3, <2>2, <2>3, <2>4, <2>5, <2>6, <2>7, <2>8, <2>9 DEF UploadStep, Failure
<1>4. CASE Crash
  <2>1. \A r \in Requests :
          \/ Stays(r)
          \/ /\ InFlight(r) /\ request[r] \in Sent
             /\ request'[r].pc = "dead" /\ request'[r].intent = request[r].intent
             /\ request'[r] \in Sent
    BY <1>4 DEF Crash, InFlight, Stays, UploadInv, UploadTypeInv, Sent, Stages, Answers, NotSent
  <2>2. UNCHANGED <<documents, objects, running>>
    BY <1>4 DEF Crash
  <2>3. \A r \in Requests : request[r].pc # "idle" => DocumentId(r)' = DocumentId(r)
    BY <2>1 DEF Stays, DocumentId
  <2>4. RowInv'
    BY <2>1, <2>2, <2>3 DEF RowInv, UploadInv, Stays, DocumentId, Told
  <2>5. BytesInv' /\ AnswerInv'
    BY <2>1, <2>2 DEF BytesInv, AnswerInv, UploadInv, Stays, DocumentId, Told, At, Backed, Stored, Row
  <2>. QED BY <1>0, <2>2, <2>4, <2>5 DEF UploadInv, Settled
<1>. QED BY <1>1, <1>2, <1>3, <1>4 DEF UploadNext

LEMMA StutterKeepsIInv == ASSUME UploadInv, UNCHANGED uploadVars PROVE UploadInv'
<1>1. UNCHANGED <<request, documents, objects, running>>
  BY DEF uploadVars
<1>2. UploadTypeInv' /\ Settled'
  BY <1>1 DEF UploadInv, UploadTypeInv, Settled
<1>3. \A r \in Requests : DocumentId(r)' = DocumentId(r)
  BY <1>1 DEF DocumentId
<1>4. RowInv'
  BY <1>1, <1>3 DEF UploadInv, RowInv, Told
<1>5. BytesInv'
  BY <1>1 DEF UploadInv, BytesInv, At
<1>6. \A r \in Requests : Backed(r)' = Backed(r) /\ Row(r)' = Row(r)
  BY <1>1, <1>3 DEF Backed, Stored, Row
<1>7. AnswerInv'
  BY <1>1, <1>6 DEF UploadInv, AnswerInv, At, Told
<1>. QED BY <1>2, <1>4, <1>5, <1>7 DEF UploadInv

-----------------------------------------------------------------------------
(* No row names bytes that were deleted, when no insert outlives its          *)
(* connection (removeOrphanedObject); with such an insert one can.            *)
THEOREM RowsKeepTheirBytes ==
    ASSUME LateInserts = FALSE PROVE UploadSpec => []RowsHaveObjects
<1>1. UploadInv /\ [UploadNext]_uploadVars => UploadInv'
  BY NextKeepsIInv, StutterKeepsIInv
<1>2. UploadInv => RowsHaveObjects
  BY DEF UploadInv, RowInv, RowsHaveObjects
<1>. QED BY UploadInitHolds, <1>1, <1>2, PTL DEF UploadSpec

(* What an upload was told stays so: a stored document is the one it sent,    *)
(* one attempt created it, and a failed attempt has no row                    *)
(* (sendCommittedUpload, metadataOutcome).                                    *)
THEOREM AnswersStayTrue ==
    ASSUME LateInserts = FALSE PROVE UploadSpec => []AnswersAreTrue
<1>1. UploadInv /\ [UploadNext]_uploadVars => UploadInv'
  BY NextKeepsIInv, StutterKeepsIInv
<1>2. UploadInv => AnswersAreTrue
  BY DEF UploadInv, RowInv, AnswerInv, Backed, AnswersAreTrue
<1>. QED BY UploadInitHolds, <1>1, <1>2, PTL DEF UploadSpec
=============================================================================
