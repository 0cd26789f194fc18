---------------------------- MODULE RecordsProofs ----------------------------
(***************************************************************************)
(* Proofs about the programs that keep records: the order program and the  *)
(* task management system.                                                 *)
(***************************************************************************)
EXTENDS MCServices, SequenceTheorems, TLAPS

-----------------------------------------------------------------------------
(* The order program. *)

OrderType ==
    /\ o_state \in {"draft", "paid", "shipped", "cancelled"}
    /\ o_command \in [pricing : {"vip", "null"}, executed : BOOLEAN]
    /\ o_charged \in Nat /\ o_tries \in Nat
    /\ o_notices \in Seq({"awaiting", "paid", "shipped", "cancelled"})

\* Money was taken from a paid or shipped order and from no draft.  A strategy can
\* be moved out of the command once, so there is one payment at most.
MoneyInv ==
    /\ o_state \in {"paid", "shipped"} => o_charged = 1
    /\ o_state = "draft" => o_charged = 0
    /\ o_charged <= 1
    /\ o_charged = 1 \/ o_command.executed \/ o_tries >= 1 => o_command.pricing = "null"
    /\ o_command.executed => o_charged = 1
    /\ o_valid /\ o_command.pricing = "null" => o_tries >= 1
    /\ o_crashed => o_tries = 2

NoticeInv ==
    o_state # "draft" => o_notices # <<>> /\ o_notices[Len(o_notices)] = o_state

\* Whether money was taken can be read off what the observers were told.
PaidInv == o_charged = 1 <=> \E k \in 1..Len(o_notices) : o_notices[k] = "paid"

OrderInv == OrderType /\ MoneyInv /\ NoticeInv /\ PaidInv

\* A draft order, a command that was not executed and no money taken.
LEMMA OrderInit ==
    ASSUME Order!Init
    PROVE  OrderInv
<1> USE DEF Order!Init
<1>1. OrderType
    BY DEF OrderType
<1>2. MoneyInv
    BY DEF MoneyInv
<1>3. NoticeInv /\ PaidInv
    BY DEF NoticeInv, PaidInv
<1> QED BY <1>1, <1>2, <1>3 DEF OrderInv

\* checkout, however it ends, keeps the order's invariant.
LEMMA ExecuteStep ==
    ASSUME OrderInv, NEW accepts \in BOOLEAN, Order!execute(accepts)
    PROVE  OrderInv'
<1> USE DEF OrderInv
<1>1. /\ ~o_crashed /\ ~o_command.executed /\ o_valid /\ o_tries < 2
      /\ o_tries' = o_tries + 1 /\ UNCHANGED o_valid
    BY DEF Order!execute, Order!checkout
<1>2. CASE o_command.pricing = "null"
    <2>1. /\ o_crashed' = TRUE
          /\ o_command' = [o_command EXCEPT !.pricing = "null"]
          /\ UNCHANGED <<o_state, o_charged, o_notices>>
        BY <1>2 DEF Order!execute, Order!checkout
    <2>2. OrderType' /\ NoticeInv' /\ PaidInv'
        BY <1>1, <2>1 DEF OrderType, NoticeInv, PaidInv
    <2>3. MoneyInv'
        BY <1>1, <1>2, <2>1 DEF OrderType, MoneyInv
    <2> QED BY <2>2, <2>3
<1>3. CASE o_command.pricing # "null" /\ o_state # "draft"
    <2>1. /\ o_command' = [o_command EXCEPT !.pricing = "null"]
          /\ UNCHANGED <<o_state, o_charged, o_notices, o_crashed>>
        BY <1>3 DEF Order!execute, Order!checkout, Order!After
    <2>2. OrderType' /\ NoticeInv' /\ PaidInv'
        BY <1>1, <2>1 DEF OrderType, NoticeInv, PaidInv
    <2>3. MoneyInv'
        BY <1>1, <1>3, <2>1 DEF OrderType, MoneyInv
    <2> QED BY <2>2, <2>3
<1>4. CASE o_command.pricing # "null" /\ o_state = "draft"
    <2> DEFINE final == IF accepts THEN "paid" ELSE "cancelled"
    <2>0. /\ Order!After("submit", o_state) = "awaiting"
          /\ Order!After(IF accepts THEN "pay" ELSE "cancel", "awaiting") = final
        BY <1>4 DEF Order!After
    <2>1. /\ o_state' = final /\ o_notices' = o_notices \o <<"awaiting", final>>
          /\ o_charged' = IF accepts THEN o_charged + 1 ELSE o_charged
          /\ o_command' = [pricing |-> "null", executed |-> accepts]
          /\ o_crashed' = o_crashed
        BY <1>4, <2>0 DEF Order!execute, Order!checkout
    <2>2. o_charged = 0
        BY <1>4 DEF OrderType, MoneyInv
    <2>3. OrderType' /\ NoticeInv' /\ PaidInv'
        <3>1. final \in {"paid", "cancelled"}
            OBVIOUS
        <3> HIDE DEF final
        <3>2. /\ o_notices' \in Seq({"awaiting", "paid", "shipped", "cancelled"})
              /\ Len(o_notices') = Len(o_notices) + 2 /\ Len(o_notices) \in Nat
              /\ o_notices'[Len(o_notices) + 2] = final
              /\ o_notices'[Len(o_notices) + 1] = "awaiting"
              /\ \A k \in 1..Len(o_notices) : o_notices'[k] = o_notices[k]
            BY <2>1, <3>1 DEF OrderType
        <3>3. o_notices' # <<>> /\ o_notices'[Len(o_notices')] = final
            BY <3>2
        <3>4. o_command' \in [pricing : {"vip", "null"}, executed : BOOLEAN]
            BY <2>1
        <3>5. PaidInv'
            <4>1. \A k \in 1..Len(o_notices) : o_notices[k] # "paid"
                BY <2>2 DEF PaidInv
            <4>2. o_charged' = 1 <=> final = "paid"
                BY <2>1, <2>2 DEF final
            <4>3. \A k \in 1..Len(o_notices') : o_notices'[k] = "paid" <=>
                    k = Len(o_notices) + 2 /\ final = "paid"
                BY <3>2, <4>1
            <4> QED BY <3>2, <4>2, <4>3 DEF PaidInv
        <3> QED BY <1>1, <2>1, <2>2, <3>1, <3>2, <3>3, <3>4, <3>5 DEF OrderType, NoticeInv
    <2>4. MoneyInv'
        BY <1>1, <2>1, <2>2 DEF OrderType, MoneyInv
    <2> QED BY <2>3, <2>4
<1> QED BY <1>2, <1>3, <1>4

\* A transition of the order outside checkout: it is told, and no money moves.
LEMMA Moved ==
    ASSUME OrderInv, NEW call \in {"ship", "cancel"}, Order!Moves(call),
           \/ UNCHANGED o_command
           \/ call = "cancel" /\ o_command.executed
              /\ o_command' = [o_command EXCEPT !.executed = FALSE]
    PROVE  OrderInv'
<1> USE DEF OrderInv
<1>1. /\ ~o_crashed
      /\ \/ call = "ship" /\ o_state = "paid" /\ o_state' = "shipped"
         \/ call = "cancel" /\ o_state \in {"draft", "paid"} /\ o_state' = "cancelled"
      /\ o_notices' = Append(o_notices, o_state')
      /\ UNCHANGED <<o_valid, o_charged, o_tries, o_crashed>>
    <2>1. Order!After(call, o_state) # "throws" /\ o_state' = Order!After(call, o_state)
        BY DEF Order!Moves
    <2>2. \/ call = "ship" /\ o_state = "paid" /\ o_state' = "shipped"
          \/ call = "cancel" /\ o_state \in {"draft", "paid"} /\ o_state' = "cancelled"
        BY <2>1 DEF Order!After, OrderType
    <2> QED BY <2>2 DEF Order!Moves
<1>2. OrderType'
    <2>1. o_command' \in [pricing : {"vip", "null"}, executed : BOOLEAN]
        BY DEF OrderType
    <2>2. o_notices' \in Seq({"awaiting", "paid", "shipped", "cancelled"})
        BY <1>1 DEF OrderType
    <2> QED BY <1>1, <2>1, <2>2 DEF OrderType
<1>3. NoticeInv'
    BY <1>1 DEF NoticeInv, OrderType
<1>4. MoneyInv'
    <2>1. o_command'.pricing = o_command.pricing
        BY DEF OrderType
    <2>2. o_command'.executed => o_command.executed
        BY DEF OrderType
    <2> QED BY <1>1, <2>1, <2>2 DEF MoneyInv, OrderType
<1>5. PaidInv'
    <2>1. /\ Len(o_notices) \in Nat /\ Len(o_notices') = Len(o_notices) + 1
          /\ o_notices'[Len(o_notices) + 1] = o_state' /\ o_state' # "paid"
          /\ \A k \in 1..Len(o_notices) : o_notices'[k] = o_notices[k]
        BY <1>1 DEF OrderType
    <2> QED BY <1>1, <2>1 DEF PaidInv
<1> QED BY <1>2, <1>3, <1>4, <1>5

\* A step of the order program keeps its invariant.
LEMMA OrderStep ==
    ASSUME OrderInv, Order!Next
    PROVE  OrderInv'
<1>1. CASE Order!ExecuteInvalid
    <2>1. OrderType' /\ NoticeInv' /\ PaidInv'
        BY <1>1 DEF Order!ExecuteInvalid, OrderInv, OrderType, NoticeInv, PaidInv
    <2>2. MoneyInv'
        BY <1>1 DEF Order!ExecuteInvalid, OrderInv, OrderType, MoneyInv
    <2> QED BY <2>1, <2>2 DEF OrderInv
<1>2. CASE Order!ship
    BY <1>2, Moved DEF Order!ship
<1>3. CASE Order!cancel
    BY <1>3, Moved DEF Order!cancel
<1>4. CASE Order!undo
    BY <1>4, Moved DEF Order!undo
<1> QED BY <1>1, <1>2, <1>3, <1>4, ExecuteStep DEF Order!Next

\* The invariant gives what the shop promises.
LEMMA OrderPromise ==
    ASSUME OrderInv
    PROVE  Order!Correct
BY DEF OrderInv, OrderType, MoneyInv, NoticeInv, PaidInv, Order!Correct

-----------------------------------------------------------------------------
(* The task management system. *)

Texts == [words : Seq(STRING), pad : BOOLEAN]
Record == [id : Nat, description : Texts, priority : TaskPriority, ddl : Texts]

Ascending(s) == \A k, l \in 1..Len(s) : k < l => s[k].id < s[l].id
Ids(s) == {s[k].id : k \in 1..Len(s)}

ManagerType ==
    /\ t_tasks \in Seq(Record) /\ t_file \in Seq(Record)
    /\ t_next \in Nat /\ t_fresh \subseteq Nat
    /\ t_wanted \in [DOMAIN t_wanted -> Record]

\* Also the file is in ascending order, from which load() takes _next_id.
IdInv ==
    /\ Ascending(t_tasks) /\ Ascending(t_file)
    /\ \A k \in 1..Len(t_tasks) : t_tasks[k].id < t_next
    /\ \A id \in t_fresh : id < t_next

\* What load() makes of the lines s.
Loaded(s) == [k \in 1..Len(s) |-> Tasks!Parse(s[k])]

\* Unless a save was lost, the file is what the process has or what it has loaded.
KeptInv ==
    \/ t_damaged
    \/ /\ t_file = t_tasks \/ (t_fresh = {} /\ t_tasks = Loaded(t_file))
       /\ Ids(t_tasks) = DOMAIN t_wanted
       /\ \A k \in 1..Len(t_tasks) : t_tasks[k] = Tasks!Described(t_tasks[k].id)

ManagerInv == ManagerType /\ IdInv /\ KeptInv

\* The ids of records are numbers.
LEMMA RecordIds ==
    ASSUME NEW s \in Seq(Record)
    PROVE  \A k \in 1..Len(s) : s[k] \in Record /\ s[k].id \in Nat
<1>1. \A r \in Record : r.id \in Nat
    BY DEF Record
<1>2. \A k \in 1..Len(s) : s[k] \in Record
    OBVIOUS
<1> QED BY <1>1, <1>2

\* Reading a line twice is reading it once, and the id survives.
LEMMA ParseTwice ==
    ASSUME NEW r \in Record
    PROVE  /\ Tasks!Parse(r) \in Record /\ Tasks!Parse(r).id = r.id
           /\ Tasks!Parse(Tasks!Parse(r)) = Tasks!Parse(r)
<1> DEFINE d == Tasks!trim(r.description)
           w == Tasks!FirstWord(r.ddl)
<1> USE DEF Record, Texts
<1>1. d \in Texts /\ Tasks!trim(d) = d
    BY DEF Tasks!trim
<1>2. w \in Texts /\ Tasks!FirstWord(w) = w
    <2>1. CASE r.ddl.words = <<>>
        BY <2>1 DEF Tasks!FirstWord
    <2>2. CASE r.ddl.words # <<>>
        <3>1. r.ddl.words[1] \in STRING
            BY <2>2
        <3>2. w = [words |-> <<r.ddl.words[1]>>, pad |-> FALSE]
            BY <2>2 DEF Tasks!FirstWord
        <3> HIDE DEF w
        <3> QED BY <3>1, <3>2 DEF Tasks!FirstWord
    <2> QED BY <2>1, <2>2
<1>3. Tasks!Parse(r) = [id |-> r.id, description |-> d, priority |-> r.priority, ddl |-> w]
    <2>1. r = [id |-> r.id, description |-> r.description, priority |-> r.priority, ddl |-> r.ddl]
        OBVIOUS
    <2>2. Tasks!Parse(r) = [r EXCEPT !.description = d, !.ddl = w]
        BY DEF Tasks!Parse
    <2> HIDE DEF d, w
    <2> QED BY <2>1, <2>2
<1> HIDE DEF d, w
<1>4. Tasks!Parse(r) \in Record /\ Tasks!Parse(r).id = r.id
    BY <1>1, <1>2, <1>3
<1>5. Tasks!Parse(Tasks!Parse(r)) = Tasks!Parse(r)
    <2> DEFINE e == Tasks!Parse(r)
    <2>1. e.description = d /\ e.ddl = w
        BY <1>3
    <2>2. Tasks!Parse(e) = [e EXCEPT !.description = Tasks!trim(e.description),
                                     !.ddl = Tasks!FirstWord(e.ddl)]
        BY DEF Tasks!Parse
    <2>3. Tasks!Parse(e) = [e EXCEPT !.description = d, !.ddl = w]
        BY <1>1, <1>2, <2>1, <2>2
    <2> HIDE DEF e
    <2>4. e = [id |-> r.id, description |-> d, priority |-> r.priority, ddl |-> w]
        BY <1>3 DEF e
    <2>5. Tasks!Parse(e) = e
        BY <2>3, <2>4
    <2> QED BY <2>5 DEF e
<1> QED BY <1>4, <1>5

\* The lines that load() reads keep their number, ids and order.
LEMMA LoadedKeeps ==
    ASSUME NEW s \in Seq(Record)
    PROVE  /\ Loaded(s) \in Seq(Record) /\ Len(Loaded(s)) = Len(s)
           /\ \A k \in 1..Len(s) : /\ Loaded(s)[k] = Tasks!Parse(s[k])
                                   /\ Loaded(s)[k].id = s[k].id
           /\ Ids(Loaded(s)) = Ids(s)
           /\ Ascending(s) => Ascending(Loaded(s))
<1>1. \A k \in 1..Len(s) : Tasks!Parse(s[k]) \in Record /\ Tasks!Parse(s[k]).id = s[k].id
    BY ParseTwice
<1>2. Loaded(s) \in Seq(Record) /\ Len(Loaded(s)) = Len(s)
    BY <1>1 DEF Loaded
<1>3. \A k \in 1..Len(s) : /\ Loaded(s)[k] = Tasks!Parse(s[k])
                           /\ Loaded(s)[k].id = s[k].id
    BY <1>1 DEF Loaded
<1>4. Ids(Loaded(s)) = Ids(s)
    BY <1>2, <1>3 DEF Ids
<1>5. Ascending(s) => Ascending(Loaded(s))
    BY <1>2, <1>3 DEF Ascending
<1> QED BY <1>2, <1>3, <1>4, <1>5

\* The greatest of ascending ids is the last one: load() finds an id above all.
LEMMA MaxId ==
    ASSUME NEW s \in Seq(Record), Ascending(s)
    PROVE  /\ Tasks!Max({0} \cup Ids(s)) \in Nat
           /\ \A k \in 1..Len(s) : s[k].id <= Tasks!Max({0} \cup Ids(s))
<1> DEFINE S == {0} \cup Ids(s)
<1>1. S \subseteq Nat
    BY RecordIds DEF Ids
<1>2. \E x \in S : \A y \in S : x >= y
    <2>1. CASE s = <<>>
        BY <2>1 DEF Ids
    <2>2. CASE s # <<>>
        <3>1. Len(s) \in 1..Len(s)
            BY <2>2
        <3>2. \A k \in 1..Len(s) : s[Len(s)].id >= s[k].id
            <4>1. \A k \in 1..Len(s) : s[k].id \in Nat /\ (k = Len(s) \/ k < Len(s))
                BY RecordIds
            <4> QED BY <3>1, <4>1 DEF Ascending
        <3>3. s[Len(s)].id \in S /\ s[Len(s)].id >= 0
            BY <3>1, <1>1 DEF Ids
        <3> QED BY <3>2, <3>3 DEF Ids
    <2> QED BY <2>1, <2>2
<1>3. Tasks!Max(S) \in S /\ \A y \in S : Tasks!Max(S) >= y
    BY <1>2 DEF Tasks!Max
<1>4. \A k \in 1..Len(s) : s[k].id \in S
    BY DEF Ids
<1> HIDE DEF S
<1>5. Tasks!Max(S) \in Nat /\ \A k \in 1..Len(s) : s[k].id <= Tasks!Max(S)
    BY <1>1, <1>3, <1>4
<1> QED BY <1>5 DEF S

\* However save() ends, the file holds ascending records, and it holds the new
\* tasks unless the save was lost.
LEMMA Saved ==
    ASSUME ManagerInv, NEW new \in Seq(Record), Ascending(new), Tasks!save(new)
    PROVE  /\ t_tasks' = new
           /\ t_file' \in Seq(Record) /\ Ascending(t_file)'
           /\ t_damaged' \/ (~t_damaged /\ t_file' = new)
<1>1. CASE t_file' = new /\ UNCHANGED t_damaged
    BY <1>1 DEF Tasks!save, Ascending
<1>2. CASE t_damaged' = TRUE /\ UNCHANGED t_file
    BY <1>2 DEF Tasks!save, ManagerInv, ManagerType, IdInv, Ascending
<1>3. CASE t_damaged' = TRUE /\ \E k \in 0..(Len(new) - 1) : t_file' = SubSeq(new, 1, k)
    <2>1. PICK k \in 0..(Len(new) - 1) : t_file' = SubSeq(new, 1, k)
        BY <1>3
    <2>2. /\ t_file' \in Seq(Record) /\ Len(t_file') = k
          /\ \A j \in 1..k : t_file'[j] = new[j]
        BY <2>1
    <2> QED BY <1>3, <2>2 DEF Tasks!save, Ascending
<1> QED BY <1>1, <1>2, <1>3 DEF Tasks!save

\* A command sets one task, keeps or removes others, and describes it in wanted:
\* what the three commands have in common.
LEMMA CommandKeeps ==
    ASSUME ManagerInv, NEW new \in Seq(Record), Ascending(new), Tasks!save(new),
           t_next' \in Nat, t_next' >= t_next,
           \A k \in 1..Len(new) : new[k].id < t_next',
           t_fresh' \subseteq Nat, \A id \in t_fresh' : id < t_next',
           t_wanted' \in [DOMAIN t_wanted' -> Record],
           ~t_damaged => /\ Ids(new) = DOMAIN t_wanted'
                         /\ \A k \in 1..Len(new) :
                              new[k] = IF new[k].id \in t_fresh' THEN t_wanted'[new[k].id]
                                       ELSE Tasks!Parse(t_wanted'[new[k].id])
    PROVE  ManagerInv'
<1>1. /\ t_tasks' = new
      /\ t_file' \in Seq(Record) /\ Ascending(t_file)'
      /\ t_damaged' \/ (~t_damaged /\ t_file' = new)
    BY Saved
<1>2. ManagerType'
    BY <1>1 DEF ManagerType
<1>3. IdInv'
    BY <1>1 DEF IdInv, Ascending
<1>4. KeptInv'
    <2>1. CASE t_damaged'
        BY <2>1 DEF KeptInv, Tasks!Described
    <2>2. CASE ~t_damaged'
        <3>1. ~t_damaged /\ t_file' = t_tasks'
            BY <1>1, <2>2
        <3>2. Ids(t_tasks)' = Ids(new)
            BY <1>1 DEF Ids
        <3> QED BY <1>1, <3>1, <3>2 DEF KeptInv, Tasks!Described
    <2> QED BY <2>1, <2>2
<1> QED BY <1>2, <1>3, <1>4 DEF ManagerInv

\* add appends a task with an id above all.
LEMMA AddStep ==
    ASSUME ManagerInv, NEW description \in TaskText, NEW ddl \in TaskText,
           NEW priority \in TaskPriority, Tasks!add(description, priority, ddl)
    PROVE  ManagerInv'
<1> DEFINE t == [id |-> t_next, description |-> Tasks!trim(description), priority |-> priority,
                 ddl |-> Tasks!trim(ddl)]
           new == Append(t_tasks, t)
<1>0. ManagerType /\ IdInv /\ KeptInv /\ t_next \in Nat
    BY DEF ManagerInv, ManagerType
<1>1. /\ Tasks!save(new)
      /\ t_wanted' = [x \in DOMAIN t_wanted \cup {t_next} |-> IF x = t_next THEN t ELSE t_wanted[x]]
      /\ t_next' = t_next + 1 /\ t_fresh' = t_fresh \cup {t_next}
    BY DEF Tasks!add, Tasks!With
<1>2. t \in Record
    <2>1. \A x \in TaskText : Tasks!trim(x) \in Texts
        BY ServicesAssumption DEF Tasks!trim, Texts
    <2> QED BY <1>0, <2>1 DEF Record
<1>3. t.id = t_next
    OBVIOUS
<1> HIDE DEF t
<1>4. /\ new \in Seq(Record) /\ Len(new) = Len(t_tasks) + 1 /\ Len(t_tasks) \in Nat
      /\ new[Len(t_tasks) + 1] = t
      /\ \A k \in 1..Len(t_tasks) : new[k] = t_tasks[k]
    BY <1>0, <1>2 DEF ManagerType
<1> HIDE DEF new
<1>5. \A k \in 1..Len(new) : \/ k \in 1..Len(t_tasks) /\ new[k] = t_tasks[k]
                                /\ t_tasks[k].id < t_next /\ t_tasks[k].id \in Nat
                             \/ k = Len(t_tasks) + 1 /\ new[k] = t
    <2>1. \A k \in 1..Len(new) : k \in 1..Len(t_tasks) \/ k = Len(t_tasks) + 1
        BY <1>4
    <2>2. \A k \in 1..Len(t_tasks) : t_tasks[k].id < t_next /\ t_tasks[k].id \in Nat
        BY <1>0, RecordIds DEF ManagerType, IdInv
    <2> QED BY <1>4, <2>1, <2>2
<1>6. Ascending(new)
    BY <1>0, <1>3, <1>4, <1>5 DEF Ascending, IdInv
<1>7. \A k \in 1..Len(new) : new[k].id < t_next'
    BY <1>0, <1>1, <1>3, <1>5
<1>8. t_fresh' \subseteq Nat /\ \A id \in t_fresh' : id < t_next'
    BY <1>0, <1>1 DEF ManagerType, IdInv
<1>9. t_wanted' \in [DOMAIN t_wanted' -> Record]
    BY <1>0, <1>1, <1>2 DEF ManagerType
<1>10. ASSUME ~t_damaged
       PROVE  /\ Ids(new) = DOMAIN t_wanted'
              /\ \A k \in 1..Len(new) :
                   new[k] = IF new[k].id \in t_fresh' THEN t_wanted'[new[k].id]
                            ELSE Tasks!Parse(t_wanted'[new[k].id])
    <2>1. Ids(new) = Ids(t_tasks) \cup {t_next}
        BY <1>3, <1>4, <1>5 DEF Ids
    <2>2. ASSUME NEW k \in 1..Len(new)
          PROVE  new[k] = IF new[k].id \in t_fresh' THEN t_wanted'[new[k].id]
                          ELSE Tasks!Parse(t_wanted'[new[k].id])
        <3>1. CASE k \in 1..Len(t_tasks)
            <4>1. new[k] = t_tasks[k] /\ new[k].id # t_next /\ new[k].id \in DOMAIN t_wanted
                <5>1. new[k] = t_tasks[k] /\ t_tasks[k].id < t_next /\ t_tasks[k].id \in Nat
                    BY <1>4, <1>5, <3>1
                <5>2. t_tasks[k].id \in Ids(t_tasks)
                    BY <3>1 DEF Ids
                <5>3. t_tasks[k].id # t_next
                    BY <1>0, <5>1
                <5> QED BY <1>0, <1>10, <5>1, <5>2, <5>3 DEF KeptInv, Tasks!Described
            <4>2. t_wanted'[new[k].id] = t_wanted[new[k].id]
                BY <1>1, <4>1
            <4> QED BY <1>0, <1>1, <1>10, <3>1, <4>1, <4>2 DEF KeptInv, Tasks!Described
        <3>2. CASE k = Len(t_tasks) + 1
            BY <1>1, <1>3, <1>4, <3>2
        <3> QED BY <1>5, <3>1, <3>2
    <2>3. DOMAIN t_wanted' = DOMAIN t_wanted \cup {t_next}
        BY <1>1
    <2>4. Ids(t_tasks) = DOMAIN t_wanted
        BY <1>0, <1>10 DEF KeptInv, Tasks!Described
    <2> QED BY <2>1, <2>2, <2>3, <2>4
<1>11. t_next' \in Nat /\ t_next' >= t_next /\ Tasks!save(new) /\ new \in Seq(Record)
    BY <1>0, <1>1, <1>4
<1> QED BY <1>6, <1>7, <1>8, <1>9, <1>10, <1>11, CommandKeeps

\* remove takes out one task and its description.
LEMMA RemoveStep ==
    ASSUME ManagerInv, NEW id \in Nat, Tasks!remove(id)
    PROVE  ManagerInv'
<1> DEFINE n == CHOOSE m \in 1..Len(t_tasks) : t_tasks[m].id = id
           new == Tasks!RemoveAt(t_tasks, n)
<1>0. ManagerType /\ IdInv /\ KeptInv /\ t_next \in Nat /\ Len(t_tasks) \in Nat
    BY DEF ManagerInv, ManagerType
<1>1. /\ \E m \in 1..Len(t_tasks) : t_tasks[m].id = id
      /\ Tasks!save(new)
      /\ t_wanted' = [x \in DOMAIN t_wanted \ {id} |-> t_wanted[x]]
      /\ UNCHANGED <<t_next, t_fresh>>
    BY DEF Tasks!remove, Tasks!Has, Tasks!Restrict
<1>2. n \in 1..Len(t_tasks) /\ t_tasks[n].id = id
    BY <1>1
<1> HIDE DEF n
<1>3. /\ new \in Seq(Record) /\ Len(new) = Len(t_tasks) - 1
      /\ \A k \in 1..Len(new) : new[k] = IF k < n THEN t_tasks[k] ELSE t_tasks[k + 1]
    <2>1. /\ SubSeq(t_tasks, 1, n - 1) \in Seq(Record) /\ Len(SubSeq(t_tasks, 1, n - 1)) = n - 1
          /\ \A k \in 1..(n - 1) : SubSeq(t_tasks, 1, n - 1)[k] = t_tasks[k]
        BY <1>0, <1>2 DEF ManagerType
    <2>2. /\ SubSeq(t_tasks, n + 1, Len(t_tasks)) \in Seq(Record)
          /\ Len(SubSeq(t_tasks, n + 1, Len(t_tasks))) = Len(t_tasks) - n
          /\ \A k \in 1..(Len(t_tasks) - n) : SubSeq(t_tasks, n + 1, Len(t_tasks))[k] = t_tasks[n + k]
        BY <1>0, <1>2 DEF ManagerType
    <2> DEFINE a == SubSeq(t_tasks, 1, n - 1)
               b == SubSeq(t_tasks, n + 1, Len(t_tasks))
    <2>3. new = a \o b
        BY DEF Tasks!RemoveAt
    <2> HIDE DEF new
    <2>4. /\ a \in Seq(Record) /\ b \in Seq(Record) /\ Len(a) = n - 1 /\ Len(b) = Len(t_tasks) - n
          /\ \A k \in 1..(n - 1) : a[k] = t_tasks[k]
          /\ \A k \in 1..(Len(t_tasks) - n) : b[k] = t_tasks[n + k]
        BY <2>1, <2>2
    <2> HIDE DEF a, b
    <2>5. /\ new \in Seq(Record) /\ Len(new) = Len(a) + Len(b)
          /\ \A k \in 1..Len(new) : new[k] = IF k <= Len(a) THEN a[k] ELSE b[k - Len(a)]
        <3>1. /\ a \o b \in Seq(Record) /\ Len(a \o b) = Len(a) + Len(b)
              /\ \A k \in 1..(Len(a) + Len(b)) :
                   (a \o b)[k] = IF k <= Len(a) THEN a[k] ELSE b[k - Len(a)]
            BY <2>4, ConcatProperties
        <3> QED BY <2>3, <3>1
    <2>7. n \in Nat /\ n >= 1 /\ n <= Len(t_tasks) /\ Len(t_tasks) \in Nat
        BY <1>0, <1>2
    <2>8. Len(a) = n - 1 /\ Len(b) = Len(t_tasks) - n
        BY <2>4
    <2>6. ASSUME NEW k \in 1..Len(new)
          PROVE  new[k] = IF k < n THEN t_tasks[k] ELSE t_tasks[k + 1]
        <3>1. CASE k < n
            <4>1. k \in 1..(n - 1) /\ k <= Len(a)
                BY <2>7, <2>8, <2>5, <3>1
            <4> QED BY <2>4, <2>5, <3>1, <4>1
        <3>2. CASE k >= n
            <4> DEFINE j == k - (n - 1)
            <4>1. j \in 1..(Len(t_tasks) - n) /\ n + j = k + 1
                BY <2>7, <2>8, <2>5, <3>2
            <4>2. new[k] = b[j]
                BY <2>7, <2>8, <2>5, <3>2
            <4> HIDE DEF j
            <4>3. b[j] = t_tasks[k + 1]
                BY <2>4, <4>1
            <4>4. ~(k < n)
                BY <2>7, <3>2
            <4> QED BY <4>2, <4>3, <4>4
        <3> QED BY <2>7, <3>1, <3>2
    <2> QED BY <2>5, <2>6, <2>7, <2>8
<1> HIDE DEF new
<1> DEFINE Old(k) == IF k < n THEN k ELSE k + 1
<1>4. \A k \in 1..Len(new) : Old(k) \in 1..Len(t_tasks) /\ Old(k) # n /\ new[k] = t_tasks[Old(k)]
    BY <1>0, <1>2, <1>3
<1>5. \A j \in 1..Len(t_tasks) : j # n => \E k \in 1..Len(new) : Old(k) = j
    <2> TAKE j \in 1..Len(t_tasks)
    <2>1. CASE j < n
        BY <1>0, <1>2, <1>3, <2>1
    <2>2. CASE j > n
        <3>1. j - 1 \in 1..Len(new) /\ Old(j - 1) = j
            BY <1>0, <1>2, <1>3, <2>2
        <3> QED BY <3>1
    <2> QED BY <1>0, <1>2, <2>1, <2>2
<1>6. \A k, l \in 1..Len(new) : k < l => Old(k) < Old(l)
    BY <1>0, <1>2, <1>3
<1> HIDE DEF Old
<1>7. \A k \in 1..Len(t_tasks) : t_tasks[k].id \in Nat /\ (k # n => t_tasks[k].id # id)
    <2>1. \A k \in 1..Len(t_tasks) : t_tasks[k].id \in Nat /\ (k = n \/ k < n \/ n < k)
        BY <1>0, <1>2, RecordIds DEF ManagerType
    <2> QED BY <1>0, <1>2, <2>1 DEF IdInv, Ascending
<1>8. Ascending(new)
    BY <1>0, <1>4, <1>6 DEF Ascending, IdInv
<1>9. \A k \in 1..Len(new) : new[k].id < t_next'
    BY <1>0, <1>1, <1>4 DEF IdInv
<1>10. t_fresh' \subseteq Nat /\ \A x \in t_fresh' : x < t_next'
    BY <1>0, <1>1 DEF ManagerType, IdInv
<1>11. t_wanted' \in [DOMAIN t_wanted' -> Record]
    BY <1>0, <1>1 DEF ManagerType
<1>12. ASSUME ~t_damaged
       PROVE  /\ Ids(new) = DOMAIN t_wanted'
              /\ \A k \in 1..Len(new) :
                   new[k] = IF new[k].id \in t_fresh' THEN t_wanted'[new[k].id]
                            ELSE Tasks!Parse(t_wanted'[new[k].id])
    <2>1. Ids(new) = Ids(t_tasks) \ {id}
        <3>1. ASSUME NEW k \in 1..Len(new)
              PROVE  new[k].id \in Ids(t_tasks) \ {id}
            BY <1>4, <1>7 DEF Ids
        <3>2. ASSUME NEW j \in 1..Len(t_tasks), t_tasks[j].id # id
              PROVE  t_tasks[j].id \in Ids(new)
            <4>1. PICK k \in 1..Len(new) : Old(k) = j
                BY <1>2, <1>5, <3>2
            <4> QED BY <1>4, <4>1 DEF Ids
        <3> QED BY <3>1, <3>2 DEF Ids
    <2>2. ASSUME NEW k \in 1..Len(new)
          PROVE  new[k] = IF new[k].id \in t_fresh' THEN t_wanted'[new[k].id]
                          ELSE Tasks!Parse(t_wanted'[new[k].id])
        <3>1. new[k] = t_tasks[Old(k)] /\ Old(k) \in 1..Len(t_tasks) /\ new[k].id # id
            BY <1>4, <1>7
        <3>2. new[k].id \in DOMAIN t_wanted
            BY <1>0, <1>12, <3>1 DEF KeptInv, Ids
        <3>3. t_wanted'[new[k].id] = t_wanted[new[k].id]
            BY <1>1, <3>1, <3>2
        <3> QED BY <1>0, <1>1, <1>12, <3>1, <3>3 DEF KeptInv, Tasks!Described
    <2>3. DOMAIN t_wanted' = DOMAIN t_wanted \ {id}
        BY <1>1
    <2>4. Ids(t_tasks) = DOMAIN t_wanted
        BY <1>0, <1>12 DEF KeptInv, Tasks!Described
    <2> QED BY <2>1, <2>2, <2>3, <2>4
<1>13. t_next' \in Nat /\ t_next' >= t_next /\ Tasks!save(new) /\ new \in Seq(Record)
    BY <1>0, <1>1, <1>3
<1> QED BY <1>8, <1>9, <1>10, <1>11, <1>12, <1>13, CommandKeeps

\* update overwrites one task and its description, untrimmed.
LEMMA UpdateStep ==
    ASSUME ManagerInv, NEW id \in Nat, NEW description \in TaskText, NEW ddl \in TaskText,
           NEW priority \in TaskPriority, Tasks!update(id, description, priority, ddl)
    PROVE  ManagerInv'
<1> DEFINE n == CHOOSE m \in 1..Len(t_tasks) : t_tasks[m].id = id
           t == [id |-> id, description |-> description, priority |-> priority, ddl |-> ddl]
           new == [t_tasks EXCEPT ![n] = t]
<1>0. ManagerType /\ IdInv /\ KeptInv /\ t_next \in Nat /\ Len(t_tasks) \in Nat
    BY DEF ManagerInv, ManagerType
<1>1. /\ \E m \in 1..Len(t_tasks) : t_tasks[m].id = id
      /\ Tasks!save(new)
      /\ t_wanted' = [x \in DOMAIN t_wanted \cup {id} |-> IF x = id THEN t ELSE t_wanted[x]]
      /\ t_next' = t_next /\ t_fresh' = t_fresh \cup {id}
    BY DEF Tasks!update, Tasks!Has, Tasks!With
<1>2. n \in 1..Len(t_tasks) /\ t_tasks[n].id = id
    BY <1>1
<1>3. t \in Record /\ t.id = id
    BY ServicesAssumption DEF Record, Texts
<1> HIDE DEF n, t
<1>4. /\ new \in Seq(Record) /\ Len(new) = Len(t_tasks)
      /\ \A k \in 1..Len(t_tasks) : new[k] = IF k = n THEN t ELSE t_tasks[k]
    BY <1>0, <1>2, <1>3 DEF ManagerType
<1> HIDE DEF new
<1>5. \A k \in 1..Len(t_tasks) : new[k].id = t_tasks[k].id
    BY <1>2, <1>3, <1>4
<1>6. \A k \in 1..Len(t_tasks) : k # n => t_tasks[k].id # id
    <2>1. \A k \in 1..Len(t_tasks) : t_tasks[k].id \in Nat /\ (k = n \/ k < n \/ n < k)
        BY <1>0, <1>2, RecordIds DEF ManagerType
    <2> QED BY <1>0, <1>2, <2>1 DEF IdInv, Ascending
<1>7. Ascending(new)
    BY <1>0, <1>4, <1>5 DEF Ascending, IdInv
<1>8. \A k \in 1..Len(new) : new[k].id < t_next'
    BY <1>0, <1>1, <1>4, <1>5 DEF IdInv
<1>9. t_fresh' \subseteq Nat /\ \A x \in t_fresh' : x < t_next'
    BY <1>0, <1>1, <1>2 DEF ManagerType, IdInv
<1>10. t_wanted' \in [DOMAIN t_wanted' -> Record]
    BY <1>0, <1>1, <1>3 DEF ManagerType
<1>11. ASSUME ~t_damaged
       PROVE  /\ Ids(new) = DOMAIN t_wanted'
              /\ \A k \in 1..Len(new) :
                   new[k] = IF new[k].id \in t_fresh' THEN t_wanted'[new[k].id]
                            ELSE Tasks!Parse(t_wanted'[new[k].id])
    <2>1. Ids(new) = Ids(t_tasks) /\ id \in Ids(t_tasks)
        BY <1>2, <1>4, <1>5 DEF Ids
    <2>2. ASSUME NEW k \in 1..Len(new)
          PROVE  new[k] = IF new[k].id \in t_fresh' THEN t_wanted'[new[k].id]
                          ELSE Tasks!Parse(t_wanted'[new[k].id])
        <3>1. CASE k # n
            <4>1. k \in 1..Len(t_tasks) /\ new[k] = t_tasks[k] /\ new[k].id # id
                BY <1>4, <1>6, <3>1
            <4>2. new[k].id \in DOMAIN t_wanted
                BY <1>0, <1>11, <4>1 DEF KeptInv, Ids
            <4>3. t_wanted'[new[k].id] = t_wanted[new[k].id]
                BY <1>1, <4>1, <4>2
            <4> QED BY <1>0, <1>1, <1>11, <4>1, <4>3 DEF KeptInv, Tasks!Described
        <3>2. CASE k = n
            BY <1>1, <1>2, <1>3, <1>4, <3>2
        <3> QED BY <3>1, <3>2
    <2>3. DOMAIN t_wanted' = DOMAIN t_wanted \cup {id}
        BY <1>1
    <2>4. Ids(t_tasks) = DOMAIN t_wanted
        BY <1>0, <1>11 DEF KeptInv, Tasks!Described
    <2> QED BY <2>1, <2>2, <2>3, <2>4
<1>12. t_next' \in Nat /\ t_next' >= t_next /\ Tasks!save(new) /\ new \in Seq(Record)
    BY <1>0, <1>1, <1>4
<1> QED BY <1>7, <1>8, <1>9, <1>10, <1>11, <1>12, CommandKeeps

\* The next process loads the file: ids stay unique and below its _next_id, and
\* every task is as it was described, in the form in which a line is read.
LEMMA RestartStep ==
    ASSUME ManagerInv, Tasks!Start
    PROVE  ManagerInv'
<1>0. ManagerType /\ IdInv /\ KeptInv
    BY DEF ManagerInv
<1>1. /\ t_tasks' = Loaded(t_file)
      /\ t_next' = Tasks!Max({0} \cup Ids(t_file)) + 1
      /\ t_fresh' = {} /\ UNCHANGED <<t_file, t_wanted, t_damaged>>
    BY DEF Tasks!Start, Tasks!load, Loaded, Ids
<1>2. /\ Loaded(t_file) \in Seq(Record) /\ Len(Loaded(t_file)) = Len(t_file)
      /\ \A k \in 1..Len(t_file) : /\ Loaded(t_file)[k] = Tasks!Parse(t_file[k])
                                   /\ Loaded(t_file)[k].id = t_file[k].id
      /\ Ids(Loaded(t_file)) = Ids(t_file) /\ Ascending(Loaded(t_file))
    BY <1>0, LoadedKeeps DEF ManagerType, IdInv
<1>3. t_next' \in Nat /\ \A k \in 1..Len(t_file) : t_file[k].id < t_next'
    <2>1. /\ Tasks!Max({0} \cup Ids(t_file)) \in Nat
          /\ \A k \in 1..Len(t_file) : t_file[k].id <= Tasks!Max({0} \cup Ids(t_file))
        BY <1>0, MaxId DEF ManagerType, IdInv
    <2>2. \A k \in 1..Len(t_file) : t_file[k].id \in Nat
        BY <1>0, RecordIds DEF ManagerType
    <2> DEFINE m == Tasks!Max({0} \cup Ids(t_file))
    <2>3. t_next' = m + 1 /\ m \in Nat /\ \A k \in 1..Len(t_file) : t_file[k].id <= m
        BY <1>1, <2>1, Zenon
    <2> HIDE DEF m
    <2> QED BY <2>2, <2>3
<1>4. ManagerType'
    BY <1>0, <1>1, <1>2, <1>3 DEF ManagerType
<1>5. IdInv'
    BY <1>0, <1>1, <1>2, <1>3 DEF IdInv, Ascending
<1>6. KeptInv'
    <2>1. CASE t_damaged
        BY <1>1, <2>1 DEF KeptInv, Tasks!Described
    <2>2. CASE ~t_damaged
        <3>1. Ids(t_tasks)' = Ids(t_tasks)
            <4>1. Ids(t_file) = Ids(t_tasks)
                BY <1>0, <1>2, <2>2 DEF KeptInv, Tasks!Described
            <4>2. Ids(t_tasks)' = Ids(Loaded(t_file))
                BY <1>1 DEF Ids
            <4> QED BY <1>2, <4>1, <4>2
        <3>2. (t_tasks = Loaded(t_file))'
            BY <1>1
        <3>3. ASSUME NEW k \in 1..Len(t_tasks')
              PROVE  t_tasks'[k] = Tasks!Parse(t_wanted[t_tasks'[k].id])
            <4>1. k \in 1..Len(t_file) /\ t_tasks'[k] = Tasks!Parse(t_file[k])
                  /\ t_tasks'[k].id = t_file[k].id
                BY <1>1, <1>2
            <4>2. CASE t_file = t_tasks
                <5>1. t_file[k].id \in DOMAIN t_wanted
                    BY <1>0, <2>2, <4>1, <4>2 DEF KeptInv, Ids
                <5>2. t_wanted[t_file[k].id] \in Record
                    BY <1>0, <5>1 DEF ManagerType
                <5>3. \/ t_file[k] = t_wanted[t_file[k].id]
                      \/ t_file[k] = Tasks!Parse(t_wanted[t_file[k].id])
                    BY <1>0, <2>2, <4>1, <4>2 DEF KeptInv, Tasks!Described
                <5> QED BY <4>1, <5>2, <5>3, ParseTwice
            <4>3. CASE t_fresh = {} /\ t_tasks = Loaded(t_file)
                <5>1. t_tasks' = t_tasks /\ k \in 1..Len(t_tasks)
                    BY <1>1, <4>3
                <5> QED BY <1>0, <2>2, <4>3, <5>1 DEF KeptInv, Tasks!Described
            <4> QED BY <1>0, <2>2, <4>2, <4>3 DEF KeptInv, Tasks!Described
        <3>4. Ids(t_tasks) = DOMAIN t_wanted
            BY <1>0, <2>2 DEF KeptInv, Tasks!Described
        <3> QED BY <1>1, <3>1, <3>2, <3>3, <3>4 DEF KeptInv, Tasks!Described
    <2> QED BY <2>1, <2>2
<1> QED BY <1>4, <1>5, <1>6 DEF ManagerInv

\* A manager without tasks and without a file.
LEMMA ManagerInit ==
    ASSUME Tasks!Init
    PROVE  ManagerInv
<1> USE DEF Tasks!Init
<1>1. Len(t_tasks) = 0 /\ Len(t_file) = 0
    OBVIOUS
<1>2. ManagerType
    BY DEF ManagerType
<1>3. IdInv
    BY <1>1 DEF IdInv, Ascending
<1>4. KeptInv
    BY <1>1 DEF KeptInv, Ids
<1> QED BY <1>2, <1>3, <1>4 DEF ManagerInv

\* A step of the task management system keeps its invariant.
LEMMA ManagerStep ==
    ASSUME ManagerInv, Tasks!Next
    PROVE  ManagerInv'
<1>1. CASE Tasks!Exit
    <2>1. ManagerType' /\ IdInv'
        BY <1>1 DEF Tasks!Exit, ManagerInv, ManagerType, IdInv, Ascending
    <2>2. KeptInv'
        BY <1>1 DEF Tasks!Exit, ManagerInv, KeptInv, Ids, Loaded, Tasks!Described
    <2> QED BY <2>1, <2>2 DEF ManagerInv
<1>2. 1..TaskId \subseteq Nat
    BY ServicesAssumption
<1> QED BY <1>1, <1>2, AddStep, RemoveStep, UpdateStep, RestartStep DEF Tasks!Next

\* The invariant gives what the manager promises.
LEMMA ManagerPromise ==
    ASSUME ManagerInv
    PROVE  Tasks!Correct
<1> USE DEF ManagerInv
<1>1. /\ \A k \in 1..Len(t_tasks) : t_tasks[k].id < t_next
      /\ \A k, l \in 1..Len(t_tasks) : k < l => t_tasks[k].id < t_tasks[l].id
    BY Zenon DEF IdInv, Ascending
<1>2. \A id \in t_fresh : id < t_next
    BY DEF IdInv
<1>3. \/ t_damaged
      \/ /\ t_file = t_tasks \/ t_fresh = {}
         /\ {t_tasks[k].id : k \in 1..Len(t_tasks)} = DOMAIN t_wanted
         /\ \A k \in 1..Len(t_tasks) : t_tasks[k] = Tasks!Described(t_tasks[k].id)
    BY Zenon DEF KeptInv, Ids
<1> HIDE DEF ManagerInv
<1> QED BY <1>1, <1>2, <1>3, Zenon DEF Tasks!Correct

-----------------------------------------------------------------------------
(* Both programs. *)

\* Whatever the sequence of commands, refused payments, lost saves and restarts:
\* the task manager keeps the tasks that its commands describe under unique ids,
\* and the order program takes the money of an order at most once, and takes it if
\* and only if it announces the order as paid (checkout, execute, undo, cancel).
THEOREM RecordsHold == Spec => []RecordsCorrect
<1>1. Init => ManagerInv /\ OrderInv
    BY ManagerInit, OrderInit DEF Init
<1>2. ManagerInv /\ OrderInv /\ [Next]_vars => (ManagerInv /\ OrderInv)'
    <2> SUFFICES ASSUME ManagerInv, OrderInv, [Next]_vars
                 PROVE  ManagerInv' /\ OrderInv'
        OBVIOUS
    <2>1. ManagerInv'
        <3>1. CASE UNCHANGED tasks
            <4>1. ManagerType' /\ IdInv'
                BY <3>1 DEF tasks, ManagerInv, ManagerType, IdInv, Ascending
            <4>2. KeptInv'
                BY <3>1 DEF tasks, ManagerInv, KeptInv, Ids, Loaded, Tasks!Described
            <4> QED BY <4>1, <4>2 DEF ManagerInv
        <3> QED BY <3>1, ManagerStep DEF Next, vars
    <2>2. OrderInv'
        <3>1. CASE UNCHANGED order
            BY <3>1 DEF order, OrderInv, OrderType, MoneyInv, NoticeInv, PaidInv
        <3> QED BY <3>1, OrderStep DEF Next, vars
    <2> QED BY <2>1, <2>2
<1>3. ManagerInv /\ OrderInv => RecordsCorrect
    BY ManagerPromise, OrderPromise DEF RecordsCorrect
<1> QED BY <1>1, <1>2, <1>3, PTL DEF Spec
=============================================================================
