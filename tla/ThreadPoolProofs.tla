-------------------------- MODULE ThreadPoolProofs --------------------------
(***************************************************************************)
(* Theorems about ThreadPool, for any set of workers and number of tasks.  *)
(***************************************************************************)
EXTENDS ThreadPool, SequenceTheorems, TLAPS

LEMMA TypeStep == TypeOK /\ [Next]_vars => TypeOK'
<1> SUFFICES ASSUME TypeOK, [Next]_vars
             PROVE  TypeOK'
  OBVIOUS
<1> USE DEF TypeOK, NoTask
<1>1. ASSUME NEW w \in Threads, AddTask(w)
      PROVE  TypeOK'
  BY <1>1 DEF AddTask
<1>2. ASSUME NEW w \in Threads, Wait(w)
      PROVE  TypeOK'
  BY <1>2 DEF Wait
<1>3. ASSUME NEW w \in Threads, Reset(w)
      PROVE  TypeOK'
  BY <1>3 DEF Reset
<1>4. ASSUME NEW w \in Threads, Take(w)
      PROVE  TypeOK'
  <2>1. CASE m_task_list[w] = <<>>
    BY <1>4, <2>1 DEF Take
  <2>2. CASE m_task_list[w] # <<>>
    <3>1. /\ Head(m_task_list[w]) \in Nat \ {0}
          /\ Tail(m_task_list[w]) \in Seq(Nat \ {0})
      BY <2>2
    <3> QED BY <1>4, <2>2, <3>1 DEF Take
  <2> QED BY <2>1, <2>2
<1>5. ASSUME NEW w \in Threads, Run(w)
      PROVE  TypeOK'
  BY <1>5 DEF Run
<1>6. CASE UNCHANGED vars
  BY <1>6 DEF vars
<1> QED BY <1>1, <1>2, <1>3, <1>4, <1>5, <1>6 DEF Next, Execute

LEMMA TypeAlways == Spec => []TypeOK
<1>1. Init => TypeOK
  BY DEF Init, TypeOK, NoTask
<1> QED BY <1>1, TypeStep, PTL DEF Spec

\* Every reachable state is of the declared types, and no worker holds a task
\* outside the part of Execute that runs it.
THEOREM TypeCorrect == Spec => []TypeOK
BY TypeAlways
-----------------------------------------------------------------------------
(* Waking up.                                                              *)

\* The event and the worker's being past Wait each stand for one task in the
\* list; once the event was reset the two stand for different ones.
WakeInv ==
  \A w \in Threads :
    /\ m_hEvent[w] \/ pc[w] \in {"reset", "lock"} => Len(m_task_list[w]) >= 1
    /\ m_hEvent[w] /\ pc[w] = "lock" => Len(m_task_list[w]) >= 2

LEMMA WakeStep == TypeOK /\ WakeInv /\ [Next]_vars => WakeInv'
<1> SUFFICES ASSUME TypeOK, WakeInv, [Next]_vars
             PROVE  WakeInv'
  OBVIOUS
<1> USE DEF TypeOK, WakeInv
<1>1. ASSUME NEW w \in Threads, AddTask(w)
      PROVE  WakeInv'
  BY <1>1 DEF AddTask
<1>2. ASSUME NEW w \in Threads, Wait(w)
      PROVE  WakeInv'
  BY <1>2 DEF Wait
<1>3. ASSUME NEW w \in Threads, Reset(w)
      PROVE  WakeInv'
  BY <1>3 DEF Reset
<1>4. ASSUME NEW w \in Threads, Take(w)
      PROVE  WakeInv'
  <2>1. m_task_list[w] # <<>>
    BY <1>4 DEF Take
  <2>2. Len(Tail(m_task_list[w])) = Len(m_task_list[w]) - 1
    BY <2>1
  <2> QED BY <1>4, <2>1, <2>2 DEF Take
<1>5. ASSUME NEW w \in Threads, Run(w)
      PROVE  WakeInv'
  BY <1>5 DEF Run
<1>6. CASE UNCHANGED vars
  BY <1>6 DEF vars
<1> QED BY <1>1, <1>2, <1>3, <1>4, <1>5, <1>6 DEF Next, Execute

\* A worker that was woken finds a task in its list, however PushTask falls
\* between its Wait, Reset and Lock.
THEOREM WokenForATask == Spec => []NeverWokenInVain
<1>1. Init => WakeInv
  BY DEF Init, WakeInv
<1>2. TypeOK /\ WakeInv => NeverWokenInVain
  BY DEF TypeOK, WakeInv, NeverWokenInVain
<1> QED BY <1>1, <1>2, TypeAlways, WakeStep, PTL DEF Spec

-----------------------------------------------------------------------------
(* Order.                                                                  *)

Task == Nat \ {NoTask}

\* Run tasks e, task p in hand, list l: one line of tasks.
InLine(e, p, l) == e \o (IF p = NoTask THEN <<>> ELSE <<p>>) \o l

LEMMA HandType ==
  ASSUME NEW p \in Nat
  PROVE  (IF p = NoTask THEN <<>> ELSE <<p>>) \in Seq(Task)
<1>1. CASE p = NoTask
  BY <1>1
<1>2. CASE p # NoTask
  <2>1. p \in Task
    BY <1>2 DEF Task
  <2> QED BY <1>2, <2>1
<1> QED BY <1>1, <1>2

LEMMA InLineType ==
  ASSUME NEW e \in Seq(Task), NEW p \in Nat, NEW l \in Seq(Task)
  PROVE  InLine(e, p, l) \in Seq(Task)
<1>1. e \o (IF p = NoTask THEN <<>> ELSE <<p>>) \in Seq(Task)
  BY HandType, ConcatProperties
<1> QED BY <1>1, ConcatProperties DEF InLine

\* Taking a task into the hand leaves the line as it is.
LEMMA TakeKeepsLine ==
  ASSUME NEW e \in Seq(Task), NEW l \in Seq(Task), l # <<>>
  PROVE  InLine(e, Head(l), Tail(l)) = InLine(e, NoTask, l)
<1> DEFINE h == <<Head(l)>>
<1>1. Head(l) \in Task /\ Tail(l) \in Seq(Task) /\ h \in Seq(Task)
  BY HeadTailProperties
<1>2. h \o Tail(l) = l
  <2>1. /\ Len(h \o Tail(l)) = Len(l) /\ h \o Tail(l) \in Seq(Task)
        /\ \A i \in 1 .. Len(l) :
             (h \o Tail(l))[i] = IF i <= 1 THEN h[i] ELSE Tail(l)[i - 1]
    BY <1>1, HeadTailProperties, ConcatProperties, LenProperties
  <2>2. \A i \in 1 .. Len(l) : (h \o Tail(l))[i] = l[i]
    BY <2>1, HeadTailProperties
  <2> QED BY <2>1, <2>2, SeqEqual
<1>3. InLine(e, Head(l), Tail(l)) = (e \o h) \o Tail(l)
  BY <1>1 DEF InLine, Task
<1>4. InLine(e, NoTask, l) = (e \o <<>>) \o l
  BY DEF InLine
<1>5. e \o <<>> = e
  BY ConcatEmptySeq
<1>6. (e \o h) \o Tail(l) = e \o (h \o Tail(l))
  BY <1>1, ConcatAssociative
<1> HIDE DEF h
<1> QED BY <1>2, <1>3, <1>4, <1>5, <1>6

\* So does running it.
LEMMA RunKeepsLine ==
  ASSUME NEW e \in Seq(Task), NEW p \in Task, NEW l \in Seq(Task)
  PROVE  InLine(Append(e, p), NoTask, l) = InLine(e, p, l)
<1>1. Append(e, p) = e \o <<p>> /\ Append(e, p) \in Seq(Task)
  BY AppendIsConcat, AppendProperties
<1>2. InLine(Append(e, p), NoTask, l) = (Append(e, p) \o <<>>) \o l
  BY DEF InLine
<1>3. Append(e, p) \o <<>> = Append(e, p)
  BY <1>1, ConcatEmptySeq
<1>4. InLine(e, p, l) = (e \o <<p>>) \o l
  BY DEF InLine, Task
<1> QED BY <1>1, <1>2, <1>3, <1>4

\* A new task goes to the end of the line.
LEMMA AddEndsLine ==
  ASSUME NEW e \in Seq(Task), NEW p \in Nat, NEW l \in Seq(Task), NEW t \in Task
  PROVE  InLine(e, p, Append(l, t)) = Append(InLine(e, p, l), t)
<1> DEFINE s == e \o (IF p = NoTask THEN <<>> ELSE <<p>>)
<1>1. s \in Seq(Task)
  BY HandType, ConcatProperties
<1>2. /\ InLine(e, p, Append(l, t)) = s \o Append(l, t)
      /\ InLine(e, p, l) = s \o l
  BY DEF InLine
<1> HIDE DEF s
<1>3. Append(l, t) = l \o <<t>> /\ <<t>> \in Seq(Task)
  BY AppendIsConcat
<1>4. Append(s \o l, t) = (s \o l) \o <<t>>
  BY <1>1, ConcatProperties, AppendIsConcat
<1>5. (s \o l) \o <<t>> = s \o (l \o <<t>>)
  BY <1>1, <1>3, ConcatAssociative
<1> QED BY <1>2, <1>3, <1>4, <1>5

\* The tasks in every worker's line increase, and were all added.
OrderInv ==
  \A w \in Threads :
    /\ \A k \in 1 .. Len(TasksOf(w)) : TasksOf(w)[k] <= added
    /\ \A j, k \in 1 .. Len(TasksOf(w)) :
         j < k => TasksOf(w)[j] < TasksOf(w)[k]

LEMMA TasksOfLine ==
  ASSUME TypeOK, NEW w \in Threads
  PROVE  /\ TasksOf(w) = InLine(executed[w], pTask[w], m_task_list[w])
         /\ TasksOf(w) \in Seq(Task)
         /\ executed[w] \in Seq(Task) /\ m_task_list[w] \in Seq(Task)
         /\ pTask[w] \in Nat
<1>1. TasksOf(w) = InLine(executed[w], pTask[w], m_task_list[w])
  BY DEF TasksOf, InLine
<1>2. /\ executed[w] \in Seq(Task) /\ m_task_list[w] \in Seq(Task)
      /\ pTask[w] \in Nat
  BY DEF TypeOK, Task
<1> QED BY <1>1, <1>2, InLineType

\* Every step but AddTask leaves every worker's line as it is.
LEMMA ExecuteKeepsLine ==
  ASSUME TypeOK, NEW w \in Threads, Execute(w), NEW v \in Threads
  PROVE  TasksOf(v)' = TasksOf(v)
<1>1. CASE Wait(w) \/ Reset(w)
  BY <1>1 DEF Wait, Reset, TasksOf
<1>2. CASE Take(w)
  <2>1. CASE v = w /\ m_task_list[w] # <<>>
    <3>1. /\ executed' = executed /\ pTask[w] = NoTask
          /\ pTask'[w] = Head(m_task_list[w])
          /\ m_task_list'[w] = Tail(m_task_list[w])
      BY <1>2, <2>1 DEF Take, TypeOK
    <3>2. TasksOf(w)' = InLine(executed[w], pTask'[w], m_task_list'[w])
      BY <3>1 DEF TasksOf, InLine
    <3> QED BY <2>1, <3>1, <3>2, TasksOfLine, TakeKeepsLine
  <2>2. CASE v = w /\ m_task_list[w] = <<>>
    BY <1>2, <2>2 DEF Take, TypeOK, TasksOf
  <2>3. CASE v # w
    BY <1>2, <2>3 DEF Take, TypeOK, TasksOf
  <2> QED BY <2>1, <2>2, <2>3
<1>3. CASE Run(w)
  <2>1. CASE v = w /\ pTask[w] # NoTask
    <3>1. /\ m_task_list' = m_task_list /\ pTask'[w] = NoTask
          /\ executed'[w] = Append(executed[w], pTask[w])
      BY <1>3, <2>1 DEF Run, TypeOK
    <3>2. TasksOf(w)' = InLine(executed'[w], pTask'[w], m_task_list[w])
      BY <3>1 DEF TasksOf, InLine
    <3>3. pTask[w] \in Task
      BY <2>1, TasksOfLine DEF Task
    <3> QED BY <2>1, <3>1, <3>2, <3>3, TasksOfLine, RunKeepsLine
  <2>2. CASE v = w /\ pTask[w] = NoTask
    BY <1>3, <2>2 DEF Run, TypeOK, TasksOf
  <2>3. CASE v # w
    BY <1>3, <2>3 DEF Run, TypeOK, TasksOf
  <2> QED BY <2>1, <2>2, <2>3
<1> QED BY <1>1, <1>2, <1>3 DEF Execute

LEMMA OrderStep == TypeOK /\ OrderInv /\ [Next]_vars => OrderInv'
<1> SUFFICES ASSUME TypeOK, OrderInv, [Next]_vars
             PROVE  OrderInv'
  OBVIOUS
<1>1. ASSUME NEW w \in Threads, AddTask(w)
      PROVE  OrderInv'
  <2>1. /\ added \in Nat /\ added' = added + 1 /\ added' \in Task
        /\ UNCHANGED <<pTask, executed>>
    BY <1>1 DEF AddTask, TypeOK, Task, NoTask
  <2>2. ASSUME NEW v \in Threads, v # w
        PROVE  TasksOf(v)' = TasksOf(v)
    BY <1>1, <2>2 DEF AddTask, TypeOK, TasksOf
  <2>3. TasksOf(w)' = Append(TasksOf(w), added')
    <3>1. m_task_list'[w] = Append(m_task_list[w], added')
      BY <1>1 DEF AddTask, TypeOK
    <3>2. TasksOf(w)' = InLine(executed[w], pTask[w], m_task_list'[w])
      BY <2>1 DEF TasksOf, InLine
    <3>3. /\ TasksOf(w) = InLine(executed[w], pTask[w], m_task_list[w])
          /\ executed[w] \in Seq(Task) /\ m_task_list[w] \in Seq(Task)
          /\ pTask[w] \in Nat
      BY TasksOfLine
    <3>4. InLine(executed[w], pTask[w], Append(m_task_list[w], added'))
            = Append(InLine(executed[w], pTask[w], m_task_list[w]), added')
      BY <2>1, <3>3, AddEndsLine
    <3> QED BY <3>1, <3>2, <3>3, <3>4
  <2> DEFINE line == TasksOf(w)
  <2>4. /\ line \in Seq(Task) /\ Len(line) \in Nat
        /\ \A k \in 1 .. Len(line) : line[k] \in Nat /\ line[k] <= added
        /\ \A j, k \in 1 .. Len(line) : j < k => line[j] < line[k]
    <3>1. line \in Seq(Task)
      BY TasksOfLine
    <3>2. /\ \A k \in 1 .. Len(line) : line[k] <= added
          /\ \A j, k \in 1 .. Len(line) : j < k => line[j] < line[k]
      BY DEF OrderInv
    <3> HIDE DEF line
    <3>3. Len(line) \in Nat /\ \A k \in 1 .. Len(line) : line[k] \in Nat
      BY <3>1, LenProperties, ElementOfSeq DEF Task
    <3> QED BY <3>1, <3>2, <3>3
  <2> HIDE DEF line
  <2>5. /\ Len(Append(line, added')) = Len(line) + 1
        /\ \A k \in 1 .. Len(line) : Append(line, added')[k] = line[k]
        /\ Append(line, added')[Len(line) + 1] = added'
    BY <2>1, <2>4, AppendProperties
  <2>6. \A k \in 1 .. (Len(line) + 1) : Append(line, added')[k] <= added'
    BY <2>1, <2>4, <2>5
  <2>7. \A j, k \in 1 .. (Len(line) + 1) :
          j < k => Append(line, added')[j] < Append(line, added')[k]
    BY <2>1, <2>4, <2>5
  <2>8. TasksOf(w)' = Append(line, added')
    BY <2>3 DEF line
  <2>9. ASSUME NEW v \in Threads
        PROVE  /\ \A k \in 1 .. Len(TasksOf(v)') : TasksOf(v)'[k] <= added'
               /\ \A j, k \in 1 .. Len(TasksOf(v)') :
                    j < k => TasksOf(v)'[j] < TasksOf(v)'[k]
    <3>1. CASE v = w
      BY <2>5, <2>6, <2>7, <2>8, <3>1
    <3>2. CASE v # w
      <4>1. \A k \in 1 .. Len(TasksOf(v)) : TasksOf(v)[k] \in Nat
        <5>1. TasksOf(v) \in Seq(Task)
          BY TasksOfLine
        <5> QED BY <5>1, LenProperties, ElementOfSeq DEF Task
      <4> QED BY <2>1, <2>2, <3>2, <4>1 DEF OrderInv
    <3> QED BY <3>1, <3>2
  <2> QED BY <2>9 DEF OrderInv
<1>2. ASSUME NEW w \in Threads, Execute(w)
      PROVE  OrderInv'
  <2>1. added' = added
    BY <1>2 DEF Execute, Wait, Reset, Take, Run
  <2> QED BY <1>2, <2>1, ExecuteKeepsLine DEF OrderInv
<1>3. CASE UNCHANGED vars
  BY <1>3 DEF vars, OrderInv, TasksOf
<1> QED BY <1>1, <1>2, <1>3 DEF Next

\* Each worker runs the tasks it was given once each, in the order they were
\* added, for any number of tasks and however adding and running interleave.
THEOREM RunsInOrder == Spec => []TasksInOrder
<1>1. Init => OrderInv
  <2> SUFFICES ASSUME Init, NEW w \in Threads
               PROVE  1 .. Len(TasksOf(w)) = {}
    BY DEF OrderInv
  <2>1. TasksOf(w) = <<>> \o <<>> \o <<>>
    BY DEF Init, TasksOf
  <2>2. <<>> \o <<>> \o <<>> = <<>>
    BY ConcatEmptySeq, EmptySeq
  <2>3. Len(TasksOf(w)) = 0
    BY <2>1, <2>2, EmptySeq
  <2> QED BY <2>3
<1>2. TypeOK /\ OrderInv => TasksInOrder
  <2> SUFFICES ASSUME TypeOK, OrderInv, NEW w \in Threads
               PROVE  \A j, k \in DOMAIN TasksOf(w) :
                        j < k => TasksOf(w)[j] < TasksOf(w)[k]
    BY DEF TasksInOrder
  <2>1. DOMAIN TasksOf(w) = 1 .. Len(TasksOf(w))
    BY TasksOfLine, LenProperties
  <2> QED BY <2>1 DEF OrderInv
<1> QED BY <1>1, <1>2, TypeAlways, OrderStep, PTL DEF Spec
=============================================================================
