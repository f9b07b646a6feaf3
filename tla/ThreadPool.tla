----------------------------- MODULE ThreadPool -----------------------------
(***************************************************************************)
(* The Version 1 thread pool: the main thread's StartDispatch makes one    *)
(* task of every writable or exceptional handle select() reports and gives *)
(* it to a worker thread chosen at random.  Each worker has a task list    *)
(* and an event; it waits for the event, resets it and takes one task.     *)
(*                                                                         *)
(* Tasks are numbered in the order AddTask gets them.  PushTask and the    *)
(* worker's access to its list are critical sections of the same lock, one *)
(* step each; Wait and Reset are made without the lock.                    *)
(***************************************************************************)
EXTENDS Naturals, Sequences

CONSTANTS
  Threads,  \* the worker threads of the pool
  MaxTasks  \* bound: tasks the main thread adds

ASSUME PoolAssumption == MaxTasks \in Nat

\* No task, and the NULL a worker's pTask starts as.
NoTask == 0

VARIABLES
  added,       \* number of tasks added so far
  m_task_list, \* CWorkerThread::m_task_list
  m_hEvent,    \* CThreadNotify::m_hEvent: is the event signalled?
  pc,          \* worker: "wait", "reset", "lock" or "run"
  pTask,       \* worker: the task it took
  executed     \* the tasks each worker has run, in order

vars == <<added, m_task_list, m_hEvent, pc, pTask, executed>>

Init ==
  /\ added = 0
  /\ m_task_list = [w \in Threads |-> <<>>]
  /\ m_hEvent = [w \in Threads |-> FALSE]
  /\ pc = [w \in Threads |-> "wait"]
  /\ pTask = [w \in Threads |-> NoTask]
  /\ executed = [w \in Threads |-> <<>>]
-----------------------------------------------------------------------------
\* CThreadPool::AddTask, rand() having picked w, and CWorkerThread::PushTask.
AddTask(w) ==
  /\ added < MaxTasks
  /\ added' = added + 1
  /\ m_task_list' = [m_task_list EXCEPT ![w] = Append(@, added')]
  /\ m_hEvent' = [m_hEvent EXCEPT ![w] = TRUE]
  /\ UNCHANGED <<pc, pTask, executed>>

Wait(w) ==
  /\ pc[w] = "wait" /\ m_hEvent[w]
  /\ pc' = [pc EXCEPT ![w] = "reset"]
  /\ UNCHANGED <<added, m_task_list, m_hEvent, pTask, executed>>

\* Mutant: the event is not reset.
Reset_Forgotten(w) ==
  /\ pc[w] = "reset"
  /\ pc' = [pc EXCEPT ![w] = "lock"]
  /\ UNCHANGED <<added, m_task_list, m_hEvent, pTask, executed>>

\* The event is a manual-reset one: Wait leaves it signalled.
Reset(w) ==
  /\ pc[w] = "reset"
  /\ m_hEvent' = [m_hEvent EXCEPT ![w] = FALSE]
  /\ pc' = [pc EXCEPT ![w] = "lock"]
  /\ UNCHANGED <<added, m_task_list, pTask, executed>>

\* Mutant: the newest task is taken instead of the oldest.
Take_Newest(w) ==
  /\ pc[w] = "lock"
  /\ LET list == m_task_list[w]
     IN  IF list = <<>>
         THEN /\ pTask' = [pTask EXCEPT ![w] = NoTask]
              /\ UNCHANGED m_task_list
         ELSE /\ pTask' = [pTask EXCEPT ![w] = list[Len(list)]]
              /\ m_task_list' = [m_task_list EXCEPT
                                   ![w] = SubSeq(@, 1, Len(@) - 1)]
  /\ pc' = [pc EXCEPT ![w] = "run"]
  /\ UNCHANGED <<added, m_hEvent, executed>>

\* At most one task is taken under the lock.
Take(w) ==
  /\ pc[w] = "lock"
  /\ LET list == m_task_list[w]
     IN  IF list = <<>>
         THEN /\ pTask' = [pTask EXCEPT ![w] = NoTask]
              /\ UNCHANGED m_task_list
         ELSE /\ pTask' = [pTask EXCEPT ![w] = Head(list)]
              /\ m_task_list' = [m_task_list EXCEPT ![w] = Tail(@)]
  /\ pc' = [pc EXCEPT ![w] = "run"]
  /\ UNCHANGED <<added, m_hEvent, executed>>

\* Mutant: the event is reset after the task has run.
Run_ThenReset(w) ==
  /\ pc[w] = "run"
  /\ executed' = IF pTask[w] = NoTask THEN executed
                 ELSE [executed EXCEPT ![w] = Append(@, pTask[w])]
  /\ pTask' = [pTask EXCEPT ![w] = NoTask]
  /\ m_hEvent' = [m_hEvent EXCEPT ![w] = FALSE]
  /\ pc' = [pc EXCEPT ![w] = "wait"]
  /\ UNCHANGED <<added, m_task_list>>

\* pTask->run(), if there is a task, and delete.
Run(w) ==
  /\ pc[w] = "run"
  /\ executed' = IF pTask[w] = NoTask THEN executed
                 ELSE [executed EXCEPT ![w] = Append(@, pTask[w])]
  /\ pTask' = [pTask EXCEPT ![w] = NoTask]
  /\ pc' = [pc EXCEPT ![w] = "wait"]
  /\ UNCHANGED <<added, m_task_list, m_hEvent>>

Execute(w) == Wait(w) \/ Reset(w) \/ Take(w) \/ Run(w)
-----------------------------------------------------------------------------
Next == \E w \in Threads : AddTask(w) \/ Execute(w)

Spec == Init /\ [][Next]_vars

\* Every worker is scheduled; the main thread need not have more to add.
FairSpec == Spec /\ \A w \in Threads : WF_vars(Execute(w))
-----------------------------------------------------------------------------
TypeOK ==
  /\ added \in Nat
  /\ m_task_list \in [Threads -> Seq(Nat \ {NoTask})]
  /\ m_hEvent \in [Threads -> BOOLEAN]
  /\ pc \in [Threads -> {"wait", "reset", "lock", "run"}]
  /\ pTask \in [Threads -> Nat]
  /\ \A w \in Threads : pTask[w] # NoTask => pc[w] = "run"
  /\ executed \in [Threads -> Seq(Nat \ {NoTask})]

\* What passes through worker w's hands, from the oldest task to the newest.
TasksOf(w) ==
  executed[w] \o (IF pTask[w] = NoTask THEN <<>> ELSE <<pTask[w]>>)
              \o m_task_list[w]

\* A worker runs its tasks once each and in the order they were added.
TasksInOrder ==
  \A w \in Threads :
    \A j, k \in DOMAIN TasksOf(w) : j < k => TasksOf(w)[j] < TasksOf(w)[k]

\* A worker that was woken finds a task, however Reset and PushTask
\* interleave: the event never promises more than the list holds.
NeverWokenInVain ==
  \A w \in Threads : pc[w] = "lock" => m_task_list[w] # <<>>

\* The task a worker's event announces, the oldest in its list, is run.
SignalledTaskRuns ==
  \A w \in Threads : \A t \in 1 .. MaxTasks :
    (m_hEvent[w] /\ m_task_list[w] # <<>> /\ Head(m_task_list[w]) = t)
      ~> (\E k \in DOMAIN executed[w] : executed[w][k] = t)

\* Every task handed to a thread is run by that thread.
EveryTaskRuns ==
  \A w \in Threads : \A t \in 1 .. MaxTasks :
    (\E k \in DOMAIN m_task_list[w] : m_task_list[w][k] = t)
      ~> (\E k \in DOMAIN executed[w] : executed[w][k] = t)
=============================================================================
