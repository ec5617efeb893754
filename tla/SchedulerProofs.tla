-------------------------- MODULE SchedulerProofs --------------------------
(***************************************************************************)
(* Proofs, for any number of CPUs, threads and priorities in any mix, of   *)
(* what the scheduler promises: no thread is lost or scheduled twice,      *)
(* PickNext never comes back without a thread, and a CPU executes the      *)
(* thread that it was given.                                               *)
(*                                                                         *)
(* RemoveThread looks for the CPU of the thread by its current_thread,     *)
(* which other CPUs leave behind when they have put the thread back.  The  *)
(* promises therefore hold where RemoveThread is not called, or where      *)
(* there is one CPU only; the runs about two CPUs and waiting threads show *)
(* how they fail otherwise.                                                *)
(***************************************************************************)
EXTENDS Scheduler, FiniteSetTheorems, TLAPS

\* No thread waits for a semaphore and no user thread exits: the operations
\* that call RemoveThread do not occur.
NothingRemoved == Blockers = {} /\ \A t \in Enders : ClassOf[t] = "kernel"

\* No operation calls RemoveThread, or no second CPU can have left the thread
\* behind as its current one.
Undisturbed == NothingRemoved \/ \E c : CPUs = {c}

-----------------------------------------------------------------------------
(* The inductive invariant *)

\* Types; how far the counters go does not matter here.
PlacesType ==
    /\ queue \in [Classes -> Seq(Threads)]
    /\ current \in [CPUs -> Threads \cup {NoThread}]
    /\ cpu \in [CPUs -> {"thread", "check", "push", "select", "idle", "return"}]
    /\ tpc \in [Threads -> Active \cup {"new", "blocking", "blocked",
                                        "exiting", "resuming", "ended"}]
    /\ info = [c \in CPUs |-> c]
    /\ exec \in [CPUs -> Threads \cup {NoThread}]

\* CPU p holds t: it has not put it back into its queue.
Holds(p, t) == current[p] = t /\ cpu[p] \notin {"select", "idle"}

\* The thread is in the queue of its class.
InQueue(t) == \E i \in DOMAIN queue[ClassOf[t]] : queue[ClassOf[t]][i] = t

\* A queue has threads of its own class, each once.
QueuesApart ==
    \A k \in Classes : \A i \in DOMAIN queue[k] :
        /\ ClassOf[queue[k][i]] = k
        /\ \A j \in DOMAIN queue[k] : queue[k][i] = queue[k][j] => i = j

\* A thread is held by one CPU at most, and then it is in no queue.
HeldApart ==
    \A t \in Threads, p \in CPUs :
        Holds(p, t) => /\ ~InQueue(t)
                       /\ \A q \in CPUs : Holds(q, t) => q = p

\* The threads that can run are those in a queue or held.
ActivePlaced ==
    \A t \in Threads : tpc[t] \in Active <=> InQueue(t) \/ \E p \in CPUs : Holds(p, t)

\* PickNext puts back a thread, never none.
PushHasThread == \A c \in CPUs : cpu[c] = "push" => current[c] # NoThread

\* A CPU in RemoveThread is inside PickNext and executes the thread that waits
\* or exits; this happens with one CPU only.
RemovesItself ==
    \A c \in removing :
        /\ CPUs = {c}
        /\ cpu[c] # "thread" /\ exec[c] # NoThread
        /\ tpc[exec[c]] \in {"blocking", "exiting"}

\* PlacedOnce by itself is not inductive: that a step moves a thread and not a copy
\* needs to be known of queues, holders and states separately.
PlacesInv ==
    /\ PlacesType /\ QueuesApart /\ HeldApart /\ ActivePlaced
    /\ PushHasThread /\ RemovesItself

\* There is a kernel thread that goes on for ever, and an idle thread for every
\* further CPU: what kernel.cpp creates.
Stays(t) == ClassOf[t] = "kernel" /\ t \notin Fresh \cup Blockers \cup Enders
IdleThreads == {t \in Threads : ClassOf[t] = "idle"}
Staffed ==
    /\ \E t \in Threads : Stays(t)
    /\ Cardinality(IdleThreads) + 1 >= Cardinality(CPUs)

\* Those threads can always run.
StaffActive == \A t \in Threads : Stays(t) \/ t \in IdleThreads => tpc[t] \in Active

\* A CPU that takes, or is about to take, a thread from the four levels.
Busy(d) ==
    \/ cpu[d] = "select"
    \/ cpu[d] = "check" /\ current[d] = NoThread
    \/ cpu[d] # "idle" /\ current[d] # NoThread /\ ClassOf[current[d]] # "idle"

\* Some CPU is busy, so that at most the others need idle threads.
ServedInv ==
    /\ StaffActive
    /\ \E d \in CPUs : Busy(d)
    /\ \A c \in CPUs : cpu[c] \in {"thread", "return"} => current[c] # NoThread

\* A context is its thread's own, and a CPU outside PickNext executes its
\* current thread.
ContextsInv ==
    /\ saved = [t \in Threads |-> t]
    /\ \A c \in CPUs : cpu[c] = "thread" => exec[c] = current[c] /\ current[c] # NoThread

-----------------------------------------------------------------------------
(* What the queues hold *)

\* A queue that does not change holds the same threads.
LEMMA QueueKept ==
    ASSUME queue' = queue
    PROVE  /\ QueuesApart <=> QueuesApart'
           /\ \A u : InQueue(u)' <=> InQueue(u)
  BY Zenon DEF QueuesApart, InQueue

\* A thread that was in no queue is added to that of its class.
LEMMA QueueAppended ==
    ASSUME queue \in [Classes -> Seq(Threads)], QueuesApart,
           NEW t \in Threads, ~InQueue(t),
           queue' = [queue EXCEPT ![ClassOf[t]] = Append(@, t)]
    PROVE  /\ queue' \in [Classes -> Seq(Threads)]
           /\ QueuesApart'
           /\ \A u \in Threads : InQueue(u)' <=> InQueue(u) \/ u = t
<1> DEFINE k == ClassOf[t]
           s == queue[k]
<1>1. k \in Classes /\ \A u \in Threads : ClassOf[u] \in Classes
  BY SchedulerAssumption, Zenon
<1>2. s \in Seq(Threads)
  BY <1>1, Zenon
<1>3. /\ queue'[k] = Append(s, t) /\ Append(s, t) \in Seq(Threads)
      /\ \A r \in Classes : r # k => queue'[r] = queue[r]
  BY <1>1, <1>2
<1>4. /\ DOMAIN Append(s, t) = 1..(Len(s) + 1) /\ DOMAIN s = 1..Len(s) /\ Len(s) \in Nat
      /\ \A i \in 1..Len(s) : Append(s, t)[i] = s[i]
      /\ Append(s, t)[Len(s) + 1] = t
  BY <1>2
<1>5. queue' \in [Classes -> Seq(Threads)]
  BY <1>1, <1>2, <1>3, Zenon
<1>6. \A i \in DOMAIN s : s[i] # t /\ s[i] \in Threads
  BY <1>2 DEF InQueue
<1> HIDE DEF k, s
<1>7. ASSUME NEW r \in Classes, NEW i \in DOMAIN queue'[r]
      PROVE  /\ ClassOf[queue'[r][i]] = r
             /\ \A j \in DOMAIN queue'[r] : queue'[r][i] = queue'[r][j] => i = j
  <2>1. CASE r # k
    BY <1>7, <2>1, <1>3 DEF QueuesApart
  <2>2. CASE r = k
    <3>1. i \in 1..(Len(s) + 1) /\ queue'[r] = Append(s, t)
      BY <1>3, <1>4, <2>2, Zenon
    <3>2. \A j \in 1..Len(s) : ClassOf[s[j]] = k /\ \A m \in 1..Len(s) : s[j] = s[m] => j = m
      BY <1>1, <1>4, Zenon DEF QueuesApart, k, s
    <3>3. i = Len(s) + 1 \/ i \in 1..Len(s)
      BY <3>1, <1>4
    <3>4. ClassOf[t] = k
      BY Zenon DEF k
    <3>5. \A j \in 1..(Len(s) + 1) : j = Len(s) + 1 \/ j \in 1..Len(s)
      BY <1>4
    <3> QED BY <3>1, <3>2, <3>3, <3>4, <3>5, <1>4, <1>6, <2>2
  <2> QED BY <2>1, <2>2, Zenon
<1>8. ASSUME NEW u \in Threads
      PROVE  InQueue(u)' <=> InQueue(u) \/ u = t
  <2>1. CASE ClassOf[u] # k
    BY <2>1, <1>1, <1>3, Zenon DEF InQueue, k
  <2>2. CASE ClassOf[u] = k
    <3>1. InQueue(u) <=> \E i \in 1..Len(s) : s[i] = u
      BY <2>2, <1>4, Zenon DEF InQueue, s
    <3>2. InQueue(u)' <=> \E i \in 1..(Len(s) + 1) : Append(s, t)[i] = u
      BY <2>2, <1>3, <1>4, Zenon DEF InQueue
    <3>3. \A j \in 1..(Len(s) + 1) : j = Len(s) + 1 \/ j \in 1..Len(s)
      BY <1>4
    <3>4. 1..Len(s) \subseteq 1..(Len(s) + 1) /\ Len(s) + 1 \in 1..(Len(s) + 1)
      BY <1>4
    <3> QED BY <3>1, <3>2, <3>3, <3>4, <1>4, Zenon
  <2> QED BY <2>1, <2>2, Zenon
<1> QED BY <1>5, <1>7, <1>8, Zenon DEF QueuesApart

\* The first thread of a queue is taken out of it.
LEMMA QueueTaken ==
    ASSUME queue \in [Classes -> Seq(Threads)], QueuesApart,
           NEW k \in Classes, queue[k] # <<>>,
           queue' = [queue EXCEPT ![k] = Tail(@)]
    PROVE  LET h == Head(queue[k])
           IN  /\ queue' \in [Classes -> Seq(Threads)]
               /\ QueuesApart'
               /\ h \in Threads /\ ClassOf[h] = k /\ InQueue(h)
               /\ \A u \in Threads : InQueue(u)' <=> InQueue(u) /\ u # h
<1> DEFINE s == queue[k]
           h == Head(s)
           rest == Tail(s)
<1>1. s \in Seq(Threads) /\ s # <<>>
  OBVIOUS
<1>2. /\ queue'[k] = rest /\ rest \in Seq(Threads)
      /\ \A r \in Classes : r # k => queue'[r] = queue[r]
  BY <1>1
<1>3. /\ Len(s) \in Nat \ {0} /\ DOMAIN s = 1..Len(s) /\ DOMAIN rest = 1..(Len(s) - 1)
      /\ \A i \in 1..(Len(s) - 1) : rest[i] = s[i + 1]
      /\ h = s[1] /\ 1 \in 1..Len(s)
  BY <1>1
<1>4. queue' \in [Classes -> Seq(Threads)]
  BY <1>1, <1>2, Zenon
<1>5. \A i \in 1..Len(s) : s[i] \in Threads /\ ClassOf[s[i]] = k
                           /\ \A j \in 1..Len(s) : s[i] = s[j] => i = j
  BY <1>1, <1>3 DEF QueuesApart
<1> HIDE DEF s, h, rest
<1>6. h \in Threads /\ ClassOf[h] = k
  BY <1>3, <1>5, Zenon
<1>7. InQueue(h)
  BY <1>3, <1>6, Zenon DEF InQueue, s
<1>8. ASSUME NEW r \in Classes, NEW i \in DOMAIN queue'[r]
      PROVE  /\ ClassOf[queue'[r][i]] = r
             /\ \A j \in DOMAIN queue'[r] : queue'[r][i] = queue'[r][j] => i = j
  <2>1. CASE r # k
    BY <1>8, <2>1, <1>2, Zenon DEF QueuesApart
  <2>2. CASE r = k
    <3>1. i \in 1..(Len(s) - 1) /\ queue'[r] = rest
      BY <1>2, <1>3, <2>2, Zenon
    <3>2. \A j \in 1..(Len(s) - 1) : j \in Int /\ j + 1 \in 1..Len(s)
      BY <1>3
    <3>3. ASSUME NEW j \in 1..(Len(s) - 1), rest[i] = rest[j]
          PROVE  i = j
      <4>1. i + 1 = j + 1
        BY <3>1, <3>2, <3>3, <1>3, <1>5, Zenon
      <4> QED BY <4>1, <3>1, <3>2
    <3> QED BY <3>1, <3>2, <3>3, <1>3, <1>5, <2>2
  <2> QED BY <2>1, <2>2, Zenon
<1>9. ASSUME NEW u \in Threads
      PROVE  InQueue(u)' <=> InQueue(u) /\ u # h
  <2>1. CASE ClassOf[u] # k
    BY <2>1, <1>2, <1>6, SchedulerAssumption, Zenon DEF InQueue
  <2>2. CASE ClassOf[u] = k
    <3>1. InQueue(u) <=> \E i \in 1..Len(s) : s[i] = u
      BY <2>2, <1>3, Zenon DEF InQueue, s
    <3>2. InQueue(u)' <=> \E i \in 1..(Len(s) - 1) : rest[i] = u
      BY <2>2, <1>2, <1>3, Zenon DEF InQueue
    <3>6. InQueue(u)' <=> \E i \in 1..(Len(s) - 1) : s[i + 1] = u
      BY <3>2, <1>3, Zenon
    <3>3. \A i \in 1..(Len(s) - 1) : i + 1 \in 1..Len(s) /\ i + 1 # 1
      BY <1>3
    <3>4. ASSUME NEW i \in 1..Len(s), i # 1
          PROVE  i - 1 \in 1..(Len(s) - 1) /\ (i - 1) + 1 = i
      BY <1>3, <3>4
    <3>5. 1 \in 1..Len(s)
      BY <1>3, Zenon
    <3> QED BY <3>1, <3>3, <3>4, <3>5, <3>6, <1>3, <1>5, Zenon
  <2> QED BY <2>1, <2>2, Zenon
<1> QED BY <1>4, <1>6, <1>7, <1>8, <1>9, Zenon DEF QueuesApart, s, h

\* Unless the level is "idle", PickNext takes a thread from a queue that has one.
LEMMA SelectedNotEmpty ==
    ASSUME NEW p
    PROVE  /\ Selected(p) \in Classes
           /\ Selected(p) # "idle" => queue[Selected(p)] # <<>>
           /\ Selected(p) = "idle" => queue["kernel"] = <<>>
  BY Zenon DEF Selected, Pass, Classes, Levels

-----------------------------------------------------------------------------
(* Every step keeps the invariant *)

\* The types that most of the steps need.
LEMMA Typed ==
    ASSUME PlacesInv
    PROVE  /\ info = [c \in CPUs |-> c]
           /\ current \in [CPUs -> Threads \cup {NoThread}]
           /\ exec \in [CPUs -> Threads \cup {NoThread}]
           /\ DOMAIN cpu = CPUs /\ DOMAIN tpc = Threads
  BY Zenon DEF PlacesInv, PlacesType

\* A step that leaves queues, CPUs and states alone keeps the invariant.
LEMMA NothingMoves ==
    ASSUME PlacesInv, UNCHANGED <<queue, current, cpu, tpc, info, exec, removing>>
    PROVE  PlacesInv'
<1>1. QueuesApart' /\ \A u : InQueue(u)' <=> InQueue(u)
  BY QueueKept, Zenon DEF PlacesInv
<1>2. HeldApart' /\ ActivePlaced'
  BY <1>1 DEF PlacesInv, HeldApart, ActivePlaced, Holds
<1>3. PlacesType' /\ PushHasThread' /\ RemovesItself'
  BY Zenon DEF PlacesInv, PlacesType, PushHasThread, RemovesItself
<1> QED BY <1>1, <1>2, <1>3, Zenon DEF PlacesInv

\* A CPU in the scheduler whose current thread does not change moves on, from a
\* place where it holds the thread to another.
LEMMA MovesOn ==
    ASSUME PlacesInv, NEW c \in CPUs,
           NEW step \in {"thread", "check", "push", "return", "select"},
           cpu' = [cpu EXCEPT ![c] = step],
           step = "select" => current[c] = NoThread,
           cpu[c] \notin {"select", "idle"},
           step = "push" => current[c] # NoThread,
           c \in removing => step # "thread",
           UNCHANGED <<queue, current, tpc, info, exec, removing>>
    PROVE  PlacesInv'
<1> USE DEF PlacesInv, PlacesType
<1>1. PlacesType'
  OBVIOUS
<1>2. QueuesApart' /\ \A u : InQueue(u)' <=> InQueue(u)
  BY QueueKept, Zenon
<1>3. \A p \in CPUs, t \in Threads : Holds(p, t)' <=> Holds(p, t)
  BY SchedulerAssumption, Zenon DEF Holds
<1>4. HeldApart' /\ ActivePlaced'
  BY <1>2, <1>3, Zenon DEF HeldApart, ActivePlaced
<1>5. PushHasThread'
  BY Zenon DEF PushHasThread
<1>6. RemovesItself'
  BY Zenon DEF RemovesItself
<1> QED BY <1>1, <1>2, <1>4, <1>5, <1>6, Zenon

\* PickNext looks at the number of threads and at its current thread.
LEMMA CheckStep ==
    ASSUME PlacesInv, NEW c \in CPUs, PickCheck(c)
    PROVE  PlacesInv'
<1>1. info[c] = c
  BY Zenon DEF PlacesInv, PlacesType
<1>2. CASE g_total_threads = 0
  <2>1. UNCHANGED <<queue, current, cpu, tpc, info, exec, removing>>
    BY <1>2, Zenon DEF PickCheck, threadVars
  <2> QED BY <2>1, NothingMoves, Zenon
<1>3. CASE g_total_threads # 0
  <2>1. cpu[c] = "check" /\ UNCHANGED <<queue, current, tpc, info, exec, removing>>
    BY <1>3, Zenon DEF PickCheck, At, threadVars
  <2>2. PICK step \in {"select", "return", "push"} :
            /\ cpu' = [cpu EXCEPT ![c] = step]
            /\ step = "select" <=> current[c] = NoThread
    BY <1>1, <1>3, Zenon DEF PickCheck, GoCPU
  <2> QED BY <2>1, <2>2, MovesOn, Zenon
<1> QED BY <1>2, <1>3, Zenon

\* PickNext puts the current thread at the end of its queue.
LEMMA PushStep ==
    ASSUME PlacesInv, NEW c \in CPUs, PickPush(c)
    PROVE  PlacesInv'
<1> DEFINE t == current[c]
<1> USE DEF PlacesInv, PlacesType
<1>1. info[c] = c /\ cpu[c] = "push" /\ t \in Threads /\ Holds(c, t)
  BY Zenon DEF PickPush, At, PushHasThread, Holds
<1>2. /\ queue' = [queue EXCEPT ![ClassOf[t]] = Append(@, t)]
      /\ cpu' = [cpu EXCEPT ![c] = "select"]
      /\ UNCHANGED <<current, info, removing, exec, tpc>>
  BY <1>1, Zenon DEF PickPush, GoCPU
<1>3. ~InQueue(t)
  BY <1>1, Zenon DEF HeldApart
<1> HIDE DEF t
<1>4. /\ queue' \in [Classes -> Seq(Threads)]
      /\ QueuesApart'
      /\ \A u \in Threads : InQueue(u)' <=> InQueue(u) \/ u = t
  BY <1>1, <1>2, <1>3, QueueAppended, Zenon
<1>5. \A p \in CPUs, u \in Threads : Holds(p, u)' <=> Holds(p, u) /\ u # t
  BY <1>1, <1>2, Zenon DEF Holds, HeldApart, t
<1>6. HeldApart'
  BY <1>4, <1>5, Zenon DEF HeldApart
<1>7. ActivePlaced'
  BY <1>1, <1>2, <1>4, <1>5, Zenon DEF ActivePlaced
<1>8. PlacesType'
  BY <1>2, <1>4, Zenon
<1>9. PushHasThread' /\ RemovesItself'
  BY <1>2, Zenon DEF PushHasThread, RemovesItself
<1> QED BY <1>4, <1>6, <1>7, <1>8, <1>9, Zenon

\* A CPU takes the first thread of a queue.
LEMMA TakesThread ==
    ASSUME PlacesInv, NEW c \in CPUs, NEW k \in Classes,
           queue[k] # <<>>, cpu[c] \in {"select", "idle"},
           queue' = [queue EXCEPT ![k] = Tail(@)],
           current' = [current EXCEPT ![c] = Head(queue[k])],
           cpu' = [cpu EXCEPT ![c] = "return"],
           UNCHANGED <<info, removing, exec, tpc>>
    PROVE  PlacesInv'
<1> DEFINE h == Head(queue[k])
<1> USE DEF PlacesInv, PlacesType
<1>1. /\ queue' \in [Classes -> Seq(Threads)]
      /\ QueuesApart'
      /\ h \in Threads /\ InQueue(h)
      /\ \A u \in Threads : InQueue(u)' <=> InQueue(u) /\ u # h
  BY QueueTaken, Zenon
<1> HIDE DEF h
<1>2. \A p \in CPUs, u \in Threads : Holds(p, u)' <=> Holds(p, u) \/ (p = c /\ u = h)
  BY <1>1, Zenon DEF Holds, h
<1>3. \A p \in CPUs : ~Holds(p, h)
  BY <1>1, Zenon DEF HeldApart
<1>4. HeldApart'
  BY <1>1, <1>2, <1>3, ZenonT(40) DEF HeldApart
<1>5. ActivePlaced'
  BY <1>1, <1>2, Zenon DEF ActivePlaced
<1>6. PlacesType'
  BY <1>1, Zenon DEF h
<1>7. PushHasThread' /\ RemovesItself'
  BY Zenon DEF PushHasThread, RemovesItself
<1> QED BY <1>1, <1>4, <1>5, <1>6, <1>7, Zenon

\* A CPU at "select" or "idle" goes to "idle", or to "return" without a thread.
LEMMA TakesNone ==
    ASSUME PlacesInv, NEW c \in CPUs, cpu[c] \in {"select", "idle"},
           \/ cpu' = [cpu EXCEPT ![c] = "idle"] /\ current' = current
           \/ cpu' = [cpu EXCEPT ![c] = "return"] /\ current' = [current EXCEPT ![c] = NoThread],
           UNCHANGED <<queue, info, removing, exec, tpc>>
    PROVE  PlacesInv'
<1> USE DEF PlacesInv, PlacesType
<1>1. QueuesApart' /\ \A u : InQueue(u)' <=> InQueue(u)
  BY QueueKept, Zenon
<1>2. \A p \in CPUs, u \in Threads : Holds(p, u)' <=> Holds(p, u)
  BY SchedulerAssumption, Zenon DEF Holds
<1>3. HeldApart' /\ ActivePlaced'
  BY <1>1, <1>2, Zenon DEF HeldApart, ActivePlaced
<1>4. PlacesType' /\ PushHasThread' /\ RemovesItself'
  BY Zenon DEF PushHasThread, RemovesItself
<1> QED BY <1>1, <1>3, <1>4, Zenon

\* PickNext takes the first thread of the level whose turn it is.
LEMMA SelectStep ==
    ASSUME PlacesInv, NEW c \in CPUs, PickSelect(c)
    PROVE  PlacesInv'
<1>1. info[c] = c /\ cpu[c] = "select"
  BY Zenon DEF PlacesInv, PlacesType, PickSelect, At
<1>2. CASE Selected(c) = "idle"
  BY <1>1, <1>2, TakesNone, Zenon DEF PickSelect, GoCPU
<1>3. CASE Selected(c) # "idle"
  BY <1>1, <1>3, SelectedNotEmpty, TakesThread DEF PickSelect, GoCPU
<1> QED BY <1>2, <1>3, Zenon

\* PickNext takes an idle thread, or none.
LEMMA IdleStep ==
    ASSUME PlacesInv, NEW c \in CPUs, PickIdle(c)
    PROVE  PlacesInv'
<1>1. info[c] = c /\ cpu[c] = "idle" /\ "idle" \in Classes
  BY Zenon DEF PlacesInv, PlacesType, PickIdle, At, Classes
<1>2. CASE queue["idle"] = <<>>
  BY <1>1, <1>2, TakesNone, Zenon DEF PickIdle, GoCPU
<1>3. CASE queue["idle"] # <<>>
  BY <1>1, <1>3, TakesThread, Zenon DEF PickIdle, GoCPU
<1> QED BY <1>2, <1>3, Zenon

\* The context of the thread that was chosen is loaded.
LEMMA SwitchStep ==
    ASSUME PlacesInv, saved \in [Threads -> Threads], NEW c \in CPUs, Switch(c)
    PROVE  PlacesInv'
<1> USE DEF PlacesInv, PlacesType
<1>1. CASE current[c] = NoThread
  BY <1>1, NothingMoves, Zenon DEF Switch, threadVars
<1>2. CASE current[c] # NoThread
  <2>1. /\ cpu[c] = "return" /\ c \notin removing
        /\ cpu' = [cpu EXCEPT ![c] = "thread"]
        /\ exec' = [exec EXCEPT ![c] = saved[current[c]]]
        /\ UNCHANGED <<queue, current, tpc, info, removing>>
    BY <1>2, Zenon DEF Switch, At, GoCPU, threadVars
  <2>2. PlacesType'
    BY <1>2, <2>1, Zenon
  <2>3. QueuesApart' /\ \A u : InQueue(u)' <=> InQueue(u)
    BY <2>1, QueueKept, Zenon
  <2>4. \A p \in CPUs, t \in Threads : Holds(p, t)' <=> Holds(p, t)
    BY <2>1, Zenon DEF Holds
  <2>5. HeldApart' /\ ActivePlaced'
    BY <2>1, <2>3, <2>4, Zenon DEF HeldApart, ActivePlaced
  <2>6. PushHasThread' /\ RemovesItself'
    BY <2>1, Zenon DEF PushHasThread, RemovesItself
  <2> QED BY <2>2, <2>3, <2>5, <2>6, Zenon
<1> QED BY <1>1, <1>2, Zenon

\* The timer interrupts a thread and calls PickNext.
LEMMA TickStep ==
    ASSUME PlacesInv, NEW c \in CPUs, TimerTick(c)
    PROVE  PlacesInv'
<1>1. CASE current[c] = NoThread
  BY <1>1, NothingMoves, Zenon DEF TimerTick, threadVars
<1>2. CASE current[c] # NoThread
  <2>1. info' = info
    BY <1>2, Zenon DEF TimerTick, PlacesInv, PlacesType
  <2>2. /\ cpu[c] = "thread" /\ cpu' = [cpu EXCEPT ![c] = "check"]
        /\ UNCHANGED <<queue, current, tpc, info, exec, removing>>
    BY <1>2, <2>1, Zenon DEF TimerTick, At, GoCPU, threadVars
  <2> QED BY <2>2, MovesOn, Zenon
<1> QED BY <1>1, <1>2, Zenon

\* A CPU loses its current thread, which stops being able to run.
LEMMA Leaves ==
    ASSUME PlacesInv, NEW c \in CPUs, NEW t \in Threads, Calls(c, t),
           NEW place \in {"blocking", "exiting", "ended"},
           current' = [current EXCEPT ![c] = NoThread],
           cpu' = [cpu EXCEPT ![c] = "check"],
           tpc' = [tpc EXCEPT ![t] = place],
           \/ removing' = removing /\ place = "ended"
           \/ removing' = {c} /\ CPUs = {c} /\ place # "ended",
           UNCHANGED <<queue, info, exec>>
    PROVE  PlacesInv'
<1> USE DEF PlacesInv, PlacesType
<1>1. cpu[c] = "thread" /\ exec[c] = t /\ current[c] = t /\ tpc[t] = "user"
  BY Zenon DEF Calls, Runs, At
<1>2. QueuesApart' /\ \A u : InQueue(u)' <=> InQueue(u)
  BY QueueKept, Zenon
<1>3. ~InQueue(t) /\ \A p \in CPUs : Holds(p, t) <=> p = c
  <2>1. Holds(c, t)
    BY <1>1, Zenon DEF Holds
  <2> QED BY <2>1, Zenon DEF HeldApart
<1>9. \A p \in CPUs, u \in Threads : Holds(p, u)' <=> Holds(p, u) /\ u # t
  <2>1. TAKE p \in CPUs, u \in Threads
  <2>2. CASE p = c
    BY <1>1, <2>2, SchedulerAssumption, Zenon DEF Holds
  <2>3. CASE p # c
    <3>1. current'[p] = current[p] /\ cpu'[p] = cpu[p]
      BY <2>3, Zenon
    <3> QED BY <1>3, <2>3, <3>1, Zenon DEF Holds
  <2> QED BY <2>2, <2>3, Zenon
<1>4. HeldApart'
  BY <1>2, <1>9, Zenon DEF HeldApart
<1>5. tpc'[t] \notin Active /\ \A u \in Threads : u # t => tpc'[u] = tpc[u]
  BY Zenon DEF Active
<1>6. ActivePlaced'
  BY <1>2, <1>3, <1>5, <1>9, Zenon DEF ActivePlaced
<1>7. PlacesType' /\ PushHasThread'
  BY Zenon DEF PushHasThread
<1>8. RemovesItself'
  <2>1. CASE removing' = removing /\ place = "ended"
    BY <1>1, <2>1, Zenon DEF RemovesItself
  <2>2. CASE removing' = {c} /\ CPUs = {c} /\ place # "ended"
    BY <1>1, <2>2, SchedulerAssumption, Zenon DEF RemovesItself
  <2> QED BY <2>1, <2>2, Zenon
<1> QED BY <1>2, <1>4, <1>6, <1>7, <1>8, Zenon

\* With one CPU, RemoveThread finds the caller's own.
LEMMA RemoveOwn ==
    ASSUME PlacesInv, NEW c \in CPUs, NEW t \in Threads, CPUs = {c},
           Calls(c, t), RemoveThread(c, t)
    PROVE  /\ current' = [current EXCEPT ![c] = NoThread]
           /\ cpu' = [cpu EXCEPT ![c] = "check"]
           /\ removing' = {c}
           /\ UNCHANGED <<queue, info, exec>>
<1>1. {q \in CPUs : current[q] = t} = {c}
  BY Zenon DEF Calls
<1>2. Min({c}) = c
  BY SchedulerAssumption DEF Min
<1> QED
  BY <1>1, <1>2, Zenon DEF RemoveThread, GoCPU, PlacesInv, PlacesType

\* A thread begins to wait or exits.
LEMMA LeaveSteps ==
    ASSUME PlacesInv, Undisturbed, NEW c \in CPUs, NEW t \in Threads,
           Block(c, t) \/ Exit(c, t) \/ End(c, t)
    PROVE  PlacesInv'
<1>1. CASE Block(c, t)
  <2>1. CPUs = {c}
    BY <1>1, Zenon DEF Block, Undisturbed, NothingRemoved
  <2>2. Calls(c, t) /\ tpc' = [tpc EXCEPT ![t] = "blocking"]
    BY <1>1, Zenon DEF Block
  <2> QED BY <1>1, <2>1, <2>2, RemoveOwn, Leaves, Zenon DEF Block
<1>2. CASE Exit(c, t)
  <2>1. CPUs = {c}
    BY <1>2, Zenon DEF Exit, Undisturbed, NothingRemoved
  <2>2. Calls(c, t) /\ tpc' = [tpc EXCEPT ![t] = "exiting"]
    BY <1>2, Zenon DEF Exit
  <2> QED BY <1>2, <2>1, <2>2, RemoveOwn, Leaves, Zenon DEF Exit
<1>3. CASE End(c, t)
  <2>1. info' = info
    BY <1>3, Zenon DEF End, PlacesInv, PlacesType
  <2> QED BY <1>3, <2>1, Leaves, Zenon DEF End, GoCPU, threadVars
<1> QED BY <1>1, <1>2, <1>3, Zenon

\* RemoveThread comes back and the thread is no longer to be run.
LEMMA RemoveReturnStep ==
    ASSUME PlacesInv, NEW c \in CPUs, RemoveReturn(c)
    PROVE  PlacesInv'
<1> DEFINE t == exec[c]
<1> USE DEF PlacesInv, PlacesType
<1>1. /\ cpu[c] = "return" /\ t \in Threads /\ tpc[t] \in {"blocking", "exiting"}
      /\ removing' = {}
      /\ UNCHANGED <<queue, current, exec>>
  BY Zenon DEF RemoveReturn, RemovesItself, At, threadVars
<1>2. info' = info
  BY Zenon DEF RemoveReturn
<1>3. PICK place \in {"blocked", "resuming"} : tpc' = [tpc EXCEPT ![t] = place]
  BY Zenon DEF RemoveReturn
<1>4. PICK step \in {"check", "thread"} : cpu' = [cpu EXCEPT ![c] = step]
  BY Zenon DEF RemoveReturn, GoCPU
<1> HIDE DEF t
<1>5. QueuesApart' /\ \A u : InQueue(u)' <=> InQueue(u)
  BY <1>1, QueueKept, Zenon
<1>6. \A p \in CPUs, u \in Threads : Holds(p, u)' <=> Holds(p, u)
  BY <1>1, <1>4, Zenon DEF Holds
<1>7. \A u \in Threads : tpc'[u] \in Active <=> tpc[u] \in Active
  BY <1>1, <1>3, Zenon DEF Active
<1>8. HeldApart' /\ ActivePlaced'
  BY <1>5, <1>6, <1>7, Zenon DEF HeldApart, ActivePlaced
<1>9. PlacesType' /\ PushHasThread' /\ RemovesItself'
  BY <1>1, <1>2, <1>3, <1>4, Zenon DEF PushHasThread, RemovesItself
<1> QED BY <1>5, <1>8, <1>9, Zenon

\* A thread that could not run is put into its queue.
LEMMA ReadyStep ==
    ASSUME PlacesInv, NEW c \in CPUs, NEW t \in Threads, NEW u \in Threads,
           NEW place \in {"readd", "sched_push"},
           tpc[u] \in {"blocked", "new"}, MakeReady(c, t, u, place)
    PROVE  PlacesInv'
<1> USE DEF PlacesInv, PlacesType
<1>1. /\ cpu[c] = "thread" /\ tpc[t] = "user" /\ exec[c] = t
      /\ queue' = [queue EXCEPT ![ClassOf[u]] = Append(@, u)]
      /\ tpc' = [tpc EXCEPT ![t] = place, ![u] = "user"]
      /\ UNCHANGED <<current, cpu, info, removing, exec>>
  BY Zenon DEF MakeReady, Calls, Runs, At, cpuVars
<1>2. ~InQueue(u) /\ \A p \in CPUs : ~Holds(p, u)
  BY Zenon DEF ActivePlaced, Active
<1>3. /\ queue' \in [Classes -> Seq(Threads)]
      /\ QueuesApart'
      /\ \A v \in Threads : InQueue(v)' <=> InQueue(v) \/ v = u
  BY <1>1, <1>2, QueueAppended, Zenon
<1>4. \A p \in CPUs, v \in Threads : Holds(p, v)' <=> Holds(p, v)
  BY <1>1, Zenon DEF Holds
<1>5. \A v \in Threads : tpc'[v] \in Active <=> tpc[v] \in Active \/ v = u
  BY <1>1, Zenon DEF Active
<1>6. HeldApart' /\ ActivePlaced'
  BY <1>2, <1>3, <1>4, <1>5, Zenon DEF HeldApart, ActivePlaced
<1>7. PlacesType'
  BY <1>1, <1>3, Zenon DEF Active
<1>8. PushHasThread' /\ RemovesItself'
  <2>1. removing = {}
    BY <1>1 DEF RemovesItself
  <2> QED BY <1>1, <2>1, Zenon DEF PushHasThread, RemovesItself
<1> QED BY <1>3, <1>6, <1>7, <1>8, Zenon

\* A thread goes on inside a system call.
LEMMA CallStep ==
    ASSUME PlacesInv, NEW c \in CPUs, NEW t \in Threads,
           ScheduleCount(c, t) \/ Unlock(c, t)
    PROVE  PlacesInv'
<1> USE DEF PlacesInv, PlacesType
<1>1. PICK place \in Active : tpc' = [tpc EXCEPT ![t] = place]
  BY Zenon DEF ScheduleCount, Unlock, Active
<1>2. /\ cpu[c] = "thread" /\ tpc[t] \in Active
      /\ UNCHANGED <<queue, current, cpu, info, removing, exec>>
  BY Zenon DEF ScheduleCount, Unlock, Active, Runs, At, cpuVars
<1>3. QueuesApart' /\ \A u : InQueue(u)' <=> InQueue(u)
  BY <1>2, QueueKept, Zenon
<1>4. \A p \in CPUs, v \in Threads : Holds(p, v)' <=> Holds(p, v)
  BY <1>2, Zenon DEF Holds
<1>5. \A v \in Threads : tpc'[v] \in Active <=> tpc[v] \in Active
  BY <1>1, <1>2, Zenon DEF Active
<1>6. HeldApart' /\ ActivePlaced'
  BY <1>3, <1>4, <1>5, Zenon DEF HeldApart, ActivePlaced
<1>7. PlacesType'
  BY <1>1, <1>2, Zenon
<1>8. removing = {}
  BY <1>2 DEF RemovesItself
<1>9. PushHasThread' /\ RemovesItself'
  BY <1>2, <1>8, Zenon DEF PushHasThread, RemovesItself
<1> QED BY <1>3, <1>6, <1>7, <1>9, Zenon

-----------------------------------------------------------------------------
(* What the steps with the queues do to the CPUs *)

\* Putting a thread back changes no CPU but the step that it is at.
LEMMA PushEffect ==
    ASSUME PlacesInv, NEW c \in CPUs, PickPush(c)
    PROVE  /\ cpu[c] = "push" /\ cpu' = [cpu EXCEPT ![c] = "select"]
           /\ UNCHANGED <<current, info, removing, exec, saved, tpc>>
  BY Zenon DEF PickPush, At, GoCPU

\* A CPU turns to the idle list only if the kernel list is empty, and otherwise has
\* a thread that is not an idle one.
LEMMA SelectEffect ==
    ASSUME PlacesInv, NEW c \in CPUs, PickSelect(c)
    PROVE  /\ cpu[c] = "select"
           /\ UNCHANGED <<info, removing, exec, saved, tpc>>
           /\ \/ /\ queue["kernel"] = <<>>
                 /\ cpu' = [cpu EXCEPT ![c] = "idle"] /\ current' = current
              \/ \E h \in Threads :
                    /\ ClassOf[h] # "idle"
                    /\ cpu' = [cpu EXCEPT ![c] = "return"]
                    /\ current' = [current EXCEPT ![c] = h]
<1> DEFINE k == Selected(c)
<1>1. info[c] = c
  BY Typed, Zenon
<1>2. cpu[c] = "select" /\ UNCHANGED <<info, removing, exec, saved, tpc>>
  BY Zenon DEF PickSelect, At
<1>3. CASE k = "idle"
  <2>1. cpu' = [cpu EXCEPT ![c] = "idle"] /\ current' = current
    BY <1>1, <1>3, Zenon DEF PickSelect, GoCPU
  <2> QED BY <1>2, <1>3, <2>1, SelectedNotEmpty, Zenon
<1>4. CASE k # "idle"
  <2>1. k \in Classes /\ queue[k] # <<>>
    BY <1>4, SelectedNotEmpty, Zenon
  <2>2. cpu' = [cpu EXCEPT ![c] = "return"] /\ current' = [current EXCEPT ![c] = Head(queue[k])]
    BY <1>1, <1>4, Zenon DEF PickSelect, GoCPU
  <2> HIDE DEF k
  <2>3. Head(queue[k]) \in Threads /\ ClassOf[Head(queue[k])] = k
    BY <2>1 DEF PlacesInv, PlacesType, QueuesApart
  <2> QED BY <1>2, <1>4, <2>2, <2>3, Zenon
<1> QED BY <1>3, <1>4, Zenon

\* A CPU comes back from the idle list without a thread only if the list is empty.
LEMMA IdleEffect ==
    ASSUME PlacesInv, NEW c \in CPUs, PickIdle(c)
    PROVE  /\ cpu[c] = "idle" /\ cpu' = [cpu EXCEPT ![c] = "return"]
           /\ UNCHANGED <<info, removing, exec, saved, tpc>>
           /\ \/ queue["idle"] = <<>> /\ current' = [current EXCEPT ![c] = NoThread]
              \/ \E h \in Threads : current' = [current EXCEPT ![c] = h]
<1>1. info[c] = c
  BY Typed, Zenon
<1>2. /\ cpu[c] = "idle" /\ cpu' = [cpu EXCEPT ![c] = "return"]
      /\ UNCHANGED <<info, removing, exec, saved, tpc>>
  BY Zenon DEF PickIdle, At, GoCPU
<1>3. CASE queue["idle"] = <<>>
  <2>1. current' = [current EXCEPT ![c] = NoThread]
    BY <1>1, <1>3, Zenon DEF PickIdle
  <2> QED BY <1>2, <1>3, <2>1, Zenon
<1>4. CASE queue["idle"] # <<>>
  <2>1. current' = [current EXCEPT ![c] = Head(queue["idle"])]
    BY <1>1, <1>4, Zenon DEF PickIdle
  <2>2. Head(queue["idle"]) \in Threads
    BY <1>4 DEF PlacesInv, PlacesType, Classes
  <2> QED BY <1>2, <2>1, <2>2, Zenon
<1> QED BY <1>3, <1>4, Zenon

\* Making a thread ready changes no CPU, and no thread stops being able to run.
LEMMA ReadyEffect ==
    ASSUME PlacesInv, NEW c \in CPUs, NEW t \in Threads, NEW u \in Threads,
           ReaddThread(c, t, u) \/ ScheduleThread(c, t, u)
    PROVE  /\ UNCHANGED <<cpu, current, info, removing, exec, saved>>
           /\ \A v \in Threads : tpc'[v] = tpc[v] \/ tpc'[v] \in Active
<1>1. PICK place \in {"readd", "sched_push"} : MakeReady(c, t, u, place)
  BY Zenon DEF ReaddThread, ScheduleThread
<1>2. tpc' = [tpc EXCEPT ![t] = place, ![u] = "user"] /\ cpuVars' = cpuVars
  BY <1>1, Zenon DEF MakeReady
<1>3. UNCHANGED <<cpu, current, info, removing, exec, saved>>
  BY <1>2, Zenon DEF cpuVars
<1>4. \A v \in Threads : tpc'[v] = tpc[v] \/ tpc'[v] \in Active
  BY <1>2, Typed, Zenon DEF Active
<1> QED BY <1>3, <1>4, Zenon

\* Counting and unlocking change no CPU either.
LEMMA CallEffect ==
    ASSUME PlacesInv, NEW c \in CPUs, NEW t \in Threads,
           ScheduleCount(c, t) \/ Unlock(c, t)
    PROVE  /\ UNCHANGED <<cpu, current, info, removing, exec, saved>>
           /\ \A v \in Threads : tpc'[v] = tpc[v] \/ tpc'[v] \in Active
<1>1. cpuVars' = cpuVars
  BY Zenon DEF ScheduleCount, Unlock
<1>2. PICK place \in Active : tpc' = [tpc EXCEPT ![t] = place]
  BY Zenon DEF ScheduleCount, Unlock, Active
<1>3. UNCHANGED <<cpu, current, info, removing, exec, saved>>
  BY <1>1, Zenon DEF cpuVars
<1>4. \A v \in Threads : tpc'[v] = tpc[v] \/ tpc'[v] \in Active
  BY <1>2, Typed, Zenon
<1> QED BY <1>3, <1>4, Zenon

-----------------------------------------------------------------------------
(* The first state *)

\* An order of the threads of a class has each of them once.
LEMMA StartedOrder ==
    ASSUME NEW k, NEW q \in Started(k)
    PROVE  LET S == {t \in Threads \ Fresh : ClassOf[t] = k}
           IN  /\ q \in Seq(Threads)
               /\ \A i \in DOMAIN q : q[i] \in S /\ \A j \in DOMAIN q : q[i] = q[j] => i = j
               /\ \A t \in S : \E i \in DOMAIN q : q[i] = t
<1> DEFINE S == {t \in Threads \ Fresh : ClassOf[t] = k}
           n == Cardinality(S)
<1>1. IsFiniteSet(S) /\ n \in Nat
  BY SchedulerAssumption, FS_Subset, FS_CardinalityType, Zenon
<1>3. q \in Injection(1..n, S)
  BY Zenon DEF Started
<1> HIDE DEF n, S
<1>2. q \in [1..n -> S] /\ \A i, j \in 1..n : q[i] = q[j] => i = j
  BY <1>3, Zenon DEF Injection, IsInjective
<1>4. Cardinality(1..n) = n
  BY <1>1, FS_Interval
<1>5. q \in Surjection(1..n, S)
  BY <1>1, <1>3, <1>4, FS_Injection, Zenon DEF n
<1>6. \A t \in S : \E i \in 1..n : q[i] = t
  BY <1>5, Zenon DEF Surjection
<1>7. q \in Seq(S) /\ S \subseteq Threads
  BY <1>1, <1>2 DEF S
<1>8. q \in Seq(Threads)
  BY <1>1, <1>2, <1>7
<1> QED BY <1>2, <1>6, <1>8, Zenon DEF S

\* The invariant holds when the CPUs start.
LEMMA PlacesInit ==
    ASSUME Init
    PROVE  PlacesInv
<1>1. /\ current = [c \in CPUs |-> NoThread]
      /\ cpu = [c \in CPUs |-> "check"]
      /\ info = [c \in CPUs |-> c]
      /\ removing = {}
      /\ exec = [c \in CPUs |-> NoThread]
      /\ tpc = [t \in Threads |-> IF t \in Fresh THEN "new" ELSE "user"]
  BY Zenon DEF Init
<1>2. /\ queue \in [Classes -> UNION {Started(k) : k \in Classes}]
      /\ \A k \in Classes : queue[k] \in Started(k)
  BY Zenon DEF Init
<1>3. ASSUME NEW k \in Classes
      PROVE  /\ queue[k] \in Seq(Threads)
             /\ \A i \in DOMAIN queue[k] :
                   /\ queue[k][i] \in Threads \ Fresh /\ ClassOf[queue[k][i]] = k
                   /\ \A j \in DOMAIN queue[k] : queue[k][i] = queue[k][j] => i = j
             /\ \A t \in Threads \ Fresh :
                   ClassOf[t] = k => \E i \in DOMAIN queue[k] : queue[k][i] = t
  BY <1>2, <1>3, StartedOrder
<1>4. queue \in [Classes -> Seq(Threads)]
  BY <1>2, <1>3, Zenon
<1>5. QueuesApart
  BY <1>3, Zenon DEF QueuesApart
<1>6. \A t \in Threads : ClassOf[t] \in Classes
  BY SchedulerAssumption, Zenon
<1>7. \A t \in Threads : InQueue(t) <=> t \notin Fresh
  BY <1>3, <1>6 DEF InQueue
<1>8. \A p \in CPUs, t \in Threads : ~Holds(p, t)
  BY <1>1, SchedulerAssumption, Zenon DEF Holds
<1>9. \A t \in Threads : tpc[t] \in Active <=> t \notin Fresh
  BY <1>1, Zenon DEF Active
<1>10. HeldApart /\ ActivePlaced
  BY <1>7, <1>8, <1>9, Zenon DEF HeldApart, ActivePlaced
<1>11. PlacesType
  BY <1>1, <1>4, Zenon DEF PlacesType, Active
<1>12. PushHasThread /\ RemovesItself
  BY <1>1, Zenon DEF PushHasThread, RemovesItself
<1> QED BY <1>5, <1>10, <1>11, <1>12, Zenon DEF PlacesInv

-----------------------------------------------------------------------------
(* No thread is lost or scheduled twice *)

\* A CPU outside PickNext has loaded some thread.
Loaded ==
    /\ saved \in [Threads -> Threads]
    /\ \A c \in CPUs : cpu[c] = "thread" => exec[c] # NoThread

\* Every step leaves a context to every CPU that executes a thread.
LEMMA LoadedStep ==
    ASSUME PlacesInv, Loaded, NEW c \in CPUs,
           PickNext(c) \/ TimerTick(c) \/ SystemCall(c)
    PROVE  Loaded'
<1>0. /\ info = [x \in CPUs |-> x]
      /\ current \in [CPUs -> Threads \cup {NoThread}]
      /\ exec \in [CPUs -> Threads \cup {NoThread}]
      /\ DOMAIN cpu = CPUs /\ DOMAIN tpc = Threads
  BY Typed, Zenon
<1> USE <1>0 DEF Loaded, At, GoCPU
<1>1. CASE PickCheck(c)
  BY <1>1, Zenon DEF PickCheck
<1>8. CASE PickPush(c)
  BY <1>8, PushEffect, Zenon
<1>9. CASE PickSelect(c)
  BY <1>9, SelectEffect, Zenon
<1>10. CASE PickIdle(c)
  BY <1>10, IdleEffect, Zenon
<1>2. CASE Switch(c)
  BY <1>2, SchedulerAssumption, ZenonT(40) DEF Switch
<1>3. CASE RemoveReturn(c)
  BY <1>3, Zenon DEF RemoveReturn, PlacesInv, RemovesItself
<1>4. CASE TimerTick(c)
  BY <1>4, Zenon DEF TimerTick
<1>5. ASSUME NEW t \in Threads, Block(c, t) \/ Exit(c, t) \/ Resume(c, t) \/ End(c, t)
      PROVE  Loaded'
  BY <1>5, Zenon DEF Block, Exit, Resume, End, RemoveThread
<1>6. ASSUME NEW t \in Threads, ScheduleCount(c, t) \/ Unlock(c, t)
      PROVE  Loaded'
  BY <1>6, CallEffect, Zenon
<1>7. ASSUME NEW t \in Threads, NEW u \in Threads, ReaddThread(c, t, u) \/ ScheduleThread(c, t, u)
      PROVE  Loaded'
  BY <1>7, ReadyEffect, Zenon
<1> QED
  BY <1>1, <1>2, <1>3, <1>4, <1>5, <1>6, <1>7, <1>8, <1>9, <1>10, Zenon DEF PickNext, SystemCall

\* One step of a CPU keeps every thread in its one place.
LEMMA PlacesStep ==
    ASSUME PlacesInv, Loaded, Undisturbed, NEW c \in CPUs,
           PickNext(c) \/ TimerTick(c) \/ SystemCall(c)
    PROVE  PlacesInv'
<1>1. CASE PickNext(c)
  BY <1>1, CheckStep, PushStep, SelectStep, IdleStep, SwitchStep, RemoveReturnStep, Zenon
  DEF PickNext, Loaded
<1>2. CASE TimerTick(c)
  BY <1>2, TickStep, Zenon
<1>3. CASE SystemCall(c)
  <2>1. PICK t \in Threads :
            \/ Block(c, t) \/ Exit(c, t) \/ Resume(c, t) \/ End(c, t)
            \/ ScheduleCount(c, t) \/ Unlock(c, t)
            \/ \E u \in Threads : ReaddThread(c, t, u) \/ ScheduleThread(c, t, u)
    BY <1>3, Zenon DEF SystemCall
  <2>2. CASE Block(c, t) \/ Exit(c, t) \/ End(c, t)
    BY <2>2, LeaveSteps, Zenon
  <2>3. CASE Resume(c, t)
    <3>1. /\ cpu[c] = "thread" /\ cpu' = [cpu EXCEPT ![c] = "return"]
          /\ UNCHANGED <<queue, current, tpc, info, exec, removing>>
      BY <2>3, Zenon DEF Resume, Runs, At, GoCPU, threadVars
    <3> QED BY <3>1, MovesOn, Zenon
  <2>4. CASE ScheduleCount(c, t) \/ Unlock(c, t)
    BY <2>4, CallStep, Zenon
  <2>5. ASSUME NEW u \in Threads, ReaddThread(c, t, u) \/ ScheduleThread(c, t, u)
        PROVE  PlacesInv'
    BY <2>5, ReadyStep, Zenon DEF ReaddThread, ScheduleThread
  <2> QED BY <2>1, <2>2, <2>3, <2>4, <2>5, Zenon
<1> QED BY <1>1, <1>2, <1>3, Zenon

\* The invariant holds for ever.
LEMMA PlacesAlways == Undisturbed => (Spec => [](PlacesInv /\ Loaded))
<1> SUFFICES ASSUME Undisturbed
             PROVE  Spec => [](PlacesInv /\ Loaded)
  OBVIOUS
<1>1. Init => PlacesInv /\ Loaded
  <2>1. Init => Loaded
    BY Zenon DEF Init, Loaded
  <2> QED BY <2>1, PlacesInit, Zenon
<1>2. PlacesInv /\ Loaded /\ [Next]_vars => (PlacesInv /\ Loaded)'
  <2> SUFFICES ASSUME PlacesInv, Loaded, [Next]_vars
               PROVE  (PlacesInv /\ Loaded)'
    OBVIOUS
  <2>1. CASE Next
    BY <2>1, PlacesStep, LoadedStep, Zenon DEF Next
  <2>2. CASE UNCHANGED vars
    BY <2>2, NothingMoves, Zenon DEF vars, threadVars, cpuVars, Loaded
  <2> QED BY <2>1, <2>2, Zenon
<1> QED BY <1>1, <1>2, PTL DEF Spec

\* The invariant counts one place for every thread that can run.
LEMMA PlacedOnceNow ==
    ASSUME PlacesInv
    PROVE  PlacedOnce
<1> SUFFICES ASSUME NEW t \in Threads
             PROVE  Places(t) = IF tpc[t] \in Active THEN 1 ELSE 0
  BY Zenon DEF PlacedOnce
<1> DEFINE owners == {p \in CPUs : Owns(p, t)}
           k == ClassOf[t]
<1>1. k \in Classes
  BY SchedulerAssumption, Zenon
<1>2. \A p \in CPUs : Owns(p, t) <=> Holds(p, t)
  BY Zenon DEF Owns, Holds, PlacesInv, PlacesType
<1>3. owners = {} \/ \E p \in CPUs : owners = {p}
  <2>1. \A p, q \in owners : p = q
    BY <1>2, Zenon DEF PlacesInv, HeldApart
  <2> QED BY <2>1, Zenon
<1>4. owners = {} <=> ~\E p \in CPUs : Holds(p, t)
  BY <1>2, Zenon
<1>5. \A at \in Queued(t) : \E i \in DOMAIN queue[k] : at = <<k, i>> /\ queue[k][i] = t
  BY DEF Queued, PlacesInv, QueuesApart
<1>6. ASSUME NEW i \in DOMAIN queue[k], queue[k][i] = t
      PROVE  <<k, i>> \in Queued(t)
  BY <1>1, <1>6 DEF Queued
<1>7. Queued(t) = {} \/ \E at : Queued(t) = {at}
  <2>1. \A x, y \in Queued(t) : x = y
    BY <1>1, <1>5 DEF PlacesInv, QueuesApart
  <2> QED BY <2>1, Zenon
<1>8. Queued(t) = {} <=> ~InQueue(t)
  BY <1>5, <1>6, Zenon DEF InQueue
<1>9. Cardinality(owners) = IF owners = {} THEN 0 ELSE 1
  BY <1>3, FS_EmptySet, FS_Singleton, Zenon
<1>10. Cardinality(Queued(t)) = IF Queued(t) = {} THEN 0 ELSE 1
  BY <1>7, FS_EmptySet, FS_Singleton, Zenon
<1>11. tpc[t] \in Active <=> InQueue(t) \/ \E p \in CPUs : Holds(p, t)
  BY Zenon DEF PlacesInv, ActivePlaced
<1>12. ~(InQueue(t) /\ \E p \in CPUs : Holds(p, t))
  BY Zenon DEF PlacesInv, HeldApart
<1> HIDE DEF owners
<1> QED BY <1>4, <1>8, <1>9, <1>10, <1>11, <1>12 DEF Places, owners

\* PickNext on any number of CPUs, waking, starting and ending neither lose nor
\* duplicate a thread: one that can run is in exactly one ready queue or current
\* on exactly one CPU, and one that cannot is in none.  On several CPUs this is
\* for threads that do not wait for semaphores and user threads that do not
\* exit.
THEOREM ThreadsPlacedOnce == Undisturbed => (Spec => []PlacedOnce)
<1>1. PlacesInv /\ Loaded => PlacedOnce
  BY PlacedOnceNow, Zenon
<1> QED BY <1>1, PlacesAlways, PTL

-----------------------------------------------------------------------------
(* A CPU executes its current thread *)

\* Every step keeps contexts with their threads.
LEMMA ContextsStep ==
    ASSUME PlacesInv, ContextsInv, NothingRemoved, removing = {}, NEW c \in CPUs,
           PickNext(c) \/ TimerTick(c) \/ SystemCall(c)
    PROVE  ContextsInv' /\ removing' = {}
<1>0. /\ info = [x \in CPUs |-> x]
      /\ current \in [CPUs -> Threads \cup {NoThread}]
      /\ exec \in [CPUs -> Threads \cup {NoThread}]
      /\ DOMAIN cpu = CPUs /\ DOMAIN tpc = Threads
  BY Typed, Zenon
<1> USE <1>0 DEF ContextsInv, At, GoCPU
<1>1. CASE PickCheck(c)
  BY <1>1, Zenon DEF PickCheck
<1>2. CASE PickPush(c)
  BY <1>2, PushEffect, Zenon
<1>3. CASE PickSelect(c)
  BY <1>3, SelectEffect, Zenon
<1>4. CASE PickIdle(c)
  BY <1>4, IdleEffect, Zenon
<1>5. CASE Switch(c)
  BY <1>5, Zenon DEF Switch
<1>6. CASE RemoveReturn(c)
  BY <1>6, Zenon DEF RemoveReturn
<1>7. CASE TimerTick(c)
  BY <1>7, Zenon DEF TimerTick
<1>8. ASSUME NEW t \in Threads, Block(c, t) \/ Exit(c, t)
      PROVE  FALSE
  BY <1>8, Zenon DEF Block, Exit, NothingRemoved
<1>9. ASSUME NEW t \in Threads, Resume(c, t) \/ End(c, t)
      PROVE  ContextsInv' /\ removing' = {}
  BY <1>9, Zenon DEF Resume, End
<1>10. ASSUME NEW t \in Threads, ScheduleCount(c, t) \/ Unlock(c, t)
       PROVE  ContextsInv' /\ removing' = {}
  BY <1>10, CallEffect, Zenon
<1>11. ASSUME NEW t \in Threads, NEW u \in Threads,
              ReaddThread(c, t, u) \/ ScheduleThread(c, t, u)
       PROVE  ContextsInv' /\ removing' = {}
  BY <1>11, ReadyEffect, Zenon
<1> QED
  BY <1>1, <1>2, <1>3, <1>4, <1>5, <1>6, <1>7, <1>8, <1>9, <1>10, <1>11, Zenon
  DEF PickNext, SystemCall

\* Where no thread is removed, a CPU outside the scheduler executes its current
\* thread, and no two execute the same: the registers that the timer saves and
\* Next loads are those of the thread they are filed under.
THEOREM CurrentExecuted == NothingRemoved => (Spec => []ExecutesCurrent)
<1> SUFFICES ASSUME NothingRemoved
             PROVE  Spec => []ExecutesCurrent
  OBVIOUS
<1>1. Spec => [](PlacesInv /\ Loaded)
  BY PlacesAlways, Zenon DEF Undisturbed
<1> DEFINE I == ContextsInv /\ removing = {}
<1>2. Init => I
  BY Zenon DEF Init, ContextsInv
<1>3. PlacesInv /\ I /\ [Next]_vars => I'
  <2> SUFFICES ASSUME PlacesInv, I, [Next]_vars
               PROVE  I'
    OBVIOUS
  <2>1. CASE Next
    BY <2>1, ContextsStep, Zenon DEF Next
  <2>2. CASE UNCHANGED vars
    BY <2>2, Zenon DEF vars, threadVars, cpuVars, ContextsInv
  <2> QED BY <2>1, <2>2, Zenon
<1>4. PlacesInv /\ I => ExecutesCurrent
  <2> SUFFICES ASSUME PlacesInv, ContextsInv
               PROVE  ExecutesCurrent
    OBVIOUS
  <2>1. ASSUME NEW c \in CPUs, NEW d \in CPUs, cpu[c] = "thread", cpu[d] = "thread",
               exec[c] = exec[d]
        PROVE  c = d
    <3>1. exec[c] \in Threads /\ Holds(c, exec[c]) /\ Holds(d, exec[c])
      BY <2>1, Zenon DEF ContextsInv, PlacesInv, PlacesType, Holds
    <3> QED BY <3>1, Zenon DEF PlacesInv, HeldApart
  <2> QED BY <2>1, Zenon DEF ContextsInv, ExecutesCurrent
<1> QED BY <1>1, <1>2, <1>3, <1>4, PTL DEF Spec

-----------------------------------------------------------------------------
(* PickNext finds a thread *)

\* The threads that stay remain able to run.
LEMMA StaffStep ==
    ASSUME PlacesInv, StaffActive, NEW c \in CPUs,
           PickNext(c) \/ TimerTick(c) \/ SystemCall(c)
    PROVE  StaffActive'
<1>0. /\ info = [x \in CPUs |-> x]
      /\ current \in [CPUs -> Threads \cup {NoThread}]
      /\ exec \in [CPUs -> Threads \cup {NoThread}]
      /\ DOMAIN cpu = CPUs /\ DOMAIN tpc = Threads
  BY Typed, Zenon
<1> USE <1>0 DEF StaffActive
<1>1. \A t \in Threads : Stays(t) \/ t \in IdleThreads =>
          t \notin Fresh \cup Blockers \cup Enders
  BY SchedulerAssumption, Zenon DEF Stays, IdleThreads
<1>2. CASE PickCheck(c) \/ PickPush(c) \/ PickSelect(c) \/ PickIdle(c) \/ Switch(c) \/ TimerTick(c)
  <2>1. CASE PickPush(c) \/ PickSelect(c) \/ PickIdle(c)
    BY <2>1, PushEffect, SelectEffect, IdleEffect, Zenon
  <2>2. CASE PickCheck(c) \/ Switch(c) \/ TimerTick(c)
    <3>1. tpc' = tpc
      BY <2>2, Zenon DEF PickCheck, Switch, TimerTick
    <3> QED BY <3>1, Zenon
  <2> QED BY <1>2, <2>1, <2>2, Zenon
<1>3. CASE RemoveReturn(c)
  <2>1. exec[c] \in Threads /\ tpc[exec[c]] \notin Active
    BY <1>3, Zenon DEF RemoveReturn, PlacesInv, RemovesItself, Active
  <2>2. \A t \in Threads : t # exec[c] => tpc'[t] = tpc[t]
    BY <1>3, Zenon DEF RemoveReturn
  <2> QED BY <2>1, <2>2, Zenon
<1>4. ASSUME NEW t \in Threads, Block(c, t) \/ Exit(c, t) \/ End(c, t)
      PROVE  StaffActive'
  <2>1. t \in Blockers \cup Enders
    BY <1>4, Zenon DEF Block, Exit, End
  <2>2. \A u \in Threads : u # t => tpc'[u] = tpc[u]
    BY <1>4, Zenon DEF Block, Exit, End
  <2> QED BY <1>1, <2>1, <2>2, Zenon
<1>5. ASSUME NEW t \in Threads, Resume(c, t)
      PROVE  StaffActive'
  BY <1>5, Zenon DEF Resume
<1>6. ASSUME NEW t \in Threads, ScheduleCount(c, t) \/ Unlock(c, t)
      PROVE  StaffActive'
  BY <1>6, CallEffect, Zenon
<1>7. ASSUME NEW t \in Threads, NEW u \in Threads,
             ReaddThread(c, t, u) \/ ScheduleThread(c, t, u)
      PROVE  StaffActive'
  BY <1>7, ReadyEffect, Zenon
<1> QED
  BY <1>2, <1>3, <1>4, <1>5, <1>6, <1>7, Zenon DEF PickNext, SystemCall

\* A CPU moves itself only.
LEMMA OthersKept ==
    ASSUME PlacesInv, Undisturbed, NEW c \in CPUs,
           PickNext(c) \/ TimerTick(c) \/ SystemCall(c)
    PROVE  \A d \in CPUs : d # c => cpu'[d] = cpu[d] /\ current'[d] = current[d]
<1>0. /\ info = [x \in CPUs |-> x]
      /\ current \in [CPUs -> Threads \cup {NoThread}]
      /\ exec \in [CPUs -> Threads \cup {NoThread}]
      /\ DOMAIN cpu = CPUs /\ DOMAIN tpc = Threads
  BY Typed, Zenon
<1> USE <1>0 DEF GoCPU
<1>1. CASE PickCheck(c)
  BY <1>1, Zenon DEF PickCheck
<1>9. CASE PickPush(c)
  BY <1>9, PushEffect, Zenon
<1>6. CASE PickSelect(c)
  BY <1>6, SelectEffect
<1>7. CASE PickIdle(c)
  BY <1>7, IdleEffect
<1>8. CASE RemoveReturn(c) \/ Switch(c) \/ TimerTick(c)
  BY <1>8, Zenon DEF RemoveReturn, Switch, TimerTick
<1>2. ASSUME NEW t \in Threads, Block(c, t) \/ Exit(c, t)
      PROVE  CPUs = {c}
  BY <1>2, Zenon DEF Block, Exit, Undisturbed, NothingRemoved
<1>3. ASSUME NEW t \in Threads, Resume(c, t) \/ End(c, t)
      PROVE  \A d \in CPUs : d # c => cpu'[d] = cpu[d] /\ current'[d] = current[d]
  BY <1>3, Zenon DEF Resume, End
<1>4. ASSUME NEW t \in Threads, ScheduleCount(c, t) \/ Unlock(c, t)
      PROVE  UNCHANGED <<cpu, current>>
  BY <1>4, CallEffect, Zenon
<1>5. ASSUME NEW t \in Threads, NEW u \in Threads,
             ReaddThread(c, t, u) \/ ScheduleThread(c, t, u)
      PROVE  UNCHANGED <<cpu, current>>
  BY <1>5, ReadyEffect, Zenon
<1> QED
  BY <1>1, <1>2, <1>3, <1>4, <1>5, <1>6, <1>7, <1>8, <1>9, Zenon DEF PickNext, SystemCall

\* All but two CPUs cannot hold an idle thread for every CPU but one.
LEMMA TooFew ==
    ASSUME NEW idle \in Nat, NEW all \in Nat, NEW rest,
           rest = all - 2, idle <= rest, idle + 1 >= all
    PROVE  FALSE
  OBVIOUS

\* An idle thread is left for a CPU that turns to the idle list: the others
\* have one each at most, and the busy one has none.
LEMMA IdleFound ==
    ASSUME PlacesInv, StaffActive, Staffed, NEW c \in CPUs, cpu[c] = "idle",
           NEW d \in CPUs, Busy(d)
    PROVE  queue["idle"] # <<>>
<1> SUFFICES ASSUME queue["idle"] = <<>>
             PROVE  FALSE
  OBVIOUS
<1> DEFINE others == (CPUs \ {c}) \ {d}
           owner == [t \in IdleThreads |-> CHOOSE p \in CPUs : Holds(p, t)]
<1>1. d # c
  BY Zenon DEF Busy
<1>2. /\ IsFiniteSet(others) /\ Cardinality(others) = Cardinality(CPUs) - 2
      /\ Cardinality(CPUs) \in Nat
  <2>1. IsFiniteSet(CPUs) /\ Cardinality(CPUs) \in Nat
    BY SchedulerAssumption, FS_CardinalityType, Zenon
  <2>2. IsFiniteSet(CPUs \ {c}) /\ Cardinality(CPUs \ {c}) = Cardinality(CPUs) - 1
    BY <2>1, FS_RemoveElement, Zenon
  <2>3. /\ IsFiniteSet(others)
        /\ Cardinality(others) = Cardinality(CPUs \ {c}) - 1
    BY <1>1, <2>2, FS_RemoveElement, Zenon
  <2> QED BY <2>1, <2>2, <2>3
<1>3. ASSUME NEW t \in IdleThreads
      PROVE  owner[t] \in others /\ Holds(owner[t], t)
  <2>1. t \in Threads /\ ClassOf[t] = "idle" /\ tpc[t] \in Active
    BY Zenon DEF IdleThreads, StaffActive
  <2>2. ~InQueue(t)
    BY <2>1 DEF InQueue
  <2>3. \E p \in CPUs : Holds(p, t)
    BY <2>1, <2>2, Zenon DEF PlacesInv, ActivePlaced
  <2>4. owner[t] \in CPUs /\ Holds(owner[t], t)
    BY <2>3, Zenon
  <2>5. ~Holds(c, t) /\ ~Holds(d, t)
    BY <2>1, SchedulerAssumption, Zenon DEF Holds, Busy
  <2> QED BY <2>4, <2>5, Zenon
<1>4. owner \in [IdleThreads -> others]
  BY <1>3, Zenon
<1>5. \A t, u \in IdleThreads : owner[t] = owner[u] => t = u
  BY <1>3, Zenon DEF Holds
<1>6. owner \in Injection(IdleThreads, others)
  BY <1>4, <1>5, Zenon DEF Injection, IsInjective
<1>7. Cardinality(IdleThreads) <= Cardinality(others)
  BY <1>2, <1>6, FS_Injection, Zenon
<1>8. Cardinality(IdleThreads) \in Nat
  <2>1. IsFiniteSet(IdleThreads)
    BY SchedulerAssumption, FS_Subset, Zenon DEF IdleThreads
  <2> QED BY <2>1, FS_CardinalityType, Zenon
<1>9. Cardinality(IdleThreads) + 1 >= Cardinality(CPUs)
  BY Zenon DEF Staffed
<1> HIDE DEF others, owner
<1> QED BY <1>2, <1>7, <1>8, <1>9, TooFew, Zenon

\* With no thread in the kernel queue, a kernel thread that stays is current
\* on some CPU.
LEMMA KernelElsewhere ==
    ASSUME PlacesInv, StaffActive, NEW t \in Threads, Stays(t), queue["kernel"] = <<>>
    PROVE  \E e \in CPUs : Holds(e, t)
<1>1. ~InQueue(t)
  BY DEF Stays, InQueue
<1>2. tpc[t] \in Active
  BY Zenon DEF StaffActive
<1> QED BY <1>1, <1>2, Zenon DEF PlacesInv, ActivePlaced

\* A busy CPU stays busy, unless it selects while the four levels are empty;
\* then another one has the kernel thread that stays.
LEMMA BusyStep ==
    ASSUME PlacesInv, Undisturbed, StaffActive, Staffed, NEW c \in CPUs,
           PickNext(c) \/ TimerTick(c) \/ SystemCall(c),
           NEW d \in CPUs, Busy(d)
    PROVE  \E e \in CPUs : Busy(e)'
<1>0. /\ info = [x \in CPUs |-> x]
      /\ current \in [CPUs -> Threads \cup {NoThread}]
      /\ exec \in [CPUs -> Threads \cup {NoThread}]
      /\ DOMAIN cpu = CPUs /\ DOMAIN tpc = Threads
  BY Typed, Zenon
<1> USE <1>0 DEF At, GoCPU
<1>1. ASSUME NEW e \in CPUs, e # c, Busy(e)
      PROVE  Busy(e)'
  BY <1>1, OthersKept, Zenon DEF Busy
<1>2. CASE d # c
  BY <1>1, <1>2, Zenon
<1>3. CASE d = c
  <2>1. CASE PickCheck(c)
    BY <1>3, <2>1, Zenon DEF PickCheck, Busy
  <2>12. CASE PickPush(c)
    BY <2>12, PushEffect, Zenon DEF Busy
  <2>2. CASE PickSelect(c) /\ queue["kernel"] = <<>>
    <3>1. PICK t \in Threads : Stays(t)
      BY Zenon DEF Staffed
    <3>2. PICK e \in CPUs : Holds(e, t)
      BY <2>2, <3>1, KernelElsewhere, Zenon
    <3>3. cpu[c] = "select"
      BY <2>2, SelectEffect, Zenon
    <3>4. e # c /\ Busy(e)
      BY <3>1, <3>2, <3>3, SchedulerAssumption, Zenon DEF Holds, Busy, Stays
    <3> QED BY <1>1, <3>4, Zenon
  <2>3. CASE PickSelect(c) /\ queue["kernel"] # <<>>
    <3>1. PICK h \in Threads : /\ ClassOf[h] # "idle"
                               /\ cpu' = [cpu EXCEPT ![c] = "return"]
                               /\ current' = [current EXCEPT ![c] = h]
      BY <2>3, SelectEffect, Zenon
    <3> QED BY <3>1, SchedulerAssumption, Zenon DEF Busy
  <2>4. CASE PickIdle(c)
    BY <1>3, <2>4, IdleEffect, Zenon DEF Busy
  <2>5. CASE Switch(c)
    BY <1>3, <2>5, Zenon DEF Switch, Busy
  <2>6. CASE RemoveReturn(c)
    BY <1>3, <2>6, Zenon DEF RemoveReturn, Busy
  <2>7. CASE TimerTick(c)
    BY <1>3, <2>7, Zenon DEF TimerTick, Busy
  <2>8. ASSUME NEW t \in Threads, Block(c, t) \/ Exit(c, t)
        PROVE  Busy(c)'
    <3>1. CPUs = {c} /\ RemoveThread(c, t)
      BY <2>8, Zenon DEF Block, Exit, Undisturbed, NothingRemoved
    <3>2. Calls(c, t)
      BY <2>8, Zenon DEF Block, Exit
    <3>3. current' = [current EXCEPT ![c] = NoThread] /\ cpu' = [cpu EXCEPT ![c] = "check"]
      BY <3>1, <3>2, RemoveOwn, Zenon
    <3> QED BY <3>3, Zenon DEF Busy
  <2>9. ASSUME NEW t \in Threads, End(c, t) \/ Resume(c, t)
        PROVE  Busy(c)'
    BY <1>3, <2>9, Zenon DEF End, Resume, Runs, Busy
  <2>10. ASSUME NEW t \in Threads, ScheduleCount(c, t) \/ Unlock(c, t)
         PROVE  Busy(c)'
    BY <1>3, <2>10, CallEffect, Zenon DEF Busy
  <2>11. ASSUME NEW t \in Threads, NEW u \in Threads,
                ReaddThread(c, t, u) \/ ScheduleThread(c, t, u)
         PROVE  Busy(c)'
    BY <1>3, <2>11, ReadyEffect, Zenon DEF Busy
  <2> QED
    BY <2>1, <2>2, <2>3, <2>4, <2>5, <2>6, <2>7, <2>8, <2>9, <2>10, <2>11, <2>12, Zenon
    DEF PickNext, SystemCall
<1> QED BY <1>2, <1>3, Zenon

\* A CPU that leaves PickNext has a thread.
LEMMA ServedStep ==
    ASSUME PlacesInv, Undisturbed, ServedInv, Staffed, NEW c \in CPUs,
           PickNext(c) \/ TimerTick(c) \/ SystemCall(c)
    PROVE  ServedInv'
<1> DEFINE Has(x) == cpu[x] \in {"thread", "return"} => current[x] # NoThread
<1>1. StaffActive'
  BY StaffStep, Zenon DEF ServedInv
<1>2. \E d \in CPUs : Busy(d)'
  BY BusyStep, Zenon DEF ServedInv
<1>3. Has(c)'
  <2>0. /\ info = [x \in CPUs |-> x]
        /\ current \in [CPUs -> Threads \cup {NoThread}]
        /\ exec \in [CPUs -> Threads \cup {NoThread}]
        /\ DOMAIN cpu = CPUs /\ DOMAIN tpc = Threads
    BY Typed, Zenon
  <2> USE <2>0 DEF At, GoCPU
  <2>1. CASE PickCheck(c)
    BY <2>1, Zenon DEF PickCheck
  <2>9. CASE PickPush(c)
    BY <2>9, PushEffect, Zenon
  <2>2. CASE PickSelect(c)
    <3>1. NoThread \notin Threads
      BY SchedulerAssumption, Zenon
    <3>2. CASE cpu' = [cpu EXCEPT ![c] = "idle"]
      BY <3>2, Zenon
    <3>3. ASSUME NEW h \in Threads, current' = [current EXCEPT ![c] = h]
          PROVE  Has(c)'
      BY <3>1, <3>3, Zenon
    <3> QED BY <2>2, <3>2, <3>3, SelectEffect, Zenon
  <2>3. CASE PickIdle(c)
    <3>1. cpu[c] = "idle"
      BY <2>3, IdleEffect, Zenon
    <3>2. queue["idle"] # <<>>
      BY <3>1, IdleFound, Zenon DEF ServedInv
    <3>3. PICK h \in Threads : current' = [current EXCEPT ![c] = h]
      BY <2>3, <3>2, IdleEffect, Zenon
    <3> QED BY <3>3, SchedulerAssumption, Zenon
  <2>4. CASE Switch(c)
    BY <2>4, Zenon DEF Switch, ServedInv
  <2>10. CASE RemoveReturn(c)
    BY <2>10, Zenon DEF RemoveReturn
  <2>11. CASE TimerTick(c)
    BY <2>11, Zenon DEF TimerTick, ServedInv
  <2>5. ASSUME NEW t \in Threads, Block(c, t) \/ Exit(c, t) \/ End(c, t)
        PROVE  Has(c)'
    BY <2>5, Zenon DEF Block, Exit, End, RemoveThread
  <2>6. ASSUME NEW t \in Threads, Resume(c, t)
        PROVE  Has(c)'
    BY <2>6, Zenon DEF Resume, Runs, ServedInv
  <2>7. ASSUME NEW t \in Threads, ScheduleCount(c, t) \/ Unlock(c, t)
        PROVE  Has(c)'
    BY <2>7, CallEffect, Zenon DEF ServedInv
  <2>8. ASSUME NEW t \in Threads, NEW u \in Threads,
               ReaddThread(c, t, u) \/ ScheduleThread(c, t, u)
        PROVE  Has(c)'
    BY <2>8, ReadyEffect, Zenon DEF ServedInv
  <2> QED
    BY <2>1, <2>2, <2>3, <2>4, <2>5, <2>6, <2>7, <2>8, <2>9, <2>10, <2>11, Zenon
    DEF PickNext, SystemCall
<1>4. \A d \in CPUs : Has(d)'
  BY <1>3, OthersKept, Zenon DEF ServedInv
<1> QED BY <1>1, <1>2, <1>4, Zenon DEF ServedInv

\* Next never finds that PickNext left its CPU without a thread.  It is enough
\* that one kernel thread goes on for ever and that there is an idle thread for
\* every CPU but one: although PickNext drops the locks of the ready queues
\* before it turns to the idle list, the kernel thread is then with another
\* CPU, which needs no idle thread.
THEOREM NextAlwaysFinds == CPUs # {} /\ Undisturbed /\ Staffed => (Spec => []NextFindsThread)
<1> SUFFICES ASSUME CPUs # {}, Undisturbed, Staffed
             PROVE  Spec => []NextFindsThread
  OBVIOUS
<1>1. Spec => [](PlacesInv /\ Loaded)
  BY PlacesAlways, Zenon
<1>2. Init => ServedInv
  <2> SUFFICES ASSUME Init PROVE ServedInv
    OBVIOUS
  <2>1. StaffActive
    BY SchedulerAssumption, Zenon DEF Init, StaffActive, Stays, IdleThreads, Active
  <2>2. \A c \in CPUs : Busy(c) /\ cpu[c] = "check"
    BY Zenon DEF Init, Busy
  <2> QED BY <2>1, <2>2, Zenon DEF ServedInv
<1>3. PlacesInv /\ ServedInv /\ [Next]_vars => ServedInv'
  <2> SUFFICES ASSUME PlacesInv, ServedInv, [Next]_vars
               PROVE  ServedInv'
    OBVIOUS
  <2>1. CASE Next
    BY <2>1, ServedStep, Zenon DEF Next
  <2>2. CASE UNCHANGED vars
    BY <2>2, Zenon DEF vars, threadVars, cpuVars, ServedInv, StaffActive, Busy
  <2> QED BY <2>1, <2>2, Zenon
<1>4. PlacesInv /\ ServedInv => NextFindsThread
  BY Zenon DEF PlacesInv, PlacesType, ServedInv, NextFindsThread
<1> QED BY <1>1, <1>2, <1>3, <1>4, PTL DEF Spec

\* With such threads, and where none is removed, every CPU is served: it leaves
\* PickNext with a thread and executes that one alone.
THEOREM CPUsAreServed == CPUs # {} /\ NothingRemoved /\ Staffed => (Spec => []CPUsServed)
<1>1. NextFindsThread /\ ExecutesCurrent => CPUsServed
  BY Zenon DEF CPUsServed
<1>2. NothingRemoved => Undisturbed
  BY Zenon DEF Undisturbed
<1> QED BY <1>1, <1>2, CurrentExecuted, NextAlwaysFinds, PTL
=============================================================================
