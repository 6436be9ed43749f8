-------------------------- MODULE ThreadPoolProofs --------------------------
(***************************************************************************)
(* Theorems about ThreadPool, for every number of workers and clients and  *)
(* every program of submissions.                                           *)
(*                                                                         *)
(* Three inductive layers: where jobs may stand (Shape), what shutdown     *)
(* implies (Closing), and which task is where (Exact).                     *)
(***************************************************************************)
EXTENDS ThreadPool, SequenceTheorems, TLAPS

\* No job submits more than its program holds or joins more than it submitted.
SentBound == \A j \in Jobs : sent[j] <= Len(Program[j]) /\ joined[j] <= sent[j]

\* A client is the bottom frame of its own stack, and of no other.
ClientAtBottom ==
  /\ \A t \in Threads : \A i \in 1..Len(stack[t]) :
       stack[t][i] \in Clients => i = Len(stack[t]) /\ stack[t][i] = t
  /\ \A c \in Clients : stack[c] # <<>> => stack[c][Len(stack[c])] = c

Shape == TypeOK /\ SentBound /\ ClientAtBottom

\* shutdown_ is raised by the destructor alone, after the clients have gone;
\* a worker that has left saw an empty queue, and it stays empty.
Closing ==
  /\ shutdown <=> dtor # "alive"
  /\ shutdown => \A c \in Clients : pc[c] = "exited"
  /\ \A w \in Workers : pc[w] = "exited" => shutdown /\ queue = <<>>
  /\ dtor = "gone" => \A w \in Workers : pc[w] = "exited"

\* What has not been submitted is new.
UnsentNew ==
  \A j \in Jobs : \A n \in DOMAIN Program[j] :
    n > sent[j] => future[Program[j][n]] = "new"

Exact == UnsentNew /\ QueueExact /\ StackExact

IInv == Shape /\ Closing /\ Exact

-----------------------------------------------------------------------------
\* Pushing a frame on a call stack.
LEMMA PushFrame ==
  ASSUME NEW S, NEW s \in Seq(S), NEW x \in S
  PROVE  /\ <<x>> \o s \in Seq(S)
         /\ <<x>> \o s # <<>>
         /\ Len(<<x>> \o s) = Len(s) + 1
         /\ (<<x>> \o s)[1] = x
         /\ \A i \in 1..Len(s) : (<<x>> \o s)[i + 1] = s[i]
         /\ \A i \in 1..(Len(s) + 1) : (<<x>> \o s)[i] = IF i = 1 THEN x ELSE s[i - 1]
<1>1. <<x>> \in Seq(S) /\ Len(<<x>>) = 1 /\ <<x>>[1] = x
  OBVIOUS
<1>2. Len(s) \in Nat
  BY LenProperties
<1>3. /\ <<x>> \o s \in Seq(S)
      /\ Len(<<x>> \o s) = 1 + Len(s)
      /\ \A i \in 1..(1 + Len(s)) :
           (<<x>> \o s)[i] = IF i <= 1 THEN <<x>>[i] ELSE s[i - 1]
  BY <1>1, ConcatProperties
<1>4. <<x>> \o s # <<>>
  BY <1>2, <1>3, EmptySeq
<1>5. \A i \in 1..(Len(s) + 1) : (<<x>> \o s)[i] = IF i = 1 THEN x ELSE s[i - 1]
  BY <1>1, <1>2, <1>3
<1>6. QED
  BY <1>2, <1>3, <1>4, <1>5

\* Popping the frame of the job that returns, or the front of the queue.
LEMMA PopFront ==
  ASSUME NEW S, NEW s \in Seq(S), s # <<>>
  PROVE  /\ Head(s) \in S /\ Head(s) = s[1]
         /\ Tail(s) \in Seq(S)
         /\ Len(s) \in Nat \ {0}
         /\ Len(Tail(s)) = Len(s) - 1
         /\ \A i \in 1..(Len(s) - 1) : Tail(s)[i] = s[i + 1]
         /\ Tail(s) = <<>> <=> Len(s) = 1
<1>1. Head(s) = s[1]
  OBVIOUS
<1>2. Len(s) \in Nat \ {0}
  BY EmptySeq
<1>3. /\ Head(s) \in S /\ Tail(s) \in Seq(S)
      /\ Len(Tail(s)) = Len(s) - 1
      /\ \A i \in 1..Len(Tail(s)) : Tail(s)[i] = s[i + 1]
  BY HeadTailProperties
<1>4. Tail(s) = <<>> <=> Len(s) = 1
  <2>1. Len(Tail(s)) = 0 <=> Len(s) = 1
    BY <1>2, <1>3
  <2>2. Tail(s) = <<>> <=> Len(Tail(s)) = 0
    <3>1. Tail(s) # <<>> => Len(Tail(s)) \in Nat \ {0}
      BY ONLY <1>3, EmptySeq
    <3>2. Len(<<>>) = 0
      BY ONLY EmptySeq
    <3>3. QED
      BY ONLY <3>1, <3>2
  <2>3. QED
    BY <2>1, <2>2
<1>5. QED
  BY <1>1, <1>2, <1>3, <1>4

-----------------------------------------------------------------------------
(* Shape *)

LEMMA InitShape == Init => Shape
<1> SUFFICES ASSUME Init PROVE Shape
  OBVIOUS
<1> USE PoolAssumption DEF Init, Jobs, Threads
<1>1. TypeOK
  <2>1. \A t \in Clients : <<t>> \in Seq(Jobs) /\ <<t>> # <<>>
    OBVIOUS
  <2>2. <<>> \in Seq(Jobs) /\ <<>> \in Seq(Tasks)
    OBVIOUS
  <2>3. stack \in [Threads -> Seq(Jobs)]
    BY <2>1, <2>2
  <2>4. \A t \in Threads : pc[t] \in {"run", "notify", "help"} <=> stack[t] # <<>>
    BY <2>1
  <2>5. QED
    BY <2>2, <2>3, <2>4 DEF TypeOK, PCs
<1>2. SentBound
  <2>1. \A j \in Jobs : Len(Program[j]) \in Nat
    OBVIOUS
  <2>2. QED
    BY <2>1 DEF SentBound
<1>3. ClientAtBottom
  BY DEF ClientAtBottom
<1>4. QED
  BY <1>1, <1>2, <1>3 DEF Shape

\* The task that a job submits or waits for next.
LEMMA NextTasks ==
  ASSUME Shape, NEW j \in Jobs
  PROVE  /\ ~AllSent(j) => sent[j] + 1 \in DOMAIN Program[j] /\ NextToSend(j) \in Tasks
         /\ ~AllJoined(j) => joined[j] + 1 \in DOMAIN Program[j] /\ NextToJoin(j) \in Tasks
<1>1. Program[j] \in Seq(Tasks) /\ Len(Program[j]) \in Nat
  BY PoolAssumption
<1>2. DOMAIN Program[j] = 1..Len(Program[j])
  BY <1>1
<1>3. sent[j] \in Nat /\ joined[j] \in Nat
  BY DEF Shape, TypeOK
<1>4. sent[j] <= Len(Program[j]) /\ joined[j] <= sent[j]
  BY DEF Shape, SentBound
<1>5. QED
  BY <1>1, <1>2, <1>3, <1>4 DEF AllSent, AllJoined, NextToSend, NextToJoin

\* The job on top of a running thread's stack.
LEMMA TopJob ==
  ASSUME Shape, NEW t \in Threads, pc[t] \in {"run", "notify", "help"}
  PROVE  /\ stack[t] # <<>>
         /\ Top(t) \in Jobs /\ Top(t) = stack[t][1]
         /\ Top(t) \in Tasks \/ Top(t) \in Clients
         /\ Top(t) \in Clients => Top(t) = t /\ Len(stack[t]) = 1
<1>1. stack[t] \in Seq(Jobs) /\ stack[t] # <<>>
  BY DEF Shape, TypeOK
<1>2. Head(stack[t]) \in Jobs /\ Head(stack[t]) = stack[t][1] /\ Len(stack[t]) \in Nat \ {0}
  BY <1>1, PopFront
<1>3. stack[t][1] \in Clients => 1 = Len(stack[t]) /\ stack[t][1] = t
  <2>1. 1 \in 1..Len(stack[t])
    BY <1>2
  <2>2. QED
    BY <2>1 DEF Shape, ClientAtBottom
<1>4. QED
  BY <1>1, <1>2, <1>3 DEF Top, Jobs

\* Starting the front task keeps the shape.
LEMMA StartShape ==
  ASSUME Shape, NEW t \in Threads, StartFront(t),
         pc[t] \in {"idle", "help"}
  PROVE  Shape'
<1> DEFINE k == Head(queue)
<1>1. queue \in Seq(Tasks) /\ k \in Tasks /\ Tail(queue) \in Seq(Tasks)
  BY PopFront DEF Shape, TypeOK, StartFront
<1>2. k \in Jobs /\ k \notin Clients /\ stack[t] \in Seq(Jobs)
  BY <1>1, PoolAssumption DEF Jobs, Shape, TypeOK
<1> DEFINE s == <<k>> \o stack[t]
<1>3. /\ s \in Seq(Jobs) /\ s # <<>>
      /\ Len(s) = Len(stack[t]) + 1
      /\ \A i \in 1..(Len(stack[t]) + 1) : s[i] = IF i = 1 THEN k ELSE stack[t][i - 1]
  BY <1>2, PushFrame
<1>4. Len(stack[t]) \in Nat
  BY <1>2
<1>5. stack' = [stack EXCEPT ![t] = s]
  BY DEF StartFront
<1> HIDE DEF s
<1>6. TypeOK'
  BY <1>1, <1>3, <1>5 DEF Shape, TypeOK, StartFront, PCs
<1>7. SentBound'
  BY DEF Shape, SentBound, StartFront
<1>8. ClientAtBottom'
  <2>1. stack \in [Threads -> Seq(Jobs)]
    BY DEF Shape, TypeOK
  <2>2. ASSUME NEW u \in Threads, NEW i \in 1..Len(stack'[u]), stack'[u][i] \in Clients
        PROVE  i = Len(stack'[u]) /\ stack'[u][i] = u
    <3>1. CASE u # t
      BY <2>1, <2>2, <3>1, <1>5 DEF Shape, ClientAtBottom
    <3>2. CASE u = t
      <4>1. stack'[u] = s
        BY <2>1, <3>2, <1>5
      <4>2. i # 1
        BY <4>1, <2>2, <1>2, <1>3, <1>4
      <4>3. i - 1 \in 1..Len(stack[t]) /\ s[i] = stack[t][i - 1]
        BY <4>1, <4>2, <1>3, <1>4
      <4>4. i - 1 = Len(stack[t]) /\ stack[t][i - 1] = t
        BY <4>1, <4>3, <2>2 DEF Shape, ClientAtBottom
      <4>5. QED
        BY <4>1, <4>3, <4>4, <3>2, <1>3, <1>4
    <3>3. QED
      BY <3>1, <3>2
  <2>3. ASSUME NEW c \in Clients, stack'[c] # <<>>
        PROVE  stack'[c][Len(stack'[c])] = c
    <3>1. CASE c # t
      BY <2>1, <2>3, <3>1, <1>5 DEF Shape, ClientAtBottom, Threads
    <3>2. CASE c = t
      <4>1. stack'[c] = s
        BY <2>1, <3>2, <1>5
      <4>2. pc[t] = "help"
        BY <3>2 DEF Shape, TypeOK
      <4>3. stack[t] # <<>>
        BY <4>2 DEF Shape, TypeOK
      <4>4. stack[t][Len(stack[t])] = t
        BY <4>3, <3>2 DEF Shape, ClientAtBottom
      <4>5. Len(stack[t]) \in Nat \ {0}
        BY <1>2, <4>3, PopFront
      <4>6. s[Len(s)] = stack[t][Len(stack[t])]
        BY <4>5, <1>3
      <4>7. QED
        BY <4>1, <4>4, <4>6, <3>2
    <3>3. QED
      BY <3>1, <3>2
  <2>4. QED
    BY <2>2, <2>3 DEF ClientAtBottom
<1>9. QED
  BY <1>6, <1>7, <1>8 DEF Shape

\* So does the return of the job on top.
LEMMA ReturnShape ==
  ASSUME Shape, NEW t \in Threads, pc[t] = "run", Return(t)
  PROVE  Shape'
<1>1. /\ stack[t] # <<>> /\ Top(t) \in Jobs /\ Top(t) = stack[t][1]
      /\ Top(t) \in Tasks \/ Top(t) \in Clients
      /\ Top(t) \in Clients => Top(t) = t /\ Len(stack[t]) = 1
  BY TopJob
<1>2. stack \in [Threads -> Seq(Jobs)]
  BY DEF Shape, TypeOK
<1> DEFINE s == Tail(stack[t])
<1>3. /\ s \in Seq(Jobs)
      /\ Len(stack[t]) \in Nat \ {0}
      /\ Len(s) = Len(stack[t]) - 1
      /\ \A i \in 1..(Len(stack[t]) - 1) : s[i] = stack[t][i + 1]
      /\ s = <<>> <=> Len(stack[t]) = 1
  BY <1>1, <1>2, PopFront
<1>4. stack' = [stack EXCEPT ![t] = s]
  BY DEF Return
<1>5. pc' = [pc EXCEPT ![t] = IF Top(t) \in Clients THEN "exited"
                              ELSE IF s = <<>> THEN "idle" ELSE "run"]
  BY DEF Return
<1>6. t \in Clients /\ s = <<>> => Top(t) \in Clients
  BY <1>1, <1>3 DEF Shape, ClientAtBottom
<1>7. Top(t) \in Clients => s = <<>>
  BY <1>1, <1>3
<1> HIDE DEF s
<1>8. TypeOK'
  <2>1. future' \in [Tasks -> {"new", "queued", "running", "done", "broken"}]
    BY DEF Shape, TypeOK, Return
  <2>2. /\ stack' \in [Threads -> Seq(Jobs)]
        /\ pc' \in [Threads -> PCs]
    BY <1>2, <1>3, <1>4, <1>5 DEF Shape, TypeOK, PCs
  <2>3. \A u \in Threads : pc'[u] \in {"run", "notify", "help"} <=> stack'[u] # <<>>
    BY <1>2, <1>4, <1>5, <1>7 DEF Shape, TypeOK
  <2>4. \A c \in Clients : pc'[c] \notin {"idle", "asleep"}
    BY <1>5, <1>6 DEF Shape, TypeOK, Threads
  <2>5. QED
    BY <2>1, <2>2, <2>3, <2>4 DEF Shape, TypeOK, Return
<1>9. SentBound'
  BY DEF Shape, SentBound, Return
<1>10. ClientAtBottom'
  <2>1. ASSUME NEW u \in Threads, NEW i \in 1..Len(stack'[u]), stack'[u][i] \in Clients
        PROVE  i = Len(stack'[u]) /\ stack'[u][i] = u
    <3>1. CASE u # t
      BY <1>2, <2>1, <3>1, <1>4 DEF Shape, ClientAtBottom
    <3>2. CASE u = t
      <4>1. stack'[u] = s
        BY <1>2, <3>2, <1>4
      <4>2. i + 1 \in 1..Len(stack[t]) /\ s[i] = stack[t][i + 1]
        BY <4>1, <1>3
      <4>3. i + 1 = Len(stack[t]) /\ stack[t][i + 1] = t
        BY <4>1, <4>2, <2>1 DEF Shape, ClientAtBottom
      <4>4. QED
        BY <4>1, <4>2, <4>3, <3>2, <1>3
    <3>3. QED
      BY <3>1, <3>2
  <2>2. ASSUME NEW c \in Clients, stack'[c] # <<>>
        PROVE  stack'[c][Len(stack'[c])] = c
    <3>1. CASE c # t
      BY <1>2, <2>2, <3>1, <1>4 DEF Shape, ClientAtBottom, Threads
    <3>2. CASE c = t
      <4>1. stack'[c] = s /\ s # <<>>
        BY <1>2, <3>2, <1>4, <2>2
      <4>2. stack[t][Len(stack[t])] = t
        BY <1>1, <3>2 DEF Shape, ClientAtBottom
      <4>3. Len(s) \in 1..(Len(stack[t]) - 1)
        BY <4>1, <1>3
      <4>4. s[Len(s)] = stack[t][Len(stack[t])]
        BY <4>3, <1>3
      <4>5. QED
        BY <4>1, <4>2, <4>4, <3>2
    <3>3. QED
      BY <3>1, <3>2
  <2>3. QED
    BY <2>1, <2>2 DEF ClientAtBottom
<1>11. QED
  BY <1>8, <1>9, <1>10 DEF Shape

\* A step that leaves the stacks alone.
LEMMA StillShape ==
  ASSUME Shape, stack' = stack,
         queue' \in Seq(Tasks), shutdown' \in BOOLEAN,
         future' \in [Tasks -> {"new", "queued", "running", "done", "broken"}],
         sent' \in [Jobs -> Nat], joined' \in [Jobs -> Nat],
         dtor' \in {"alive", "notify", "joining", "gone"},
         pc' \in [Threads -> PCs],
         \A t \in Threads : pc'[t] \in {"run", "notify", "help"}
                              <=> pc[t] \in {"run", "notify", "help"},
         \A c \in Clients : pc'[c] \notin {"idle", "asleep"},
         SentBound'
  PROVE  Shape'
<1>1. TypeOK'
  BY DEF Shape, TypeOK
<1>2. ClientAtBottom'
  BY DEF Shape, ClientAtBottom
<1>3. QED
  BY <1>1, <1>2 DEF Shape

LEMMA StepShape == Shape /\ [Next]_vars => Shape'
<1> SUFFICES ASSUME Shape, [Next]_vars PROVE Shape'
  OBVIOUS
<1>1. ASSUME NEW t \in Threads, Enqueue(t) PROVE Shape'
  <2> DEFINE j == Top(t)
  <2>1. j \in Jobs /\ sent[j] + 1 \in DOMAIN Program[j] /\ NextToSend(j) \in Tasks
    BY <1>1, TopJob, NextTasks DEF Enqueue, Submitting
  <2>2. Program[j] \in Seq(Tasks) /\ sent[j] + 1 <= Len(Program[j])
    BY <2>1, PoolAssumption
  <2>3. SentBound'
    BY <1>1, <2>1, <2>2 DEF Shape, TypeOK, SentBound, Enqueue
  <2>4. Append(queue, NextToSend(j)) \in Seq(Tasks)
    BY <2>1 DEF Shape, TypeOK
  <2>5. QED
    BY <1>1, <2>1, <2>3, <2>4, StillShape DEF Shape, TypeOK, Enqueue, PCs
<1>2. ASSUME NEW t \in Threads, Refuse(t) PROVE Shape'
  <2> DEFINE j == Top(t)
  <2>1. j \in Jobs /\ sent[j] + 1 \in DOMAIN Program[j] /\ NextToSend(j) \in Tasks
    BY <1>2, TopJob, NextTasks DEF Refuse, Submitting
  <2>2. Program[j] \in Seq(Tasks) /\ sent[j] + 1 <= Len(Program[j])
    BY <2>1, PoolAssumption
  <2>3. SentBound'
    BY <1>2, <2>1, <2>2 DEF Shape, TypeOK, SentBound, Refuse
  <2>4. QED
    BY <1>2, <2>1, <2>3, StillShape DEF Shape, TypeOK, Refuse
<1>3. ASSUME NEW t \in Threads, NotifyOne(t) PROVE Shape'
  <2>1. SentBound'
    BY <1>3 DEF Shape, SentBound, NotifyOne
  <2>2. \A w \in Workers : w \notin Clients /\ w \in Threads
    BY PoolAssumption DEF Threads
  <2>3. /\ pc' \in [Threads -> PCs]
        /\ \A u \in Threads : pc'[u] \in {"run", "notify", "help"}
                              <=> pc[u] \in {"run", "notify", "help"}
        /\ \A c \in Clients : pc'[c] \notin {"idle", "asleep"}
    <3>1. CASE \E w \in Workers : /\ pc[w] = "asleep"
                                 /\ pc' = [pc EXCEPT ![t] = "run", ![w] = "idle"]
      <4>1. PICK w \in Workers : /\ pc[w] = "asleep"
                                 /\ pc' = [pc EXCEPT ![t] = "run", ![w] = "idle"]
        BY <3>1
      <4>2. w # t /\ w \notin Clients /\ w \in Threads /\ pc[t] = "notify"
        BY <1>3, <2>2, <4>1 DEF NotifyOne
      <4>3. QED
        BY <4>1, <4>2 DEF Shape, TypeOK, PCs, Threads
    <3>2. CASE pc' = [pc EXCEPT ![t] = "run"]
      BY <1>3, <3>2 DEF NotifyOne, Shape, TypeOK, PCs, Threads
    <3>3. QED
      BY <1>3, <3>1, <3>2 DEF NotifyOne
  <2>4. QED
    BY <1>3, <2>1, <2>3, StillShape DEF Shape, TypeOK, NotifyOne
<1>4. ASSUME NEW t \in Threads, Finish(t) \/ StopEarly(t) \/ Abandon(t) PROVE Shape'
  BY <1>4, ReturnShape DEF Finish, StopEarly, Abandon
<1>5. ASSUME NEW t \in Threads, Await(t) PROVE Shape'
  <2> DEFINE j == Top(t)
  <2>1. j \in Jobs /\ joined[j] + 1 \in DOMAIN Program[j]
    BY <1>5, TopJob, NextTasks DEF Await
  <2>2. joined[j] + 1 <= sent[j]
    BY <1>5, <2>1 DEF Await, AllJoined, Shape, TypeOK, SentBound
  <2>3. SentBound'
    BY <1>5, <2>1, <2>2 DEF Shape, TypeOK, SentBound, Await
  <2>4. pc[t] = "run" /\ (pc' = pc \/ pc' = [pc EXCEPT ![t] = "help"])
    BY <1>5 DEF Await
  <2>5. joined' = joined \/ joined' = [joined EXCEPT ![j] = @ + 1]
    BY <1>5 DEF Await
  <2>6. /\ pc' \in [Threads -> PCs]
        /\ \A u \in Threads : pc'[u] \in {"run", "notify", "help"}
                              <=> pc[u] \in {"run", "notify", "help"}
        /\ \A c \in Clients : pc'[c] \notin {"idle", "asleep"}
    BY <2>4 DEF Shape, TypeOK, PCs, Threads
  <2>7. joined' \in [Jobs -> Nat]
    <3>1. joined \in [Jobs -> Nat] /\ joined[j] + 1 \in Nat
      BY <2>1 DEF Shape, TypeOK
    <3>2. CASE joined' = joined
      BY <3>1, <3>2
    <3>3. CASE joined' = [joined EXCEPT ![j] = @ + 1]
      <4> HIDE DEF j
      <4>1. QED
        BY <3>1, <3>3
    <3>4. QED
      BY <2>5, <3>2, <3>3
  <2>8. QED
    BY <1>5, <2>3, <2>6, <2>7, StillShape DEF Shape, TypeOK, Await
<1>6. ASSUME NEW t \in Threads, Steal(t) PROVE Shape'
  BY <1>6, StartShape DEF Steal
<1>7. ASSUME NEW t \in Threads, Poll(t) PROVE Shape'
  <2>1. SentBound'
    BY <1>7 DEF Shape, SentBound, Poll
  <2>2. QED
    BY <1>7, <2>1, StillShape DEF Shape, TypeOK, Poll, PCs
<1>8. ASSUME NEW w \in Workers, Take(w) PROVE Shape'
  BY <1>8, StartShape DEF Take, Threads
<1>9. ASSUME NEW w \in Workers, Sleep(w) \/ Exit(w) \/ SpuriousWakeup(w) PROVE Shape'
  <2>1. w \in Threads /\ w \notin Clients
    BY PoolAssumption DEF Threads
  <2>2. SentBound'
    BY <1>9 DEF Shape, SentBound, Sleep, Exit, SpuriousWakeup
  <2>3. /\ pc[w] \in {"idle", "asleep"}
        /\ \E p \in {"idle", "asleep", "exited"} : pc' = [pc EXCEPT ![w] = p]
    BY <1>9 DEF Sleep, Exit, SpuriousWakeup
  <2>4. /\ pc' \in [Threads -> PCs]
        /\ \A u \in Threads : pc'[u] \in {"run", "notify", "help"}
                              <=> pc[u] \in {"run", "notify", "help"}
        /\ \A c \in Clients : pc'[c] \notin {"idle", "asleep"}
    BY <2>1, <2>3 DEF Shape, TypeOK, PCs, Threads
  <2>5. UNCHANGED <<queue, shutdown, future, stack, sent, joined, dtor>>
    BY <1>9 DEF Sleep, Exit, SpuriousWakeup
  <2>6. QED
    BY <2>2, <2>4, <2>5, StillShape DEF Shape, TypeOK
<1>10. ASSUME DtorStep PROVE Shape'
  <2>1. SentBound'
    BY <1>10 DEF Shape, SentBound, DtorStep, RaiseShutdown, NotifyAll, JoinAll
  <2>2. CASE RaiseShutdown
    BY <2>1, <2>2, StillShape DEF Shape, TypeOK, RaiseShutdown
  <2>3. CASE NotifyAll
    <3>1. \A c \in Clients : pc[c] # "asleep"
      BY DEF Shape, TypeOK
    <3>2. /\ pc' \in [Threads -> PCs]
          /\ \A u \in Threads : pc'[u] \in {"run", "notify", "help"}
                                <=> pc[u] \in {"run", "notify", "help"}
          /\ \A c \in Clients : pc'[c] \notin {"idle", "asleep"}
      BY <2>3, <3>1 DEF Shape, TypeOK, NotifyAll, PCs, Threads
    <3>3. QED
      BY <2>1, <2>3, <3>2, StillShape DEF Shape, TypeOK, NotifyAll
  <2>4. CASE JoinAll
    BY <2>1, <2>4, StillShape DEF Shape, TypeOK, JoinAll
  <2>5. QED
    BY <1>10, <2>2, <2>3, <2>4 DEF DtorStep
<1>11. ASSUME UNCHANGED vars PROVE Shape'
  BY <1>11 DEF Shape, TypeOK, SentBound, ClientAtBottom, vars
<1>12. QED
  BY <1>1, <1>2, <1>3, <1>4, <1>5, <1>6, <1>7, <1>8, <1>9, <1>10, <1>11
  DEF Next, JobStep, Proceed, WorkerStep, Destroyed

(***************************************************************************)
(* Type correctness of the pool, with the call stacks well formed: a       *)
(* client is the bottom frame of its own stack and of no other, whatever   *)
(* tasks it and the workers steal on top.                                  *)
(***************************************************************************)
THEOREM PoolTypeCorrect == Spec => []TypeOK
<1>1. Shape => TypeOK
  BY DEF Shape
<1>2. QED
  BY InitShape, StepShape, <1>1, PTL DEF Spec

-----------------------------------------------------------------------------
(* Closing *)

LEMMA InitClosing == Init => Closing
  BY PoolAssumption DEF Init, Closing, Threads

\* A step of a thread that has not exited, in which it does not exit as a
\* worker, and which queues nothing once shutdown_ is set.
LEMMA ThreadClosing ==
  ASSUME Shape, Closing, UNCHANGED <<shutdown, dtor>>,
         NEW t \in Threads, pc[t] # "exited",
         \A u \in Threads : pc[u] = "exited" => pc'[u] = "exited",
         \A w \in Workers : pc'[w] = "exited" => pc[w] = "exited",
         shutdown /\ queue = <<>> => queue' = <<>>
  PROVE  Closing'
  BY PoolAssumption DEF Closing, Threads

LEMMA StepClosing == Shape /\ Closing /\ [Next]_vars => Closing'
<1> SUFFICES ASSUME Shape, Closing, [Next]_vars PROVE Closing'
  OBVIOUS
<1>0. pc \in [Threads -> PCs] /\ Workers \subseteq Threads /\ Clients \subseteq Threads
  BY DEF Shape, TypeOK, Threads
<1>1. ASSUME NEW t \in Threads, Enqueue(t) \/ Refuse(t) PROVE Closing'
  BY <1>0, <1>1, ThreadClosing DEF Enqueue, Refuse
<1>2. ASSUME NEW t \in Threads, NotifyOne(t) PROVE Closing'
  <2>1. \A u \in Threads : pc'[u] = "exited" <=> pc[u] = "exited"
    <3>1. CASE \E w \in Workers : /\ pc[w] = "asleep"
                                 /\ pc' = [pc EXCEPT ![t] = "run", ![w] = "idle"]
      <4>1. PICK w \in Workers : /\ pc[w] = "asleep"
                                 /\ pc' = [pc EXCEPT ![t] = "run", ![w] = "idle"]
        BY <3>1
      <4>2. QED
        BY <1>0, <1>2, <4>1 DEF NotifyOne
    <3>2. CASE pc' = [pc EXCEPT ![t] = "run"]
      BY <1>0, <1>2, <3>2 DEF NotifyOne
    <3>3. QED
      BY <1>2, <3>1, <3>2 DEF NotifyOne
  <2>2. QED
    BY <1>0, <1>2, <2>1, ThreadClosing DEF NotifyOne
<1>3. ASSUME NEW t \in Threads, Finish(t) \/ StopEarly(t) \/ Abandon(t) PROVE Closing'
  <2>1. pc[t] = "run" /\ Return(t)
    BY <1>3 DEF Finish, StopEarly, Abandon
  <2>2. t \in Workers => Top(t) \notin Clients
    BY <2>1, TopJob, PoolAssumption
  <2>3. \A w \in Workers : pc'[w] = "exited" => pc[w] = "exited"
    BY <1>0, <2>1, <2>2 DEF Return
  <2>4. \A u \in Threads : pc[u] = "exited" => pc'[u] = "exited"
    BY <1>0, <2>1 DEF Return
  <2>5. QED
    BY <2>1, <2>3, <2>4, ThreadClosing DEF Return
<1>4. ASSUME NEW t \in Threads, Await(t) \/ Poll(t) PROVE Closing'
  <2>1. pc[t] \in {"run", "help"}
    BY <1>4 DEF Await, Poll
  <2>2. pc' = pc \/ \E p \in {"run", "help"} : pc' = [pc EXCEPT ![t] = p]
    BY <1>4 DEF Await, Poll
  <2>3. UNCHANGED <<queue, shutdown, dtor>>
    BY <1>4 DEF Await, Poll
  <2>4. QED
    BY <1>0, <2>1, <2>2, <2>3, ThreadClosing
<1>5. ASSUME NEW t \in Threads, Steal(t) \/ (t \in Workers /\ Take(t)) PROVE Closing'
  <2>1. pc[t] \in {"help", "idle"} /\ StartFront(t)
    BY <1>5 DEF Steal, Take
  <2>2. QED
    BY <1>0, <2>1, ThreadClosing DEF StartFront
<1>6. ASSUME NEW w \in Workers, Sleep(w) \/ SpuriousWakeup(w) PROVE Closing'
  <2>1. pc[w] \in {"idle", "asleep"}
    BY <1>6 DEF Sleep, SpuriousWakeup
  <2>2. \E p \in {"idle", "asleep"} : pc' = [pc EXCEPT ![w] = p]
    BY <1>6 DEF Sleep, SpuriousWakeup
  <2>3. UNCHANGED <<queue, shutdown, dtor>>
    BY <1>6 DEF Sleep, SpuriousWakeup
  <2>4. QED
    BY <1>0, <2>1, <2>2, <2>3, ThreadClosing
<1>7. ASSUME NEW w \in Workers, Exit(w) PROVE Closing'
  BY <1>0, <1>7, PoolAssumption DEF Exit, Closing, Shape, TypeOK
<1>8. CASE RaiseShutdown
  BY <1>0, <1>8 DEF RaiseShutdown, Closing
<1>9. CASE NotifyAll
  <2>1. \A u \in Threads : pc'[u] = "exited" <=> pc[u] = "exited"
    BY <1>0, <1>9 DEF NotifyAll
  <2>2. QED
    BY <1>0, <1>9, <2>1 DEF NotifyAll, Closing
<1>10. CASE JoinAll
  BY <1>10 DEF JoinAll, Closing
<1>11. CASE UNCHANGED vars
  BY <1>11 DEF vars, Closing
<1>12. QED
  BY <1>0, <1>1, <1>2, <1>3, <1>4, <1>5, <1>6, <1>7, <1>8, <1>9, <1>10, <1>11
  DEF Next, JobStep, Proceed, WorkerStep, DtorStep, Destroyed

-----------------------------------------------------------------------------
(* Exact *)

LEMMA InitExact == Init => Exact
<1> SUFFICES ASSUME Init PROVE Exact
  OBVIOUS
<1>1. \A t \in Threads : \A i \in DOMAIN stack[t] :
        stack[t][i] = t /\ i = 1 /\ t \in Clients
  BY DEF Init
<1>2. StackExact
  BY <1>1, PoolAssumption DEF Init, StackExact
<1>3. UnsentNew
  <2>1. ASSUME NEW j \in Jobs, NEW n \in DOMAIN Program[j]
        PROVE  Program[j][n] \in Tasks
    BY <2>1, PoolAssumption
  <2>2. QED
    BY <2>1 DEF Init, UnsentNew
<1>4. QueueExact
  BY DEF Init, QueueExact
<1>5. QED
  BY <1>2, <1>3, <1>4 DEF Exact

\* The task that a job is about to submit is new, and no other job's.
LEMMA NextIsNew ==
  ASSUME Shape, UnsentNew, NEW j \in Jobs, ~AllSent(j)
  PROVE  /\ NextToSend(j) \in Tasks /\ future[NextToSend(j)] = "new"
         /\ \A i \in Jobs : \A n \in DOMAIN Program[i] :
              n > [sent EXCEPT ![j] = @ + 1][i] => Program[i][n] # NextToSend(j)
<1>1. sent[j] + 1 \in DOMAIN Program[j] /\ NextToSend(j) \in Tasks
  BY NextTasks
<1>2. sent \in [Jobs -> Nat]
  BY DEF Shape, TypeOK
<1>3. future[NextToSend(j)] = "new"
  BY <1>1, <1>2 DEF UnsentNew, NextToSend
<1>4. ASSUME NEW i \in Jobs, NEW n \in DOMAIN Program[i],
             n > [sent EXCEPT ![j] = @ + 1][i], Program[i][n] = NextToSend(j)
      PROVE  FALSE
  <2>1. i = j /\ n = sent[j] + 1
    BY <1>1, <1>4, PoolAssumption DEF NextToSend
  <2>2. QED
    BY <1>2, <1>4, <2>1
<1>5. QED
  BY <1>1, <1>3, <1>4

LEMMA EnqueueExact ==
  ASSUME Shape, Exact, NEW t \in Threads, Enqueue(t)
  PROVE  Exact'
<1> DEFINE j == Top(t)
           k == NextToSend(j)
<1>1. j \in Jobs /\ ~AllSent(j)
  BY TopJob DEF Enqueue, Submitting
<1>2. /\ k \in Tasks /\ future[k] = "new"
      /\ \A i \in Jobs : \A n \in DOMAIN Program[i] :
           n > [sent EXCEPT ![j] = @ + 1][i] => Program[i][n] # k
  BY <1>1, NextIsNew DEF Exact
<1>3. /\ queue' = Append(queue, k)
      /\ future' = [future EXCEPT ![k] = "queued"]
      /\ sent' = [sent EXCEPT ![j] = @ + 1]
      /\ stack' = stack
  BY DEF Enqueue
<1>4. /\ queue \in Seq(Tasks)
      /\ future \in [Tasks -> {"new", "queued", "running", "done", "broken"}]
      /\ sent \in [Jobs -> Nat]
  BY DEF Shape, TypeOK
<1> HIDE DEF j, k
<1>5. UnsentNew'
  <2>1. ASSUME NEW i \in Jobs, NEW n \in DOMAIN Program[i], n > sent'[i]
        PROVE  future'[Program[i][n]] = "new"
    <3>1. Program[i][n] # k
      BY <1>2, <1>3, <2>1
    <3>2. Program[i][n] \in Tasks
      BY <2>1, PoolAssumption
    <3>3. n \in Nat /\ n > sent[i]
      <4>1. n \in Nat
        BY <2>1, PoolAssumption
      <4>2. sent'[i] = sent[i] \/ sent'[i] = sent[i] + 1
        BY <1>3, <1>4
      <4>3. QED
        BY <1>4, <2>1, <4>1, <4>2
    <3>4. QED
      BY <1>3, <1>4, <3>1, <3>2, <3>3 DEF Exact, UnsentNew
  <2>2. QED
    BY <2>1 DEF UnsentNew
<1>6. QueueExact'
  <2>1. \A i \in DOMAIN queue : queue[i] # k /\ queue[i] \in Tasks
    BY <1>2, <1>4 DEF Exact, QueueExact
  <2>2. /\ Len(queue) \in Nat /\ DOMAIN queue = 1..Len(queue)
        /\ DOMAIN queue' = 1..(Len(queue) + 1)
        /\ queue'[Len(queue) + 1] = k
        /\ \A i \in 1..Len(queue) : queue'[i] = queue[i]
    BY <1>2, <1>3, <1>4
  <2>3. \A i \in DOMAIN queue' : future'[queue'[i]] = "queued"
    BY <1>2, <1>3, <1>4, <2>1, <2>2 DEF Exact, QueueExact
  <2>4. \A i, m \in DOMAIN queue' : queue'[i] = queue'[m] => i = m
    BY <2>1, <2>2 DEF Exact, QueueExact
  <2>5. \A m \in Tasks : future'[m] = "queued" => \E i \in DOMAIN queue' : queue'[i] = m
    <3> SUFFICES ASSUME NEW m \in Tasks, future'[m] = "queued"
                 PROVE  \E i \in DOMAIN queue' : queue'[i] = m
      OBVIOUS
    <3>1. CASE m = k
      BY <2>2, <3>1
    <3>2. CASE m # k
      BY <1>3, <1>4, <2>2, <3>2 DEF Exact, QueueExact
    <3>3. QED
      BY <3>1, <3>2
  <2>6. QED
    BY <2>3, <2>4, <2>5 DEF QueueExact
<1>7. StackExact'
  BY <1>2, <1>3, <1>4 DEF Exact, StackExact
<1>8. QED
  BY <1>5, <1>6, <1>7 DEF Exact

LEMMA RefuseExact ==
  ASSUME Shape, Exact, NEW t \in Threads, Refuse(t)
  PROVE  Exact'
<1> DEFINE j == Top(t)
           k == NextToSend(j)
<1>1. j \in Jobs /\ ~AllSent(j)
  BY TopJob DEF Refuse, Submitting
<1>2. /\ k \in Tasks /\ future[k] = "new"
      /\ \A i \in Jobs : \A n \in DOMAIN Program[i] :
           n > [sent EXCEPT ![j] = @ + 1][i] => Program[i][n] # k
  BY <1>1, NextIsNew DEF Exact
<1>3. /\ queue' = queue /\ stack' = stack
      /\ future' = [future EXCEPT ![k] = "broken"]
      /\ sent' = [sent EXCEPT ![j] = @ + 1]
  BY DEF Refuse
<1>4. /\ queue \in Seq(Tasks)
      /\ future \in [Tasks -> {"new", "queued", "running", "done", "broken"}]
      /\ sent \in [Jobs -> Nat]
  BY DEF Shape, TypeOK
<1> HIDE DEF j, k
<1>5. UnsentNew'
  <2>1. ASSUME NEW i \in Jobs, NEW n \in DOMAIN Program[i], n > sent'[i]
        PROVE  future'[Program[i][n]] = "new"
    <3>1. Program[i][n] # k
      BY <1>2, <1>3, <2>1
    <3>2. Program[i][n] \in Tasks /\ n \in Nat
      BY <2>1, PoolAssumption
    <3>3. sent'[i] = sent[i] \/ sent'[i] = sent[i] + 1
      BY <1>3, <1>4
    <3>4. n > sent[i]
      BY <1>4, <2>1, <3>2, <3>3
    <3>5. QED
      BY <1>3, <1>4, <3>1, <3>2, <3>4 DEF Exact, UnsentNew
  <2>2. QED
    BY <2>1 DEF UnsentNew
<1>6. QueueExact'
  BY <1>2, <1>3, <1>4 DEF Exact, QueueExact
<1>7. StackExact'
  BY <1>2, <1>3, <1>4 DEF Exact, StackExact
<1>8. QED
  BY <1>5, <1>6, <1>7 DEF Exact

LEMMA StartExact ==
  ASSUME Shape, Exact, NEW t \in Threads, StartFront(t)
  PROVE  Exact'
<1> DEFINE k == Head(queue)
           s == <<k>> \o stack[t]
<1>1. /\ queue \in Seq(Tasks) /\ queue # <<>>
      /\ future \in [Tasks -> {"new", "queued", "running", "done", "broken"}]
      /\ stack \in [Threads -> Seq(Jobs)] /\ stack[t] \in Seq(Jobs)
  BY DEF Shape, TypeOK, StartFront
<1>2. /\ k \in Tasks /\ k = queue[1]
      /\ Len(queue) \in Nat \ {0}
      /\ Tail(queue) \in Seq(Tasks)
      /\ Len(Tail(queue)) = Len(queue) - 1
      /\ \A i \in 1..(Len(queue) - 1) : Tail(queue)[i] = queue[i + 1]
  BY <1>1, PopFront
<1>3. DOMAIN queue = 1..Len(queue) /\ DOMAIN Tail(queue) = 1..(Len(queue) - 1)
  BY <1>1, <1>2
<1>4. k \in Jobs /\ future[k] = "queued"
  BY <1>2, <1>3 DEF Exact, QueueExact, Jobs
<1>5. /\ s \in Seq(Jobs)
      /\ Len(s) = Len(stack[t]) + 1
      /\ \A i \in 1..(Len(stack[t]) + 1) : s[i] = IF i = 1 THEN k ELSE stack[t][i - 1]
  BY <1>1, <1>4, PushFrame
<1>6. /\ Len(stack[t]) \in Nat /\ DOMAIN stack[t] = 1..Len(stack[t])
      /\ DOMAIN s = 1..(Len(stack[t]) + 1)
  BY <1>1, <1>5
<1>7. /\ queue' = Tail(queue)
      /\ future' = [future EXCEPT ![k] = "running"]
      /\ stack' = [stack EXCEPT ![t] = s]
      /\ sent' = sent
  BY DEF StartFront
<1> HIDE DEF k, s
<1>8. UnsentNew'
  <2>1. ASSUME NEW i \in Jobs, NEW n \in DOMAIN Program[i]
        PROVE  Program[i][n] \in Tasks
    BY <2>1, PoolAssumption
  <2>2. QED
    BY <1>1, <1>4, <1>7, <2>1 DEF Exact, UnsentNew
<1>9. QueueExact'
  <2>1. \A i \in 1..(Len(queue) - 1) : /\ i + 1 \in DOMAIN queue /\ queue[i + 1] # k
                                       /\ queue[i + 1] \in Tasks
    BY <1>1, <1>2, <1>3 DEF Exact, QueueExact
  <2>2. \A i \in DOMAIN queue' : future'[queue'[i]] = "queued"
    BY <1>1, <1>2, <1>3, <1>7, <2>1 DEF Exact, QueueExact
  <2>3. \A i, m \in DOMAIN queue' : queue'[i] = queue'[m] => i = m
    <3> SUFFICES ASSUME NEW i \in DOMAIN queue', NEW m \in DOMAIN queue', queue'[i] = queue'[m]
                 PROVE  i = m
      OBVIOUS
    <3>1. queue[i + 1] = queue[m + 1] /\ i + 1 \in DOMAIN queue /\ m + 1 \in DOMAIN queue
      BY <1>2, <1>3, <1>7, <2>1
    <3>2. i + 1 = m + 1
      BY <3>1 DEF Exact, QueueExact
    <3>3. QED
      BY <1>2, <1>3, <1>7, <3>2
  <2>4. \A m \in Tasks : future'[m] = "queued" => \E i \in DOMAIN queue' : queue'[i] = m
    <3> SUFFICES ASSUME NEW m \in Tasks, future'[m] = "queued"
                 PROVE  \E i \in DOMAIN queue' : queue'[i] = m
      OBVIOUS
    <3>1. m # k /\ future[m] = "queued"
      BY <1>1, <1>2, <1>7
    <3>2. PICK i \in DOMAIN queue : queue[i] = m
      BY <3>1 DEF Exact, QueueExact
    <3>3. i # 1 /\ i - 1 \in 1..(Len(queue) - 1)
      BY <1>2, <1>3, <3>1, <3>2
    <3>4. queue'[i - 1] = m
      BY <1>2, <1>7, <3>2, <3>3
    <3>5. QED
      BY <1>3, <1>7, <3>3, <3>4
  <2>5. QED
    BY <2>2, <2>3, <2>4 DEF QueueExact
<1>10. StackExact'
  <2>1. \A u \in Threads : \A i \in DOMAIN stack[u] : stack[u][i] # k
    BY <1>2, <1>4 DEF Exact, StackExact
  <2>2. /\ stack'[t] = s
        /\ \A u \in Threads \ {t} : stack'[u] = stack[u]
    BY <1>1, <1>7
  <2>3. \A i \in DOMAIN s : \/ i = 1 /\ s[i] = k
                            \/ i # 1 /\ i - 1 \in DOMAIN stack[t] /\ s[i] = stack[t][i - 1]
    BY <1>5, <1>6
  <2>4. ASSUME NEW u \in Threads, NEW i \in DOMAIN stack'[u], stack'[u][i] \in Tasks
        PROVE  future'[stack'[u][i]] = "running"
    BY <1>1, <1>2, <1>7, <2>1, <2>2, <2>3, <2>4 DEF Exact, StackExact
  <2>5. ASSUME NEW u \in Threads, NEW v \in Threads,
               NEW i \in DOMAIN stack'[u], NEW m \in DOMAIN stack'[v],
               stack'[u][i] = stack'[v][m]
        PROVE  u = v /\ i = m
    <3>1. CASE u # t /\ v # t
      BY <2>2, <2>5, <3>1 DEF Exact, StackExact
    <3>2. CASE u = t /\ v # t
      BY <2>1, <2>2, <2>3, <2>5, <3>2 DEF Exact, StackExact
    <3>3. CASE u # t /\ v = t
      BY <2>1, <2>2, <2>3, <2>5, <3>3 DEF Exact, StackExact
    <3>4. CASE u = t /\ v = t
      <4>1. i \in DOMAIN s /\ m \in DOMAIN s /\ s[i] = s[m]
        BY <2>2, <2>5, <3>4
      <4>2. i - 1 \in DOMAIN stack[t] /\ m - 1 \in DOMAIN stack[t]
              /\ stack[t][i - 1] = stack[t][m - 1] => i - 1 = m - 1
        BY DEF Exact, StackExact
      <4>3. i = m
        BY <1>6, <2>1, <2>3, <4>1, <4>2
      <4>4. QED
        BY <3>4, <4>3
    <3>5. QED
      BY <3>1, <3>2, <3>3, <3>4
  <2>6. ASSUME NEW m \in Tasks, future'[m] = "running"
        PROVE  \E u \in Threads : \E i \in DOMAIN stack'[u] : stack'[u][i] = m
    <3>1. CASE m = k
      <4>1. 1 \in DOMAIN s /\ s[1] = k
        BY <1>5, <1>6
      <4>2. QED
        BY <2>2, <3>1, <4>1
    <3>2. CASE m # k
      <4>1. PICK u \in Threads : \E i \in DOMAIN stack[u] : stack[u][i] = m
        BY <1>1, <1>7, <2>6, <3>2 DEF Exact, StackExact
      <4>2. PICK i \in DOMAIN stack[u] : stack[u][i] = m
        BY <4>1
      <4>3. CASE u # t
        BY <2>2, <4>2, <4>3
      <4>4. CASE u = t
        <5>1. i + 1 \in DOMAIN s /\ s[i + 1] = m
          BY <1>5, <1>6, <4>2, <4>4
        <5>2. QED
          BY <2>2, <5>1
      <4>5. QED
        BY <4>3, <4>4
    <3>3. QED
      BY <3>1, <3>2
  <2>7. QED
    BY <2>4, <2>5, <2>6 DEF StackExact
<1>11. QED
  BY <1>8, <1>9, <1>10 DEF Exact

LEMMA ReturnExact ==
  ASSUME Shape, Exact, NEW t \in Threads, pc[t] = "run", Return(t)
  PROVE  Exact'
<1> DEFINE j == Top(t)
           s == Tail(stack[t])
<1>1. /\ queue \in Seq(Tasks)
      /\ future \in [Tasks -> {"new", "queued", "running", "done", "broken"}]
      /\ stack \in [Threads -> Seq(Jobs)] /\ stack[t] \in Seq(Jobs)
  BY DEF Shape, TypeOK
<1>2. stack[t] # <<>> /\ j \in Jobs /\ j = stack[t][1]
  BY TopJob
<1>3. /\ s \in Seq(Jobs) /\ Len(stack[t]) \in Nat \ {0}
      /\ Len(s) = Len(stack[t]) - 1
      /\ \A i \in 1..(Len(stack[t]) - 1) : s[i] = stack[t][i + 1]
  BY <1>1, <1>2, PopFront
<1>4. /\ DOMAIN stack[t] = 1..Len(stack[t]) /\ DOMAIN s = 1..(Len(stack[t]) - 1)
      /\ \A i \in DOMAIN s : i + 1 \in DOMAIN stack[t] /\ i + 1 # 1 /\ s[i] = stack[t][i + 1]
  BY <1>1, <1>3
<1>5. /\ queue' = queue /\ sent' = sent
      /\ future' = IF j \in Tasks THEN [future EXCEPT ![j] = "done"] ELSE future
      /\ stack' = [stack EXCEPT ![t] = s]
  BY DEF Return
<1>6. /\ stack'[t] = s
      /\ \A u \in Threads \ {t} : stack'[u] = stack[u]
  BY <1>1, <1>5
<1>7. j \in Tasks => future[j] = "running"
  BY <1>2, <1>4, <1>3 DEF Exact, StackExact
<1> HIDE DEF j, s
<1>8. UnsentNew'
  <2>1. ASSUME NEW i \in Jobs, NEW n \in DOMAIN Program[i]
        PROVE  Program[i][n] \in Tasks
    BY <2>1, PoolAssumption
  <2>2. QED
    BY <1>1, <1>5, <1>7, <2>1 DEF Exact, UnsentNew
<1>9. QueueExact'
  <2>1. \A i \in DOMAIN queue : queue[i] \in Tasks
    BY <1>1
  <2>2. QED
    BY <1>1, <1>5, <1>7, <2>1 DEF Exact, QueueExact
<1>10. StackExact'
  \* The frame that is gone was the only one of its job.
  <2>1. \A u \in Threads : \A i \in DOMAIN stack'[u] : stack'[u][i] # j
    <3> SUFFICES ASSUME NEW u \in Threads, NEW i \in DOMAIN stack'[u] PROVE stack'[u][i] # j
      OBVIOUS
    <3>1. 1 \in DOMAIN stack[t]
      BY <1>3, <1>4
    <3>2. CASE u # t
      BY <1>2, <1>6, <3>1, <3>2 DEF Exact, StackExact
    <3>3. CASE u = t
      BY <1>2, <1>4, <1>6, <3>1, <3>3 DEF Exact, StackExact
    <3>4. QED
      BY <3>2, <3>3
  <2>2. ASSUME NEW u \in Threads, NEW i \in DOMAIN stack'[u], stack'[u][i] \in Tasks
        PROVE  future'[stack'[u][i]] = "running"
    <3>1. stack'[u][i] # j
      BY <2>1
    <3>2. future[stack'[u][i]] = "running"
      BY <1>4, <1>6, <2>2 DEF Exact, StackExact
    <3>3. QED
      BY <1>1, <1>5, <2>2, <3>1, <3>2
  <2>3. ASSUME NEW u \in Threads, NEW v \in Threads,
               NEW i \in DOMAIN stack'[u], NEW m \in DOMAIN stack'[v],
               stack'[u][i] = stack'[v][m]
        PROVE  u = v /\ i = m
    <3>1. CASE u # t /\ v # t
      BY <1>6, <2>3, <3>1 DEF Exact, StackExact
    <3>2. CASE u = t /\ v # t
      BY <1>4, <1>6, <2>3, <3>2 DEF Exact, StackExact
    <3>3. CASE u # t /\ v = t
      BY <1>4, <1>6, <2>3, <3>3 DEF Exact, StackExact
    <3>4. CASE u = t /\ v = t
      <4>1. i + 1 = m + 1
        BY <1>4, <1>6, <2>3, <3>4 DEF Exact, StackExact
      <4>2. i \in Nat /\ m \in Nat
        BY <1>3, <1>4, <1>6, <2>3, <3>4
      <4>3. QED
        BY <3>4, <4>1, <4>2
    <3>5. QED
      BY <3>1, <3>2, <3>3, <3>4
  <2>4. ASSUME NEW m \in Tasks, future'[m] = "running"
        PROVE  \E u \in Threads : \E i \in DOMAIN stack'[u] : stack'[u][i] = m
    <3>1. m # j /\ future[m] = "running"
      BY <1>1, <1>5, <2>4
    <3>2. PICK u \in Threads : \E i \in DOMAIN stack[u] : stack[u][i] = m
      BY <3>1 DEF Exact, StackExact
    <3>3. PICK i \in DOMAIN stack[u] : stack[u][i] = m
      BY <3>2
    <3>4. CASE u # t
      BY <1>6, <3>3, <3>4
    <3>5. CASE u = t
      <4>1. i # 1
        BY <1>2, <3>1, <3>3, <3>5
      <4>2. i - 1 \in DOMAIN s /\ s[i - 1] = m
        BY <1>3, <1>4, <3>3, <3>5, <4>1
      <4>3. QED
        BY <1>6, <4>2
    <3>6. QED
      BY <3>4, <3>5
  <2>5. QED
    BY <2>2, <2>3, <2>4 DEF StackExact
<1>11. QED
  BY <1>8, <1>9, <1>10 DEF Exact

LEMMA StillExact ==
  ASSUME Exact, UNCHANGED <<queue, future, stack, sent>>
  PROVE  Exact'
  BY DEF Exact, UnsentNew, QueueExact, StackExact

LEMMA StepExact == Shape /\ Exact /\ [Next]_vars => Exact'
<1> SUFFICES ASSUME Shape, Exact, [Next]_vars PROVE Exact'
  OBVIOUS
<1>1. ASSUME NEW t \in Threads, JobStep(t) PROVE Exact'
  <2>1. CASE Enqueue(t)
    BY <2>1, EnqueueExact
  <2>2. CASE Refuse(t)
    BY <2>2, RefuseExact
  <2>3. CASE NotifyOne(t) \/ Await(t) \/ Poll(t)
    BY <2>3, StillExact DEF NotifyOne, Await, Poll
  <2>4. CASE Finish(t) \/ StopEarly(t) \/ Abandon(t)
    BY <2>4, ReturnExact DEF Finish, StopEarly, Abandon
  <2>5. CASE Steal(t)
    BY <2>5, StartExact DEF Steal
  <2>6. QED
    BY <1>1, <2>1, <2>2, <2>3, <2>4, <2>5 DEF JobStep, Proceed
<1>2. ASSUME NEW w \in Workers, WorkerStep(w) \/ SpuriousWakeup(w) PROVE Exact'
  <2>1. CASE Take(w)
    BY <2>1, StartExact DEF Take, Threads
  <2>2. CASE Sleep(w) \/ Exit(w) \/ SpuriousWakeup(w)
    BY <2>2, StillExact DEF Sleep, Exit, SpuriousWakeup
  <2>3. QED
    BY <1>2, <2>1, <2>2 DEF WorkerStep
<1>3. CASE DtorStep \/ UNCHANGED vars
  BY <1>3, StillExact DEF DtorStep, RaiseShutdown, NotifyAll, JoinAll, vars
<1>4. QED
  BY <1>1, <1>2, <1>3 DEF Next, Destroyed

-----------------------------------------------------------------------------
(* The theorems *)

LEMMA PoolInvariant == Spec => []IInv
<1>1. Init => IInv
  BY InitShape, InitClosing, InitExact DEF IInv
<1>2. IInv /\ [Next]_vars => IInv'
  BY StepShape, StepClosing, StepExact DEF IInv
<1>3. QED
  BY <1>1, <1>2, PTL DEF Spec

(***************************************************************************)
(* Whatever the number of workers and clients and however deep run_until() *)
(* nests, a task that submit() accepted is queued once, then on one stack  *)
(* once, then done.                                                        *)
(***************************************************************************)
THEOREM PoolNoTaskLostOrRunTwice == Spec => []NoTaskLostOrRunTwice
<1>1. IInv => NoTaskLostOrRunTwice
  BY DEF IInv, Exact, NoTaskLostOrRunTwice
<1>2. QED
  BY PoolInvariant, <1>1, PTL

(***************************************************************************)
(* When ~ThreadPool has returned, every task that submit() accepted has    *)
(* run to its end, whether or not its submitter waited for it.             *)
(***************************************************************************)
THEOREM PoolDestroyedMeansDrained == Spec => []DestroyedMeansDrained
<1>1. IInv => DestroyedMeansDrained
  <2> SUFFICES ASSUME IInv, dtor = "gone", NEW k \in Tasks
               PROVE  future[k] \in {"new", "done", "broken"}
    BY DEF DestroyedMeansDrained
  <2>1. /\ \A t \in Threads : pc[t] = "exited"
        /\ queue = <<>>
    BY PoolAssumption DEF IInv, Closing, Threads
  <2>2. \A t \in Threads : stack[t] = <<>>
    BY <2>1 DEF IInv, Shape, TypeOK
  <2>3. future[k] # "queued"
    BY <2>1 DEF IInv, Exact, QueueExact
  <2>4. future[k] # "running"
    BY <2>2 DEF IInv, Exact, StackExact
  <2>5. QED
    BY <2>3, <2>4 DEF IInv, Shape, TypeOK
<1>2. QED
  BY PoolInvariant, <1>1, PTL

-----------------------------------------------------------------------------
(* What a job has waited for *)

\* A job counts a task as joined only once its future is ready, and a job that
\* has returned and may not give up has joined all that it submitted.
JoinedSettled ==
  /\ \A j \in Jobs : \A i \in DOMAIN Program[j] : i <= joined[j] => Ready(Program[j][i])
  /\ \A j \in Jobs \ MayAbandon : Returned(j) => AllJoined(j)

\* A future that holds a value or a broken promise keeps it, and only the
\* return of a job gives it a value.
LEMMA ReadyStays ==
  ASSUME IInv, [Next]_vars
  PROVE  \A k \in Tasks : Ready(k) => future'[k] = future[k]
<1> SUFFICES ASSUME NEW k \in Tasks, Ready(k) PROVE future'[k] = future[k]
  OBVIOUS
<1> USE DEF IInv
<1>1. ASSUME NEW t \in Threads, Enqueue(t) \/ Refuse(t) PROVE future'[k] = future[k]
  <2>1. Top(t) \in Jobs
    BY <1>1, TopJob DEF Enqueue, Refuse
  <2>2. NextToSend(Top(t)) # k
    BY <1>1, <2>1, NextIsNew DEF Exact, Enqueue, Refuse, Submitting, Ready
  <2>3. QED
    BY <1>1, <2>2 DEF Enqueue, Refuse, Shape, TypeOK
<1>2. ASSUME NEW t \in Threads, StartFront(t) PROVE future'[k] = future[k]
  <2>1. queue \in Seq(Tasks) /\ queue # <<>>
    BY <1>2 DEF StartFront, Shape, TypeOK
  <2>2. 1 \in DOMAIN queue /\ Head(queue) = queue[1]
    BY <2>1, PopFront
  <2>3. future[Head(queue)] = "queued"
    BY <2>2 DEF Exact, QueueExact
  <2>4. QED
    BY <1>2, <2>3 DEF StartFront, Ready, Shape, TypeOK
<1>3. ASSUME NEW t \in Threads, Finish(t) \/ StopEarly(t) \/ Abandon(t) PROVE future'[k] = future[k]
  <2>1. pc[t] = "run" /\ Return(t)
    BY <1>3 DEF Finish, StopEarly, Abandon
  <2>2. stack[t] \in Seq(Jobs) /\ stack[t] # <<>> /\ Top(t) = stack[t][1]
    BY <2>1, TopJob DEF Shape, TypeOK
  <2>3. 1 \in DOMAIN stack[t]
    BY <2>2, PopFront
  <2>4. Top(t) \in Tasks => future[Top(t)] = "running"
    BY <2>2, <2>3 DEF Exact, StackExact
  <2>5. QED
    BY <2>1, <2>4 DEF Return, Ready, Shape, TypeOK
<1>4. CASE future' = future
  BY <1>4
<1>5. QED
  BY <1>1, <1>2, <1>3, <1>4
     DEF Next, JobStep, Proceed, WorkerStep, DtorStep, NotifyOne, Await, Steal, Poll, Take, Sleep,
         Exit, SpuriousWakeup, RaiseShutdown, NotifyAll, JoinAll, Destroyed, vars, Threads

\* A job that stands on a stack has not returned.
LEMMA TopNotReturned ==
  ASSUME IInv, NEW t \in Threads, pc[t] = "run"
  PROVE  Top(t) \in Jobs /\ ~Returned(Top(t))
<1>1. /\ stack[t] \in Seq(Jobs) /\ stack[t] # <<>> /\ Top(t) \in Jobs /\ Top(t) = stack[t][1]
      /\ Top(t) \in Tasks \/ Top(t) \in Clients
      /\ Top(t) \in Clients => Top(t) = t
  BY TopJob DEF IInv, Shape, TypeOK
<1>2. 1 \in DOMAIN stack[t]
  BY <1>1, PopFront
<1>3. Top(t) \in Tasks => future[Top(t)] = "running"
  BY <1>1, <1>2 DEF IInv, Exact, StackExact
<1> QED
  BY <1>1, <1>3 DEF Returned

\* A step in which no job returns, submits or joins.
LEMMA StillSettled ==
  ASSUME IInv, JoinedSettled, [Next]_vars, joined' = joined, sent' = sent,
         \A k \in Tasks : future'[k] = "done" => future[k] = "done",
         \A c \in Clients : pc'[c] = "exited" => pc[c] = "exited"
  PROVE  JoinedSettled'
<1>1. \A j \in Jobs : Returned(j)' => Returned(j)
  BY DEF Returned, Jobs
<1>2. \A k \in Tasks : Ready(k) => Ready(k)'
  BY ReadyStays DEF Ready
<1>3. \A j \in Jobs : \A i \in DOMAIN Program[j] : Program[j][i] \in Tasks
  BY PoolAssumption
<1> QED
  BY <1>1, <1>2, <1>3 DEF JoinedSettled, AllJoined

LEMMA StepSettled == IInv /\ JoinedSettled /\ [Next]_vars => JoinedSettled'
<1> SUFFICES ASSUME IInv, JoinedSettled, [Next]_vars PROVE JoinedSettled'
  OBVIOUS
<1>0. /\ joined \in [Jobs -> Nat] /\ sent \in [Jobs -> Nat] /\ pc \in [Threads -> PCs]
      /\ future \in [Tasks -> {"new", "queued", "running", "done", "broken"}]
      /\ \A j \in Jobs : Program[j] \in Seq(Tasks) /\ \A i \in DOMAIN Program[j] : Program[j][i] \in Tasks
      /\ Tasks \subseteq Jobs /\ Clients \subseteq Jobs /\ Clients \subseteq Threads
      /\ Tasks \cap Clients = {}
  BY PoolAssumption DEF IInv, Shape, TypeOK, Jobs, Threads
<1>1. \A k \in Tasks : Ready(k) => Ready(k)' /\ future'[k] = future[k]
  BY ReadyStays DEF Ready
<1>2. ASSUME NEW t \in Threads, Await(t) PROVE JoinedSettled'
  <2> DEFINE j == Top(t)
  <2>1. j \in Jobs /\ ~Returned(j) /\ future' = future /\ sent' = sent
    BY <1>2, TopNotReturned DEF Await
  <2>2. \A i \in Jobs : Returned(i)' => Returned(i)
    <3>1. \A u \in Threads : pc'[u] = "exited" => pc[u] = "exited"
      BY <1>0, <1>2 DEF Await
    <3> QED
      BY <1>0, <2>1, <3>1 DEF Returned, Jobs
  <2>3. CASE Ready(NextToJoin(j)) /\ joined' = [joined EXCEPT ![j] = @ + 1]
    <3> HIDE DEF j
    <3>1. ASSUME NEW i \in Jobs, NEW n \in DOMAIN Program[i], n <= joined'[i]
          PROVE  Ready(Program[i][n])
      <4>1. CASE i = j /\ n = joined[j] + 1
        BY <2>3, <4>1 DEF NextToJoin
      <4>2. CASE ~(i = j /\ n = joined[j] + 1)
        <5>1. joined[i] \in Nat /\ n \in Nat
          BY <1>0
        <5>2. n <= joined[i]
          BY <1>0, <2>1, <2>3, <3>1, <4>2, <5>1
        <5>3. QED
          BY <5>2 DEF JoinedSettled
      <4>3. QED
        BY <4>1, <4>2
    <3>2. ASSUME NEW i \in Jobs \ MayAbandon, Returned(i)' PROVE joined'[i] = sent'[i]
      <4>1. Returned(i) /\ AllJoined(i) /\ i # j
        BY <2>1, <2>2, <3>2 DEF JoinedSettled
      <4>2. QED
        BY <1>0, <2>1, <2>3, <4>1 DEF AllJoined
    <3>3. QED
      BY <2>1, <3>1, <3>2 DEF JoinedSettled, Ready, AllJoined
  <2>4. CASE joined' = joined
    BY <2>1, <2>2, <2>4 DEF JoinedSettled, Ready, AllJoined
  <2>5. QED
    BY <1>2, <2>3, <2>4 DEF Await
<1>3. ASSUME NEW t \in Threads, Finish(t) \/ StopEarly(t) \/ Abandon(t) PROVE JoinedSettled'
  <2>1. pc[t] = "run" /\ Return(t) /\ Top(t) \in Jobs /\ (Top(t) \in Clients => Top(t) = t)
    BY <1>3, TopJob DEF Finish, StopEarly, Abandon, IInv
  <2>2. Top(t) \notin MayAbandon => AllJoined(Top(t))
    BY <1>3 DEF Finish, StopEarly, Abandon
  <2>3. joined' = joined /\ sent' = sent
    BY <2>1 DEF Return
  <2>4. \A k \in Tasks : future'[k] = "done" => future[k] = "done" \/ k = Top(t)
    BY <1>0, <2>1 DEF Return
  <2>5. \A c \in Clients : pc'[c] = "exited" => pc[c] = "exited" \/ c = Top(t)
    BY <1>0, <2>1 DEF Return
  <2>6. \A i \in Jobs : Returned(i)' => Returned(i) \/ i = Top(t)
    BY <1>0, <2>4, <2>5 DEF Returned, Jobs
  <2>7. QED
    BY <1>0, <1>1, <2>2, <2>3, <2>6 DEF JoinedSettled, AllJoined
<1>4. ASSUME NEW t \in Threads, Enqueue(t) \/ Refuse(t) PROVE JoinedSettled'
  <2>1. Top(t) \in Jobs /\ ~Returned(Top(t))
    BY <1>4, TopNotReturned DEF Enqueue, Refuse
  <2>2. joined' = joined /\ \A i \in Jobs : i # Top(t) => sent'[i] = sent[i]
    BY <1>0, <1>4 DEF Enqueue, Refuse
  <2>3. \A k \in Tasks : future'[k] = "done" => future[k] = "done"
    BY <1>0, <1>4 DEF Enqueue, Refuse
  <2>4. \A u \in Threads : pc'[u] = "exited" => pc[u] = "exited"
    BY <1>0, <1>4 DEF Enqueue, Refuse
  <2>5. \A i \in Jobs : Returned(i)' => Returned(i)
    BY <1>0, <2>3, <2>4 DEF Returned, Jobs
  <2>6. QED
    BY <1>0, <1>1, <2>1, <2>2, <2>5 DEF JoinedSettled, AllJoined
<1>5. ASSUME NEW t \in Threads, StartFront(t) PROVE JoinedSettled'
  <2>1. /\ joined' = joined /\ sent' = sent
        /\ \A k \in Tasks : future'[k] = "done" => future[k] = "done"
        /\ \A c \in Clients : pc'[c] = "exited" => pc[c] = "exited"
    BY <1>0, <1>5 DEF StartFront
  <2>2. QED
    BY <2>1, StillSettled
<1>6. ASSUME NEW t \in Threads, NotifyOne(t) \/ Poll(t) PROVE JoinedSettled'
  <2>1. joined' = joined /\ sent' = sent /\ future' = future
    BY <1>6 DEF NotifyOne, Poll
  <2>2. \A c \in Clients : pc'[c] = "exited" => pc[c] = "exited"
    BY <1>0, <1>6 DEF NotifyOne, Poll
  <2>3. QED
    BY <2>1, <2>2, StillSettled
<1>7. ASSUME NEW w \in Workers, Sleep(w) \/ Exit(w) \/ SpuriousWakeup(w) PROVE JoinedSettled'
  <2>1. joined' = joined /\ sent' = sent /\ future' = future
    BY <1>7 DEF Sleep, Exit, SpuriousWakeup
  <2>2. \A c \in Clients : pc'[c] = pc[c]
    BY <1>0, <1>7, PoolAssumption DEF Sleep, Exit, SpuriousWakeup
  <2>3. QED
    BY <2>1, <2>2, StillSettled
<1>8. CASE DtorStep \/ UNCHANGED vars
  <2>1. joined' = joined /\ sent' = sent /\ future' = future
    BY <1>8 DEF DtorStep, RaiseShutdown, NotifyAll, JoinAll, vars
  <2>2. \A c \in Clients : pc'[c] = "exited" => pc[c] = "exited"
    BY <1>0, <1>8 DEF DtorStep, RaiseShutdown, NotifyAll, JoinAll, vars
  <2>3. QED
    BY <2>1, <2>2, StillSettled
<1>9. QED
  BY <1>2, <1>3, <1>4, <1>5, <1>6, <1>7, <1>8
     DEF Next, JobStep, Proceed, WorkerStep, Steal, Take, Destroyed, Threads

(***************************************************************************)
(* A job that waits with run_until(), whether a client of the pool or a    *)
(* task on it, returns only after every task that it submitted has         *)
(* settled, however many batches it began before its time was up and       *)
(* however run_until() interleaves tasks on the stacks: what they refer to *)
(* in its frame is alive while they run.                                   *)
(***************************************************************************)
THEOREM PoolScopedTasksSettled == Spec => []ScopedTasksSettled
<1>1. Init => JoinedSettled
  <2> SUFFICES ASSUME Init PROVE JoinedSettled
    OBVIOUS
  <2>1. \A j \in Jobs : \A i \in DOMAIN Program[j] : i \in Nat \ {0}
    BY PoolAssumption
  <2>2. \A j \in Jobs : joined[j] = 0 /\ sent[j] = 0
    BY DEF Init
  <2>3. \A j \in Jobs : \A i \in DOMAIN Program[j] : ~(i <= joined[j])
    BY <2>1, <2>2
  <2>4. QED
    BY <2>2, <2>3 DEF JoinedSettled, AllJoined
<1>2. IInv /\ JoinedSettled => ScopedTasksSettled
  <2> SUFFICES ASSUME IInv, JoinedSettled, NEW j \in Jobs \ MayAbandon, Returned(j),
                      NEW i \in 1..sent[j]
               PROVE  Ready(Program[j][i])
    BY DEF ScopedTasksSettled
  <2>1. joined[j] = sent[j] /\ sent[j] \in Nat /\ sent[j] <= Len(Program[j])
    BY DEF JoinedSettled, AllJoined, IInv, Shape, TypeOK, SentBound
  <2>2. Program[j] \in Seq(Tasks) /\ Len(Program[j]) \in Nat
    BY PoolAssumption
  <2>3. i \in DOMAIN Program[j] /\ i <= joined[j]
    BY <2>1, <2>2
  <2>4. QED
    BY <2>3 DEF JoinedSettled
<1>3. QED
  BY <1>1, <1>2, PoolInvariant, StepSettled, PTL DEF Spec

-----------------------------------------------------------------------------
(* The pool implements the executor *)

LEMMA InitExecutor == Init => Executor!Init
  BY DEF Init, Executor!Init

\* A step that the executor does not see.
LEMMA StutterExecutor ==
  ASSUME queue' = queue, future' = future, shutdown' = shutdown,
         (dtor' = "gone") <=> (dtor = "gone")
  PROVE  UNCHANGED Executor!evars
  BY DEF Executor!evars

LEMMA EnqueueAccepts ==
  ASSUME Shape, Exact, NEW t \in Threads, Enqueue(t)
  PROVE  \E k \in Tasks : Executor!Accept(k)
<1> DEFINE k == NextToSend(Top(t))
<1>1. k \in Tasks /\ future[k] = "new"
  BY TopJob, NextIsNew DEF Enqueue, Submitting, Exact
<1>2. \A i \in DOMAIN queue : queue[i] # k
  BY <1>1 DEF Exact, QueueExact
<1>3. /\ queue' = Append(queue, k) /\ ~shutdown
      /\ future' = [future EXCEPT ![k] = "queued"]
      /\ UNCHANGED <<shutdown, dtor>>
  BY DEF Enqueue
<1>4. future \in [Tasks -> {"new", "queued", "running", "done", "broken"}]
  BY DEF Shape, TypeOK
<1> HIDE DEF k
<1>5. \A s \in {"running", "done", "broken"} :
        {m \in Tasks : future'[m] = s} = {m \in Tasks : future[m] = s}
  BY <1>1, <1>3, <1>4
<1>6. Executor!Unknown(k)
  BY <1>1, <1>2 DEF Executor!Unknown, Executor!Started
<1>7. QED
  BY <1>1, <1>3, <1>5, <1>6 DEF Executor!Accept

LEMMA RefuseRejects ==
  ASSUME Shape, Exact, NEW t \in Threads, Refuse(t)
  PROVE  \E k \in Tasks : Executor!Reject(k)
<1> DEFINE k == NextToSend(Top(t))
<1>1. k \in Tasks /\ future[k] = "new"
  BY TopJob, NextIsNew DEF Refuse, Submitting, Exact
<1>2. \A i \in DOMAIN queue : queue[i] # k
  BY <1>1 DEF Exact, QueueExact
<1>3. /\ queue' = queue /\ shutdown
      /\ future' = [future EXCEPT ![k] = "broken"]
      /\ UNCHANGED <<shutdown, dtor>>
  BY DEF Refuse
<1>4. future \in [Tasks -> {"new", "queued", "running", "done", "broken"}]
  BY DEF Shape, TypeOK
<1> HIDE DEF k
<1>5. /\ {m \in Tasks : future'[m] = "running"} = {m \in Tasks : future[m] = "running"}
      /\ {m \in Tasks : future'[m] = "done"} = {m \in Tasks : future[m] = "done"}
      /\ {m \in Tasks : future'[m] = "broken"} = {m \in Tasks : future[m] = "broken"} \cup {k}
  BY <1>1, <1>3, <1>4
<1>6. Executor!Unknown(k)
  BY <1>1, <1>2 DEF Executor!Unknown, Executor!Started
<1>7. QED
  BY <1>1, <1>3, <1>5, <1>6 DEF Executor!Reject

LEMMA StartStarts ==
  ASSUME Shape, Exact, NEW t \in Threads, StartFront(t)
  PROVE  Executor!Start
<1> DEFINE k == Head(queue)
<1>1. queue \in Seq(Tasks) /\ queue # <<>>
  BY DEF Shape, TypeOK, StartFront
<1>2. k \in Tasks /\ k = queue[1] /\ 1 \in DOMAIN queue
  BY <1>1, PopFront
<1>3. future[k] = "queued"
  BY <1>2 DEF Exact, QueueExact
<1>4. /\ queue' = Tail(queue)
      /\ future' = [future EXCEPT ![k] = "running"]
      /\ UNCHANGED <<shutdown, dtor>>
  BY DEF StartFront
<1>5. future \in [Tasks -> {"new", "queued", "running", "done", "broken"}]
  BY DEF Shape, TypeOK
<1>6. /\ {m \in Tasks : future'[m] = "running"} = {m \in Tasks : future[m] = "running"} \cup {k}
      /\ {m \in Tasks : future'[m] = "done"} = {m \in Tasks : future[m] = "done"}
      /\ {m \in Tasks : future'[m] = "broken"} = {m \in Tasks : future[m] = "broken"}
  <2> HIDE DEF k
  <2>1. QED
    BY <1>2, <1>3, <1>4, <1>5
<1>7. QED
  BY <1>1, <1>4, <1>6 DEF Executor!Start

LEMMA ReturnCompletes ==
  ASSUME Shape, Exact, NEW t \in Threads, pc[t] = "run", Return(t)
  PROVE  \/ \E k \in Tasks : Executor!Complete(k)
         \/ UNCHANGED Executor!evars
<1> DEFINE j == Top(t)
<1>1. /\ j \in Jobs /\ j = stack[t][1] /\ stack[t] # <<>>
  BY TopJob
<1>2. 1 \in DOMAIN stack[t]
  <2>1. stack[t] \in Seq(Jobs)
    BY DEF Shape, TypeOK
  <2>2. QED
    BY <1>1, <2>1, PopFront
<1>3. j \in Tasks => future[j] = "running"
  BY <1>1, <1>2 DEF Exact, StackExact
<1>4. /\ UNCHANGED <<queue, shutdown, dtor>>
      /\ future' = IF j \in Tasks THEN [future EXCEPT ![j] = "done"] ELSE future
  BY DEF Return
<1>5. future \in [Tasks -> {"new", "queued", "running", "done", "broken"}]
  BY DEF Shape, TypeOK
<1> HIDE DEF j
<1>6. CASE j \in Tasks
  <2>1. /\ {m \in Tasks : future'[m] = "running"} = {m \in Tasks : future[m] = "running"} \ {j}
        /\ {m \in Tasks : future'[m] = "done"} = {m \in Tasks : future[m] = "done"} \cup {j}
        /\ {m \in Tasks : future'[m] = "broken"} = {m \in Tasks : future[m] = "broken"}
    BY <1>3, <1>4, <1>5, <1>6
  <2>2. j \in {m \in Tasks : future[m] = "running"}
    BY <1>3, <1>6
  <2>3. QED
    BY <1>4, <1>6, <2>1, <2>2 DEF Executor!Complete
<1>7. CASE j \notin Tasks
  BY <1>4, <1>7, StutterExecutor
<1>8. QED
  BY <1>6, <1>7

LEMMA StepExecutor == IInv /\ [Next]_vars => [Executor!Next]_Executor!evars
<1> SUFFICES ASSUME IInv, [Next]_vars
             PROVE  Executor!Next \/ UNCHANGED Executor!evars
  OBVIOUS
<1> USE DEF IInv
<1>1. ASSUME NEW t \in Threads, JobStep(t)
      PROVE  Executor!Next \/ UNCHANGED Executor!evars
  <2>1. CASE Enqueue(t)
    <3>1. \E k \in Tasks : Executor!Accept(k)
      BY <2>1, EnqueueAccepts
    <3>2. QED
      BY <3>1 DEF Executor!Next
  <2>2. CASE Refuse(t)
    <3>1. \E k \in Tasks : Executor!Reject(k)
      BY <2>2, RefuseRejects
    <3>2. QED
      BY <3>1 DEF Executor!Next
  <2>3. CASE NotifyOne(t) \/ Await(t) \/ Poll(t)
    BY <2>3, StutterExecutor DEF NotifyOne, Await, Poll
  <2>4. CASE Finish(t) \/ StopEarly(t) \/ Abandon(t)
    BY <2>4, ReturnCompletes DEF Finish, StopEarly, Abandon, Executor!Next
  <2>5. CASE Steal(t)
    BY <2>5, StartStarts DEF Steal, Executor!Next
  <2>6. QED
    BY <1>1, <2>1, <2>2, <2>3, <2>4, <2>5 DEF JobStep, Proceed
<1>2. ASSUME NEW w \in Workers, WorkerStep(w) \/ SpuriousWakeup(w)
      PROVE  Executor!Next \/ UNCHANGED Executor!evars
  <2>1. CASE Take(w)
    BY <2>1, StartStarts DEF Take, Threads, Executor!Next
  <2>2. CASE Sleep(w) \/ Exit(w) \/ SpuriousWakeup(w)
    BY <2>2, StutterExecutor DEF Sleep, Exit, SpuriousWakeup
  <2>3. QED
    BY <1>2, <2>1, <2>2 DEF WorkerStep
<1>3. CASE RaiseShutdown
  <2>1. shutdown = FALSE
    BY <1>3 DEF RaiseShutdown, Closing, Shape, TypeOK
  <2>2. Executor!Close
    BY <1>3, <2>1 DEF RaiseShutdown, Executor!Close
  <2>3. QED
    BY <2>2 DEF Executor!Next
<1>4. CASE NotifyAll
  BY <1>4, StutterExecutor DEF NotifyAll
<1>5. CASE JoinAll
  <2>1. /\ \A t \in Threads : pc[t] = "exited"
        /\ queue = <<>> /\ shutdown
    BY <1>5, PoolAssumption DEF JoinAll, Closing, Threads
  <2>2. \A t \in Threads : stack[t] = <<>>
    BY <2>1 DEF Shape, TypeOK
  <2>3. {k \in Tasks : future[k] = "running"} = {}
    BY <2>2 DEF Exact, StackExact
  <2>4. Executor!Retire
    BY <1>5, <2>1, <2>3 DEF JoinAll, Executor!Retire
  <2>5. QED
    BY <2>4 DEF Executor!Next
<1>6. CASE UNCHANGED vars
  BY <1>6, StutterExecutor DEF vars
<1>7. QED
  BY <1>1, <1>2, <1>3, <1>4, <1>5, <1>6 DEF Next, DtorStep, Destroyed

(***************************************************************************)
(* ThreadPool implements TaskExecutor: nobody who only sees tasks being    *)
(* accepted, started, completed and rejected can tell the pool, with its   *)
(* stealing and its condition variable, from a FIFO executor.              *)
(***************************************************************************)
THEOREM PoolImplementsExecutor == Spec => Executor!SafeSpec
<1>1. QED
  BY PoolInvariant, InitExecutor, StepExecutor, PTL DEF Spec, Executor!SafeSpec

=============================================================================
