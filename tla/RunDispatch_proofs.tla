------------------------- MODULE RunDispatch_proofs -------------------------
(***************************************************************************)
(* Safety of RunDispatch for any number of runs, workers, exceptions and   *)
(* crashes: DispatchInv is inductive, and the safety properties follow.    *)
(*                                                                         *)
(* A worker has fifteen actions, most of them with three outcomes.  What   *)
(* the invariant needs of all of them is stated once, as WorkerEffect; the *)
(* parts of the invariant are then preserved by any step with that effect. *)
(***************************************************************************)
EXTENDS RunDispatch, TLAPS

\* Where a worker holds no entry.
Away == {"down", "reading", "leaving"}

\* The step leaves the other workers alone, and every run but the one whose
\* entry w holds.
FrameEffect(w) ==
    /\ UNCHANGED <<stream, handler>>
    /\ \A v \in Workers : v # w => at'[v] = at[v] /\ holding'[v] = holding[v]
    /\ \A r \in Runs : row'[r] # row[r] \/ announced'[r] # announced[r] =>
          r = Entry(w) /\ at[w] \notin Away

\* w drops its entry, keeps it or is delivered a new one.
HoldEffect(w) ==
    \/ holding'[w] = 0 /\ at'[w] \in Away
    \/ holding'[w] = holding[w] /\ at[w] \notin Away /\ at'[w] \notin Away
    \/ /\ holding'[w] = delivered + 1 /\ delivered' = delivered + 1
       /\ at[w] = "reading" /\ at'[w] = "received"

\* What is delivered enters the PEL; w takes out at most the entry it
\* acknowledges.
PelEffect(w) ==
    /\ \/ delivered' = delivered
       \/ delivered' = delivered + 1 /\ delivered' \in pel'
    /\ \A i \in pel : i \notin pel' =>
          /\ i = holding[w]
          /\ at'[w] \in {"reading", "leaving", "releasing"}
          /\ \/ at[w] = "acking"
             \/ at[w] = "received" /\ Entry(w) = Garbled

\* How w moves, and what that does to the row of its run.
MoveEffect(w) ==
    \/ row' = row /\ at'[w] \in {"down", "reading", "leaving", "received",
                                 "starting", "releasing"}
                  /\ (at[w] \in Inside \cup {"releasing"} =>
                         at'[w] \in {"down", "reading", "leaving", "releasing"})
    \/ row' = row /\ at[w] = "executing" /\ at'[w] \in {"completing", "failing"}
    \/ /\ row' = row /\ at'[w] = "acking"
       /\ at[w] \in {"announcingCompleted", "announcingFailed"}
    \/ /\ row' = row /\ at'[w] = "acking" /\ at[w] = "starting"
       /\ Entry(w) \in Runs /\ row[Entry(w)] # "pending"
    \/ /\ at[w] = "starting" /\ at'[w] \in {"executing", "releasing"}
       /\ Entry(w) \in Runs
       /\ row[Entry(w)] = "pending" /\ row'[Entry(w)] = "running"
    \/ /\ at[w] = "completing" /\ at'[w] \in {"announcingCompleted", "releasing"}
       /\ row'[Entry(w)] = "completed"
    \/ /\ at[w] = "failing" /\ at'[w] \in {"announcingFailed", "releasing"}
       /\ row'[Entry(w)] = Failed(Entry(w))

\* Only a worker that has settled the run announces its verdict.
EventEffect(w) ==
    \A r \in Runs : \A type \in announced'[r] :
        \/ type \in announced[r] \/ type = "run.started"
        \/ /\ r = Entry(w) /\ row' = row /\ type = Verdict(w)
           /\ at[w] \in {"announcingCompleted", "announcingFailed"}

WorkerEffect(w) ==
    /\ FrameEffect(w)
    /\ HoldEffect(w)
    /\ PelEffect(w)
    /\ MoveEffect(w)
    /\ EventEffect(w)

WorkerAction(w) == Worker(w) \/ Stop(w) \/ CrashWorker(w)

-----------------------------------------------------------------------------
(***************************************************************************)
(* The effect of a worker's actions.                                       *)
(***************************************************************************)

\* Every action of a worker has the effect above.
LEMMA WorkerActionEffect ==
    ASSUME DispatchInv, NEW w \in Workers, WorkerAction(w)
    PROVE  WorkerEffect(w)
<1> USE DEF DispatchInv, Move, FrameEffect, HoldEffect, PelEffect, MoveEffect,
            EventEffect, WorkerEffect, Away, Inside
<1>1. CASE Register(w)
  BY <1>1 DEF Register, Present, TypeOK, HoldInv, data, queue
<1>2. CASE Read(w)
  BY <1>2 DEF Read, Deliver, TypeOK, HoldInv, data
<1>3. CASE AckPoison(w)
  BY <1>3 DEF AckPoison, Drop, TypeOK, HoldInv, data
<1>4. CASE SetBusy(w)
  BY <1>4 DEF SetBusy, Drop, TypeOK, HoldInv, data, queue
<1>5. CASE StartRun(w)
  BY <1>5 DEF StartRun, RunRaises, Startable, SetRow, TypeOK, HoldInv, queue
<1>6. CASE RejectAnonymous(w)
  BY <1>6 DEF RejectAnonymous, TypeOK, HoldInv, data, queue
<1>7. CASE Execute(w)
  <2>1. \A r \in Runs : announced'[r] \subseteq
                            announced[r] \cup (IF r = Entry(w) THEN {"run.started"} ELSE {})
    BY <1>7 DEF Execute, Announce, TypeOK
  <2>2. \A r \in Runs : r # Entry(w) => announced'[r] = announced[r]
    BY <1>7 DEF Execute, Announce, TypeOK
  <2> QED
    BY <1>7, <2>1, <2>2 DEF Execute, RunRaises, TypeOK, HoldInv, queue
<1>8. CASE CompleteRun(w)
  BY <1>8 DEF CompleteRun, RunRaises, SetRow, Completed, TypeOK, HoldInv, queue
<1>9. CASE FailRun(w)
  BY <1>9 DEF FailRun, RunRaises, SetRow, TypeOK, HoldInv, queue
<1>10. CASE Publish(w)
  BY <1>10 DEF Publish, RunRaises, Announce, TypeOK, HoldInv, queue
<1>11. CASE Ack(w)
  BY <1>11 DEF Ack, TypeOK, HoldInv, data
<1>12. CASE Release(w)
  BY <1>12 DEF Release, Drop, TypeOK, HoldInv, data, queue
<1>13. CASE Leave(w)
  BY <1>13 DEF Leave, TypeOK, HoldInv, data, queue
<1>14. CASE Stop(w)
  BY <1>14 DEF Stop, TypeOK, HoldInv, data, queue
<1>15. CASE CrashWorker(w)
  BY <1>15 DEF CrashWorker, Drop, TypeOK, HoldInv, data, queue
<1> QED
  BY <1>1, <1>2, <1>3, <1>4, <1>5, <1>6, <1>7, <1>8, <1>9, <1>10, <1>11, <1>12,
     <1>13, <1>14, <1>15 DEF WorkerAction, Worker

-----------------------------------------------------------------------------
(***************************************************************************)
(* A step of a worker preserves each part of the invariant.                *)
(***************************************************************************)

\* The entry w holds, if it holds one, and what is known of its run.
LEMMA HeldEntry ==
    ASSUME DispatchInv, NEW w \in Workers, at[w] \notin Away
    PROVE  /\ holding[w] \in 1..delivered /\ holding[w] \in DOMAIN stream
           /\ Entry(w) \in Runs =>
                 handler[Entry(w)] \notin {"none", "created"} /\ row[Entry(w)] # "none"
           /\ at[w] \in Inside \cup {"acking"} => Entry(w) \in Runs
<1>1. holding[w] \in 1..delivered /\ holding[w] \in DOMAIN stream
  BY DEF DispatchInv, TypeOK, HoldInv, Away
<1>2. at[w] \in Inside \cup {"acking"} => Entry(w) \in Runs
  BY DEF DispatchInv, HoldInv
<1> QED
  BY <1>1, <1>2 DEF DispatchInv, EntryInv, Entry

\* The rows and handlers on which the entries rest.
LEMMA WorkerEntries ==
    ASSUME DispatchInv, TypeOK', NEW w \in Workers, WorkerEffect(w)
    PROVE  EntryInv'
<1>1. ASSUME NEW r \in Runs, row'[r] # row[r] \/ announced'[r] # announced[r]
      PROVE  handler[r] \notin {"none", "created"}
  BY <1>1, HeldEntry DEF WorkerEffect, FrameEffect
<1>2. ASSUME NEW r \in Runs, row[r] # "none" PROVE row'[r] # "none"
  <2>1. CASE row'[r] # row[r]
    BY <1>2, <2>1 DEF WorkerEffect, FrameEffect, MoveEffect, Failed
  <2> QED
    BY <1>2, <2>1
<1>3. EntryInv
  BY DEF DispatchInv
<1> QED
  BY <1>1, <1>2, <1>3 DEF EntryInv, WorkerEffect, FrameEffect

\* Holders stay distinct, and inside the PEL.
LEMMA WorkerHolds ==
    ASSUME DispatchInv, TypeOK', NEW w \in Workers, WorkerEffect(w)
    PROVE  HoldInv'
<1> USE DEF Away, Inside, Stages
<1>1. TypeOK /\ HoldInv /\ FrameEffect(w) /\ HoldEffect(w) /\ PelEffect(w) /\ MoveEffect(w)
  BY DEF DispatchInv, WorkerEffect
<1>2. ASSUME NEW v \in Workers PROVE holding'[v] = 0 <=> at'[v] \in Away
  <2>1. holding[v] = 0 <=> at[v] \in Away
    BY <1>1 DEF HoldInv
  <2>2. CASE v = w
    <3>1. delivered + 1 # 0
      BY <1>1 DEF TypeOK
    <3> QED
      BY <1>1, <2>1, <2>2, <3>1 DEF HoldEffect
  <2>3. CASE v # w
    <3>1. at'[v] = at[v] /\ holding'[v] = holding[v]
      BY <1>1, <2>3 DEF FrameEffect
    <3> QED
      BY <2>1, <3>1
  <2> QED
    BY <2>2, <2>3
<1>3. ASSUME NEW u \in Workers, NEW v \in Workers,
             holding'[u] # 0, holding'[u] = holding'[v]
      PROVE  u = v
  <2>1. \A x \in Workers : holding[x] \in 0..delivered /\ delivered \in Nat
    BY <1>1 DEF TypeOK
  <2>2. \A x \in Workers : x # w => holding'[x] = holding[x]
    BY <1>1 DEF FrameEffect
  <2>3. holding'[w] \in {0, holding[w], delivered + 1}
    BY <1>1 DEF HoldEffect
  <2> QED
    BY <1>1, <1>3, <2>1, <2>2, <2>3 DEF HoldInv
<1>4. ASSUME NEW v \in Workers, at'[v] \in Inside \cup {"received", "starting", "acking"}
      PROVE  holding'[v] \in pel'
  <2>1. CASE v = w
    BY <1>1, <1>4, <2>1 DEF TypeOK, HoldInv, HoldEffect, PelEffect, MoveEffect
  <2>2. CASE v # w
    BY <1>1, <1>4, <2>2 DEF TypeOK, HoldInv, FrameEffect, PelEffect
  <2> QED
    BY <2>1, <2>2
<1>5. ASSUME NEW v \in Workers, at'[v] \in Inside \cup {"acking"}
      PROVE  stream'[holding'[v]] \in Runs
  <2>1. CASE v = w
    BY <1>1, <1>5, <2>1 DEF HoldInv, FrameEffect, HoldEffect, MoveEffect, Entry
  <2>2. CASE v # w
    BY <1>1, <1>5, <2>2 DEF HoldInv, FrameEffect, Entry
  <2> QED
    BY <2>1, <2>2
<1> QED
  BY <1>2, <1>3, <1>4, <1>5 DEF HoldInv, Entry

\* A run never goes back to having no row, or to being pending.
LEMMA WorkerRows ==
    ASSUME NEW w \in Workers, WorkerEffect(w), NEW r \in Runs
    PROVE  /\ row[r] # "none" => row'[r] # "none"
           /\ row[r] \notin {"none", "pending"} => row'[r] \notin {"none", "pending"}
<1>1. CASE row'[r] # row[r]
  BY <1>1 DEF WorkerEffect, FrameEffect, MoveEffect, Failed
<1> QED
  BY <1>1

\* A worker that executes or acknowledges a run after the step was doing so
\* before, or has just called start_run.
LEMMA Executing ==
    ASSUME DispatchInv, NEW w \in Workers, WorkerEffect(w),
           NEW v \in Workers, at'[v] \in Inside \cup {"acking"}
    PROVE  /\ at[v] \notin Away /\ Entry(v)' = Entry(v) /\ Entry(v) \in Runs
           /\ \/ at[v] \in Inside \cup {"acking"} /\ (at'[v] \in Inside => at[v] \in Inside)
              \/ v = w /\ at[w] = "starting" /\ row[Entry(w)] = "pending"
                       /\ at'[w] = "executing" /\ row'[Entry(w)] = "running"
              \/ v = w /\ at[w] = "starting" /\ row[Entry(w)] # "pending"
                       /\ at'[w] = "acking"
<1> USE DEF Away, Inside, Stages
<1>1. HoldInv /\ FrameEffect(w) /\ HoldEffect(w) /\ MoveEffect(w)
  BY DEF DispatchInv, WorkerEffect
<1>2. CASE v = w
  BY <1>1, <1>2 DEF HoldInv, FrameEffect, HoldEffect, MoveEffect, Entry
<1>3. CASE v # w
  BY <1>1, <1>3 DEF HoldInv, FrameEffect, Entry
<1> QED
  BY <1>2, <1>3

\* A run keeps its single executor.
LEMMA WorkerOwns ==
    ASSUME DispatchInv, TypeOK', NEW w \in Workers, WorkerEffect(w)
    PROVE  OwnerInv'
<1> USE DEF Away, Inside, Stages
<1>1. TypeOK /\ OwnerInv /\ FrameEffect(w) /\ HoldEffect(w) /\ MoveEffect(w)
  BY DEF DispatchInv, WorkerEffect
<1>2. ASSUME NEW u \in Workers, NEW v \in Workers,
             at'[u] \in Inside, at'[v] \in Inside, Entry(u)' = Entry(v)'
      PROVE  u = v
  BY <1>1, <1>2, Executing DEF OwnerInv, OneExecutor
<1>3. ASSUME NEW v \in Workers, at'[v] \in Inside \cup {"acking"}
      PROVE  row'[Entry(v)'] \notin {"none", "pending"}
  <2>1. CASE at[v] \in Inside \cup {"acking"}
    BY <1>1, <1>3, <2>1, Executing, WorkerRows DEF OwnerInv
  <2>2. CASE at[v] \notin Inside \cup {"acking"}
    BY <1>1, <1>3, <2>2, Executing, HeldEntry, WorkerRows DEF MoveEffect
  <2> QED
    BY <2>1, <2>2
<1>4. ASSUME NEW v \in Workers, at'[v] \in Inside, handler'[Entry(v)'] = "accepted"
      PROVE  row'[Entry(v)'] = CASE at'[v] = "announcingCompleted" -> "completed"
                                 [] at'[v] = "announcingFailed" -> "failed"
                                 [] OTHER -> "running"
  <2>1. /\ Entry(v)' = Entry(v) /\ handler[Entry(v)] = "accepted"
        /\ \/ at[v] \in Inside
           \/ v = w /\ at'[w] = "executing" /\ row'[Entry(w)] = "running"
    BY <1>1, <1>4, Executing DEF FrameEffect
  <2>2. CASE v # w
    <3>1. at[v] \in Inside /\ at'[v] = at[v]
      BY <1>1, <1>4, <2>1, <2>2 DEF FrameEffect
    <3>2. row'[Entry(v)] = row[Entry(v)]
      BY <1>1, <1>3, <1>4, <2>1, <2>2, <3>1, Executing
         DEF OwnerInv, OneExecutor, FrameEffect, MoveEffect
    <3> QED
      BY <1>1, <2>1, <3>1, <3>2 DEF OwnerInv
  <2>3. CASE v = w
    BY <1>1, <1>4, <2>1, <2>3 DEF OwnerInv, MoveEffect, Failed
  <2> QED
    BY <2>2, <2>3
<1> QED
  BY <1>2, <1>3, <1>4 DEF OwnerInv, OneExecutor

\* The group keeps what it owes.
LEMMA WorkerOwes ==
    ASSUME DispatchInv, TypeOK', NEW w \in Workers, WorkerEffect(w)
    PROVE  OwedInv'
<1> USE DEF Away, Inside, Stages
<1>1. /\ TypeOK /\ EntryInv /\ HoldInv /\ OwnerInv /\ OwedInv
      /\ FrameEffect(w) /\ HoldEffect(w) /\ PelEffect(w) /\ MoveEffect(w)
  BY DEF DispatchInv, WorkerEffect
<1> SUFFICES ASSUME NEW r \in Runs, handler'[r] = "accepted"
             PROVE  /\ row'[r] # "none"
                    /\ row'[r] = "pending" =>
                          /\ \E i \in DOMAIN stream' : stream'[i] = r
                          /\ \A i \in DOMAIN stream' :
                                stream'[i] = r => i > delivered' \/ i \in pel'
                    /\ row'[r] = "running" =>
                          \E i \in pel' :
                             /\ stream'[i] = r
                             /\ \A v \in Workers : holding'[v] = i =>
                                   at'[v] \in {"executing", "completing", "failing",
                                               "releasing"}
  BY DEF OwedInv
<1>2. stream' = stream /\ handler[r] = "accepted" /\ row[r] # "none"
  BY <1>1 DEF FrameEffect, OwedInv
<1>3. row'[r] # "none"
  BY <1>2, WorkerRows
<1>4. ASSUME row'[r] = "pending", NEW i \in DOMAIN stream, stream[i] = r
      PROVE  i > delivered' \/ i \in pel'
  <2>1. row[r] = "pending"
    BY <1>2, <1>4, WorkerRows
  <2>2. i > delivered \/ i \in pel
    BY <1>1, <1>2, <1>4, <2>1 DEF OwedInv
  <2>3. i \in pel => i \in pel'
    BY <1>1, <1>4, <2>1, EntryAssumption DEF PelEffect, OwnerInv, Entry
  <2> QED
    BY <1>1, <2>2, <2>3 DEF PelEffect, TypeOK
<1>5. ASSUME row'[r] = "pending" PROVE \E i \in DOMAIN stream : stream[i] = r
  BY <1>1, <1>2, <1>5, WorkerRows DEF OwedInv
<1>6. ASSUME row'[r] = "running", row[r] # "running"
      PROVE  \E i \in pel' : /\ stream[i] = r
                             /\ \A v \in Workers : holding'[v] = i =>
                                   at'[v] \in {"executing", "completing", "failing",
                                               "releasing"}
  <2>1. /\ r = Entry(w) /\ at[w] = "starting" /\ at'[w] \in {"executing", "releasing"}
    BY <1>1, <1>6 DEF FrameEffect, MoveEffect, Failed
  <2>2. holding[w] \in pel' /\ \A v \in Workers : holding'[v] = holding[w] => v = w
    BY <1>1, <2>1 DEF HoldInv, PelEffect, FrameEffect
  <2> QED
    BY <2>1, <2>2 DEF Entry
<1>7. ASSUME row'[r] = "running", row[r] = "running"
      PROVE  \E i \in pel' : /\ stream[i] = r
                             /\ \A v \in Workers : holding'[v] = i =>
                                   at'[v] \in {"executing", "completing", "failing",
                                               "releasing"}
  <2>1. PICK i \in pel : /\ stream[i] = r
                         /\ \A v \in Workers : holding[v] = i =>
                               at[v] \in {"executing", "completing", "failing",
                                          "releasing"}
    BY <1>1, <1>2, <1>7 DEF OwedInv
  <2>2. i \in 1..delivered
    BY <1>1 DEF TypeOK
  <2>3. i \in pel'
    BY <1>1, <2>1 DEF PelEffect
  <2>4. ASSUME NEW v \in Workers, v # w, holding'[v] = i
        PROVE  at'[v] \in {"executing", "completing", "failing", "releasing"}
    BY <1>1, <2>1, <2>4 DEF FrameEffect
  <2>5. ASSUME holding'[w] = i
        PROVE  at'[w] \in {"executing", "completing", "failing", "releasing"}
    <3>1. holding[w] = i /\ at[w] \notin Away /\ at'[w] \notin Away
      BY <1>1, <2>2, <2>5 DEF HoldEffect, TypeOK
    <3>2. Entry(w) = r /\ at[w] \in {"executing", "completing", "failing", "releasing"}
      BY <2>1, <3>1 DEF Entry
    <3> QED
      BY <1>1, <1>7, <3>1, <3>2 DEF MoveEffect, Failed
  <2> QED
    BY <2>1, <2>3, <2>4, <2>5
<1> QED
  BY <1>2, <1>3, <1>4, <1>5, <1>6, <1>7

\* A verdict is announced by the worker that wrote it.
LEMMA WorkerTells ==
    ASSUME DispatchInv, TypeOK', NEW w \in Workers, WorkerEffect(w)
    PROVE  AcceptedEventsAreTrue'
<1> USE DEF Away, Inside
<1>1. OwnerInv /\ AcceptedEventsAreTrue /\ FrameEffect(w) /\ MoveEffect(w) /\ EventEffect(w)
  BY DEF DispatchInv, WorkerEffect
<1> SUFFICES ASSUME NEW r \in Runs, handler[r] = "accepted"
             PROVE  /\ "run.completed" \in announced'[r] => row'[r] = "completed"
                    /\ "run.failed" \in announced'[r] => row'[r] = "failed"
  BY <1>1 DEF AcceptedEventsAreTrue, FrameEffect
\* The row of an accepted run with a verdict does not change.
<1>2. ASSUME row[r] \in {"completed", "failed"} PROVE row'[r] = row[r]
  BY <1>1, <1>2, HeldEntry DEF OwnerInv, FrameEffect, MoveEffect
<1>3. ASSUME NEW type \in {"run.completed", "run.failed"},
             type \in announced'[r], type \notin announced[r]
      PROVE  /\ row'[r] = row[r] /\ type = Verdict(w) /\ r = Entry(w)
             /\ at[w] \in {"announcingCompleted", "announcingFailed"}
  BY <1>1, <1>3 DEF EventEffect
<1>4. ASSUME at[w] \in {"announcingCompleted", "announcingFailed"}, r = Entry(w)
      PROVE  row[r] = IF at[w] = "announcingCompleted" THEN "completed" ELSE "failed"
  BY <1>1, <1>4 DEF OwnerInv
<1> QED
  BY <1>1, <1>2, <1>3, <1>4 DEF AcceptedEventsAreTrue, Verdict

-----------------------------------------------------------------------------
(***************************************************************************)
(* A step of the API preserves the invariant.                              *)
(***************************************************************************)

\* What AppendJob does to the stream.
LEMMA Appended ==
    ASSUME TypeOK, NEW r \in Runs, NEW copies \in 0..2, AppendJob(r, copies)
    PROVE  /\ stream' \in Seq(Runs \cup {Garbled, Anonymous})
           /\ DOMAIN stream' = 1..Len(stream')
           /\ Len(stream') = Len(stream) + copies
           /\ \A i \in 1..Len(stream) : stream'[i] = stream[i]
           /\ \A i \in 1..Len(stream') : i > Len(stream) => stream'[i] = r
<1> DEFINE jobs == [i \in 1..copies |-> r]
<1>1. jobs \in Seq(Runs \cup {Garbled, Anonymous}) /\ Len(jobs) = copies
  OBVIOUS
<1>2. stream \in Seq(Runs \cup {Garbled, Anonymous})
  BY DEF TypeOK
<1>3. stream' = stream \o jobs
  BY DEF AppendJob
<1> HIDE DEF jobs
<1>4. \A i \in 1..copies : jobs[i] = r
  BY DEF jobs
<1>5. /\ Len(stream') = Len(stream) + copies
      /\ stream' \in Seq(Runs \cup {Garbled, Anonymous})
      /\ \A i \in 1..Len(stream) : stream'[i] = stream[i]
  BY <1>1, <1>2, <1>3
<1>6. ASSUME NEW i \in 1..Len(stream'), i > Len(stream) PROVE stream'[i] = r
  <2>1. stream'[i] = jobs[i - Len(stream)] /\ i - Len(stream) \in 1..copies
    BY <1>1, <1>2, <1>3, <1>5, <1>6
  <2> QED
    BY <1>4, <2>1
<1> QED
  BY <1>5, <1>6

\* The step leaves the workers and the other runs alone, and only adds
\* entries of r behind the stream.
ApiFrame(r) ==
    /\ UNCHANGED <<delivered, pel, at, holding>>
    /\ \A s \in Runs : s # r =>
          handler'[s] = handler[s] /\ row'[s] = row[s] /\ announced'[s] = announced[s]
    /\ Len(stream') >= Len(stream)
    /\ \A i \in 1..Len(stream) : stream'[i] = stream[i]
    /\ \A i \in 1..Len(stream') : i > Len(stream) => stream'[i] = r

\* A request creates the row, then enqueues it, then may fail it.
RequestEffect(r) ==
    \/ /\ handler[r] = "none" /\ UNCHANGED <<stream, announced>>
       /\ \/ handler'[r] = "created" /\ row'[r] = "pending"
          \/ handler'[r] = "error"
    \/ /\ handler[r] = "created" /\ row' = row
       /\ handler'[r] \in {"accepted", "marking", "lost"}
       /\ handler'[r] = "accepted" => Len(stream') > Len(stream)
       /\ announced'[r] \subseteq announced[r] \cup {"run.queued"}
    \/ /\ handler[r] \in {"marking", "announcing"} /\ UNCHANGED stream
       /\ handler'[r] \notin {"none", "created", "accepted"}
       /\ row'[r] \in {row[r], "failed"}

ApiAction(r) == Api(r) \/ CrashApi(r)

\* Every action of a request has these effects.
LEMMA ApiActionEffect ==
    ASSUME DispatchInv, NEW r \in Runs, ApiAction(r)
    PROVE  ApiFrame(r) /\ RequestEffect(r)
<1> USE DEF Answer, ApiFrame, RequestEffect
<1>0. TypeOK
  BY DEF DispatchInv
<1>1. CASE CreateRun(r)
  BY <1>0, <1>1 DEF CreateRun, SetRow, TypeOK, queue, worker
<1>2. CASE Enqueue(r)
  <2>1. PICK copies \in 0..2 :
            /\ AppendJob(r, copies)
            /\ handler'[r] = "accepted" => copies > 0
    BY <1>0, <1>2 DEF Enqueue, TypeOK
  <2>2. AppendJob(r, copies)
    BY <2>1
  <2>3. announced' = [announced EXCEPT ![r] = @ \cup (IF copies > 0 THEN {"run.queued"} ELSE {})]
    BY <2>2 DEF AppendJob, Announce
  <2>4. /\ announced'[r] \subseteq announced[r] \cup {"run.queued"}
        /\ \A s \in Runs : s # r => announced'[s] = announced[s]
    BY <1>0, <2>3 DEF TypeOK
  <2>5. /\ UNCHANGED <<row, delivered, pel, at, holding>>
        /\ handler[r] = "created" /\ handler'[r] \in {"accepted", "marking"}
        /\ \A s \in Runs : s # r => handler'[s] = handler[s]
    BY <1>0, <1>2 DEF Enqueue, TypeOK, worker
  <2>6. /\ Len(stream) \in Nat /\ Len(stream') = Len(stream) + copies
        /\ \A i \in 1..Len(stream) : stream'[i] = stream[i]
        /\ \A i \in 1..Len(stream') : i > Len(stream) => stream'[i] = r
    BY <1>0, <2>2, Appended DEF TypeOK, AppendJob
  <2> QED
    BY <2>1, <2>4, <2>5, <2>6
<1>3. CASE MarkEnqueueFailure(r)
  BY <1>0, <1>3 DEF MarkEnqueueFailure, SetRow, TypeOK, queue, worker
<1>4. CASE PublishEnqueueFailure(r)
  BY <1>0, <1>4 DEF PublishEnqueueFailure, Announce, TypeOK, queue, worker
<1>5. CASE CrashApi(r)
  <2>1. /\ UNCHANGED <<row, delivered, pel, at, holding>>
        /\ handler'[r] = "lost"
        /\ \A s \in Runs : s # r => handler'[s] = handler[s]
    BY <1>0, <1>5 DEF CrashApi, TypeOK, worker
  <2>2. CASE handler[r] = "created"
    <3>1. PICK copies \in 0..1 : AppendJob(r, copies)
      BY <1>5, <2>2 DEF CrashApi
    <3>2. announced' = [announced EXCEPT ![r] = @ \cup (IF copies > 0 THEN {"run.queued"} ELSE {})]
      BY <3>1 DEF AppendJob, Announce
    <3> QED
      BY <1>0, <2>1, <2>2, <3>1, <3>2, Appended DEF TypeOK
  <2>3. CASE handler[r] # "created"
    BY <1>0, <1>5, <2>1, <2>3 DEF CrashApi, TypeOK
  <2> QED
    BY <2>2, <2>3
<1> QED
  BY <1>1, <1>2, <1>3, <1>4, <1>5 DEF ApiAction, Api

\* What a worker holds is an old entry, of a run that was enqueued before.
LEMMA ApiHeld ==
    ASSUME DispatchInv, NEW r \in Runs, ApiFrame(r), RequestEffect(r)
    PROVE  /\ \A i \in 1..delivered : i \in DOMAIN stream /\ stream'[i] = stream[i]
           /\ \A w \in Workers : at[w] \notin Away => Entry(w)' = Entry(w)
           /\ \A i \in DOMAIN stream : stream[i] = r =>
                 handler[r] \in {"marking", "announcing"}
<1>1. TypeOK /\ EntryInv
  BY DEF DispatchInv
<1>2. \A i \in 1..delivered : i \in DOMAIN stream /\ stream'[i] = stream[i]
  BY <1>1 DEF TypeOK, ApiFrame
<1>3. \A w \in Workers : at[w] \notin Away => Entry(w)' = Entry(w)
  BY <1>2, HeldEntry DEF ApiFrame, Entry
<1>4. \A i \in DOMAIN stream : stream[i] = r => handler[r] \in {"marking", "announcing"}
  BY <1>1 DEF EntryInv, RequestEffect
<1> QED
  BY <1>2, <1>3, <1>4

\* A request preserves each part of the invariant.
LEMMA ApiPreserves ==
    ASSUME DispatchInv, TypeOK', NEW r \in Runs, ApiFrame(r), RequestEffect(r)
    PROVE  EntryInv' /\ HoldInv' /\ OwnerInv' /\ OwedInv' /\ AcceptedEventsAreTrue'
<1>1. /\ TypeOK /\ EntryInv /\ HoldInv /\ OwnerInv /\ OwedInv /\ AcceptedEventsAreTrue
  BY DEF DispatchInv
<1>2. EntryInv'
  <2>1. ASSUME NEW s \in Runs
        PROVE  /\ handler'[s] = "none" => row'[s] = "none"
               /\ handler'[s] = "created" => row'[s] = "pending"
               /\ handler'[s] \in {"none", "created"} => announced'[s] = {}
    <3>1. CASE s = r
      BY <1>1, <2>1, <3>1 DEF EntryInv, RequestEffect
    <3>2. CASE s # r
      BY <1>1, <2>1, <3>2 DEF EntryInv, ApiFrame
    <3> QED
      BY <3>1, <3>2
  <2>2. ASSUME NEW i \in DOMAIN stream', stream'[i] \in Runs
        PROVE  handler'[stream'[i]] \notin {"none", "created"} /\ row'[stream'[i]] # "none"
    <3>0. /\ DOMAIN stream = 1..Len(stream) /\ Len(stream) \in Nat
          /\ DOMAIN stream' = 1..Len(stream') /\ Len(stream') \in Nat
      BY <1>1 DEF TypeOK
    <3>1. CASE i \in DOMAIN stream
      <4>1. stream'[i] = stream[i]
        BY <3>0, <3>1 DEF ApiFrame
      <4> QED
        BY <1>1, <2>2, <3>1, <4>1 DEF EntryInv, ApiFrame, RequestEffect
    <3>2. CASE i \notin DOMAIN stream
      <4>1. stream'[i] = r /\ Len(stream') > Len(stream)
        BY <2>2, <3>0, <3>2 DEF ApiFrame
      <4> QED
        BY <1>1, <4>1 DEF EntryInv, RequestEffect
    <3> QED
      BY <3>1, <3>2
  <2> QED
    BY <2>1, <2>2 DEF EntryInv
<1>3. HoldInv'
  BY <1>1, ApiHeld DEF HoldInv, ApiFrame, Inside, Away
<1>4. ASSUME NEW w \in Workers, at[w] \in Inside \cup {"acking"}
      PROVE  /\ Entry(w)' = Entry(w) /\ Entry(w) \in Runs
             /\ row'[Entry(w)] \in {row[Entry(w)], "failed"}
             /\ handler'[Entry(w)] = "accepted" =>
                   handler[Entry(w)] = "accepted" /\ row'[Entry(w)] = row[Entry(w)]
  <2>1. /\ at[w] \notin Away /\ Entry(w) \in Runs /\ Entry(w)' = Entry(w)
        /\ handler[Entry(w)] \notin {"none", "created"}
    BY <1>4, ApiHeld, HeldEntry DEF Inside, Away
  <2> QED
    BY <2>1 DEF ApiFrame, RequestEffect
<1>5. OwnerInv'
  BY <1>1, <1>4 DEF OwnerInv, OneExecutor, ApiFrame
<1>6. OwedInv'
  <2> SUFFICES ASSUME NEW s \in Runs, handler'[s] = "accepted"
               PROVE  /\ row'[s] # "none"
                      /\ row'[s] = "pending" =>
                            /\ \E i \in DOMAIN stream' : stream'[i] = s
                            /\ \A i \in DOMAIN stream' :
                                  stream'[i] = s => i > delivered \/ i \in pel
                      /\ row'[s] = "running" =>
                            \E i \in pel :
                               /\ stream'[i] = s
                               /\ \A w \in Workers : holding[w] = i =>
                                     at[w] \in {"executing", "completing", "failing",
                                                "releasing"}
    BY DEF OwedInv, ApiFrame
  <2>1. CASE s = r
    <3>1. /\ handler[r] = "created" /\ row'[r] = "pending"
          /\ Len(stream') > Len(stream)
      BY <1>1, <2>1 DEF RequestEffect, EntryInv
    <3>2. Len(stream') \in DOMAIN stream' /\ stream'[Len(stream')] = r
      BY <3>1 DEF ApiFrame, TypeOK
    <3>3. ASSUME NEW i \in DOMAIN stream', stream'[i] = r PROVE i > delivered
      <4>1. i \notin 1..delivered
        BY <1>1, <3>1, <3>3, ApiHeld
      <4> QED
        BY <1>1, <3>3, <4>1 DEF TypeOK
    <3> QED
      BY <2>1, <3>1, <3>2, <3>3
  <2>2. CASE s # r
    <3>1. handler[s] = "accepted" /\ row'[s] = row[s]
      BY <2>2 DEF ApiFrame
    <3>0. /\ DOMAIN stream = 1..Len(stream) /\ Len(stream) \in Nat
          /\ DOMAIN stream' = 1..Len(stream') /\ Len(stream') \in Nat
      BY <1>1 DEF TypeOK
    <3>2. \A i \in DOMAIN stream : i \in DOMAIN stream' /\ stream'[i] = stream[i]
      BY <3>0 DEF ApiFrame
    <3>3. \A i \in DOMAIN stream' : stream'[i] = s => i \in DOMAIN stream /\ stream[i] = s
      BY <2>2, <3>0 DEF ApiFrame
    <3>4. pel \subseteq DOMAIN stream
      BY <1>1 DEF TypeOK
    <3> QED
      BY <1>1, <3>1, <3>2, <3>3, <3>4 DEF OwedInv
  <2> QED
    BY <2>1, <2>2
<1>7. AcceptedEventsAreTrue'
  BY <1>1 DEF AcceptedEventsAreTrue, EntryInv, ApiFrame, RequestEffect
<1> QED
  BY <1>2, <1>3, <1>5, <1>6, <1>7

-----------------------------------------------------------------------------
(***************************************************************************)
(* Type correctness of a step.                                             *)
(***************************************************************************)

\* Faults and crashes stay below their bounds.
LEMMA Bounded ==
    ASSUME TypeOK
    PROVE  /\ Fine \/ Fault => faults' \in 0..MaxFaults
           /\ Die => crashes' \in 0..MaxCrashes
           /\ UNCHANGED faults => faults' \in 0..MaxFaults
           /\ UNCHANGED crashes => crashes' \in 0..MaxCrashes
  BY BoundAssumption DEF TypeOK, Fine, Fault, Die

\* The types that a worker's action changes.
LEMMA WorkerTypes ==
    ASSUME DispatchInv, NEW w \in Workers, WorkerAction(w)
    PROVE  TypeOK'
<1> USE DEF Move, Inside, Stages, EventTypes
<1>0. TypeOK /\ (at[w] \in Inside => Entry(w) \in Runs)
  BY DEF DispatchInv, HoldInv
<1>1. CASE Register(w)
  BY <1>0, <1>1, Bounded DEF TypeOK, Register, Present, data, queue
<1>2. CASE Read(w)
  <2>1. faults' \in 0..MaxFaults /\ crashes' \in 0..MaxCrashes
    BY <1>0, <1>2, Bounded DEF Read
  <2>2. at' \in [Workers -> Stages] /\ UNCHANGED <<row, announced, handler, stream, presence>>
    BY <1>0, <1>2 DEF TypeOK, Read, data
  <2>3. \/ Deliver
        \/ UNCHANGED <<delivered, pel, holding>>
    BY <1>2 DEF Read
  <2>4. \/ UNCHANGED holding
        \/ Deliver /\ holding' = [holding EXCEPT ![w] = delivered + 1]
    BY <1>2 DEF Read
  <2>5. /\ delivered' \in 0..Len(stream) /\ delivered' >= delivered
        /\ pel' \subseteq 1..delivered'
        /\ Deliver => delivered + 1 = delivered'
    <3>1. CASE Deliver
      BY <1>0, <2>2, <3>1 DEF TypeOK, Deliver
    <3>2. CASE UNCHANGED <<delivered, pel, holding>>
      BY <1>0, <2>2, <2>3, <3>2 DEF TypeOK, Deliver
    <3> QED
      BY <2>3, <3>1, <3>2
  <2>6. holding' \in [Workers -> 0..delivered']
    BY <1>0, <2>4, <2>5 DEF TypeOK
  <2> QED
    BY <1>0, <2>1, <2>2, <2>5, <2>6 DEF TypeOK
<1>3. CASE AckPoison(w)
  <2>1. faults' \in 0..MaxFaults /\ crashes' \in 0..MaxCrashes
    BY <1>0, <1>3, Bounded DEF AckPoison
  <2>2. at' \in [Workers -> Stages]
    BY <1>0, <1>3 DEF TypeOK, AckPoison, Move
  <2>4. holding' \in [Workers -> 0..delivered]
    BY <1>0, <1>3 DEF TypeOK, AckPoison, Drop
  <2>5. pel' \subseteq pel
    BY <1>3 DEF AckPoison
  <2>3. UNCHANGED <<row, announced, handler, stream, delivered, presence>>
    BY <1>0, <1>3 DEF AckPoison, data
  <2> QED
    BY <1>0, <2>1, <2>2, <2>3, <2>4, <2>5 DEF TypeOK
<1>4. CASE SetBusy(w)
  <2>1. faults' \in 0..MaxFaults /\ crashes' \in 0..MaxCrashes
    BY <1>0, <1>4, Bounded DEF SetBusy
  <2>2. at' \in [Workers -> Stages]
    BY <1>0, <1>4 DEF TypeOK, SetBusy, Move
  <2>4. holding' \in [Workers -> 0..delivered]
    <3>1. holding' = holding \/ holding' = [holding EXCEPT ![w] = 0]
      BY <1>4 DEF SetBusy, Drop
    <3> QED
      BY <1>0, <3>1 DEF TypeOK
  <2>5. presence' \in [Workers -> {"offline", "idle", "busy"}]
    BY <1>0, <1>4 DEF TypeOK, SetBusy, Present
  <2>3. UNCHANGED <<row, announced, handler, stream, delivered, pel>>
    BY <1>0, <1>4 DEF SetBusy, data, queue
  <2> QED
    BY <1>0, <2>1, <2>2, <2>3, <2>4, <2>5 DEF TypeOK
<1>5. CASE StartRun(w)
  BY <1>0, <1>5, Bounded DEF TypeOK, StartRun, RunRaises, SetRow, queue
<1>6. CASE RejectAnonymous(w)
  BY <1>0, <1>6, Bounded DEF TypeOK, RejectAnonymous, data, queue
<1>7. CASE Execute(w)
  <2>1. faults' \in 0..MaxFaults /\ crashes' \in 0..MaxCrashes
    BY <1>0, <1>7, Bounded DEF Execute
  <2>2. at' \in [Workers -> Stages]
    <3>1. \E s \in Stages : at' = [at EXCEPT ![w] = s]
      BY <1>7 DEF Execute, RunRaises, Move
    <3> QED
      BY <1>0, <3>1 DEF TypeOK
  <2>4. announced' \in [Runs -> SUBSET EventTypes]
    <3>1. \/ announced' = announced
          \/ announced' = [announced EXCEPT ![Entry(w)] = @ \cup {"run.started"}]
      BY <1>7 DEF Execute, Announce
    <3> QED
      BY <1>0, <3>1 DEF TypeOK
  <2>3. UNCHANGED <<row, handler, stream, delivered, pel, holding, presence>>
    BY <1>0, <1>7 DEF Execute, queue
  <2> QED
    BY <1>0, <2>1, <2>2, <2>3, <2>4 DEF TypeOK
<1>8. CASE CompleteRun(w)
  BY <1>0, <1>8, Bounded DEF TypeOK, CompleteRun, RunRaises, SetRow, Completed, queue
<1>9. CASE FailRun(w)
  BY <1>0, <1>9, Bounded DEF TypeOK, FailRun, RunRaises, SetRow, Failed, queue
<1>10. CASE Publish(w)
  <2>1. faults' \in 0..MaxFaults /\ crashes' \in 0..MaxCrashes
    BY <1>0, <1>10, Bounded DEF Publish
  <2>2. at' \in [Workers -> Stages]
    BY <1>0, <1>10 DEF TypeOK, Publish, RunRaises, Move
  <2>4. Verdict(w) \in EventTypes
    BY DEF Verdict
  <2>5. announced' \in [Runs -> SUBSET EventTypes]
    BY <1>0, <1>10, <2>4 DEF TypeOK, Publish, Announce
  <2>3. UNCHANGED <<row, handler, stream, delivered, pel, holding, presence>>
    BY <1>0, <1>10 DEF Publish, queue
  <2> QED
    BY <1>0, <2>1, <2>2, <2>3, <2>5 DEF TypeOK
<1>11. CASE Ack(w)
  BY <1>0, <1>11, Bounded DEF TypeOK, Ack, data
<1>12. CASE Release(w)
  <2>1. faults' \in 0..MaxFaults /\ crashes' \in 0..MaxCrashes
    BY <1>0, <1>12, Bounded DEF Release
  <2>2. at' \in [Workers -> Stages]
    BY <1>0, <1>12 DEF TypeOK, Release, Move
  <2>4. holding' \in [Workers -> 0..delivered]
    BY <1>0, <1>12 DEF TypeOK, Release, Drop
  <2>5. presence' \in [Workers -> {"offline", "idle", "busy"}]
    BY <1>0, <1>12 DEF TypeOK, Release, Present
  <2>3. UNCHANGED <<row, announced, handler, stream, delivered, pel>>
    BY <1>0, <1>12 DEF Release, data, queue
  <2> QED
    BY <1>0, <2>1, <2>2, <2>3, <2>4, <2>5 DEF TypeOK
<1>13. CASE Leave(w)
  BY <1>0, <1>13, Bounded DEF TypeOK, Leave, Present, data, queue
<1>14. CASE Stop(w)
  BY <1>0, <1>14, Bounded DEF TypeOK, Stop, data, queue
<1>15. CASE CrashWorker(w)
  BY <1>0, <1>15, Bounded DEF TypeOK, CrashWorker, Drop, data, queue
<1> QED
  BY <1>1, <1>2, <1>3, <1>4, <1>5, <1>6, <1>7, <1>8, <1>9, <1>10, <1>11, <1>12,
     <1>13, <1>14, <1>15 DEF WorkerAction, Worker

\* The types that a request's action changes.
LEMMA ApiTypes ==
    ASSUME TypeOK, NEW r \in Runs, ApiAction(r)
    PROVE  TypeOK'
<1> USE DEF Answer, Answers, EventTypes
<1>1. CASE CreateRun(r)
  BY <1>1, Bounded DEF TypeOK, CreateRun, SetRow, queue, worker
<1>2. CASE Enqueue(r)
  <2>1. PICK copies \in 0..2 : AppendJob(r, copies)
    BY <1>2 DEF Enqueue
  <2>2. announced' \in [Runs -> SUBSET EventTypes]
    BY <2>1 DEF AppendJob, Announce, TypeOK
  <2>3. stream' \in Seq(Runs \cup {Garbled, Anonymous}) /\ Len(stream') >= Len(stream)
    BY <2>1, Appended DEF TypeOK
  <2> QED
    <3>1. faults' \in 0..MaxFaults /\ crashes' \in 0..MaxCrashes
      BY <1>2, Bounded DEF Enqueue
    <3>2. /\ handler' \in [Runs -> Answers]
          /\ UNCHANGED <<row, delivered, pel, at, holding, presence>>
      BY <1>2 DEF TypeOK, Enqueue, worker
    <3> QED
      BY <2>2, <2>3, <3>1, <3>2 DEF TypeOK
<1>3. CASE MarkEnqueueFailure(r)
  BY <1>3, Bounded DEF TypeOK, MarkEnqueueFailure, SetRow, queue, worker
<1>4. CASE PublishEnqueueFailure(r)
  <2>1. faults' \in 0..MaxFaults /\ crashes' \in 0..MaxCrashes
    BY <1>4, Bounded DEF PublishEnqueueFailure
  <2>2. handler' \in [Runs -> Answers] /\ announced' \in [Runs -> SUBSET EventTypes]
    BY <1>4 DEF TypeOK, PublishEnqueueFailure, Announce
  <2> QED
    BY <1>4, <2>1, <2>2 DEF TypeOK, PublishEnqueueFailure, queue, worker
<1>5. CASE CrashApi(r)
  <2>0. /\ faults' \in 0..MaxFaults /\ crashes' \in 0..MaxCrashes
        /\ handler' \in [Runs -> Answers]
    BY <1>5, Bounded DEF TypeOK, CrashApi
  <2>1. CASE \E copies \in 0..1 : AppendJob(r, copies)
    <3>1. PICK copies \in 0..2 : AppendJob(r, copies)
      BY <2>1
    <3>2. announced' \in [Runs -> SUBSET EventTypes]
      BY <3>1 DEF AppendJob, Announce, TypeOK
    <3>3. stream' \in Seq(Runs \cup {Garbled, Anonymous}) /\ Len(stream') >= Len(stream)
      BY <3>1, Appended DEF TypeOK
    <3> QED
      BY <1>5, <3>2, <3>3, <2>0 DEF TypeOK, CrashApi, worker
  <2>2. CASE UNCHANGED <<stream, announced>>
    BY <1>5, <2>2, Bounded DEF TypeOK, CrashApi, worker
  <2> QED
    BY <1>5, <2>1, <2>2 DEF CrashApi
<1> QED
  BY <1>1, <1>2, <1>3, <1>4, <1>5 DEF ApiAction, Api

-----------------------------------------------------------------------------
(***************************************************************************)
(* The theorems.                                                           *)
(***************************************************************************)

LEMMA InitInvariant == Init => DispatchInv
<1> SUFFICES ASSUME Init PROVE DispatchInv
  OBVIOUS
<1>1. stream \in Seq({Garbled, Anonymous})
  BY EntryAssumption DEF Init
<1>2. \A i \in DOMAIN stream : stream[i] \notin Runs
  BY <1>1, EntryAssumption
<1>3. TypeOK
  BY <1>1, BoundAssumption DEF Init, TypeOK, Stages, EventTypes, Answers
<1>4. EntryInv /\ HoldInv /\ OwnerInv /\ OwedInv /\ AcceptedEventsAreTrue
  BY <1>2 DEF Init, EntryInv, HoldInv, OwnerInv, OneExecutor, OwedInv,
              AcceptedEventsAreTrue, Inside
<1> QED
  BY <1>3, <1>4 DEF DispatchInv

\* One step.
LEMMA StepInvariant == DispatchInv /\ [Next]_vars => DispatchInv'
<1> SUFFICES ASSUME DispatchInv, [Next]_vars PROVE DispatchInv'
  OBVIOUS
<1>1. ASSUME NEW r \in Runs, ApiAction(r) PROVE DispatchInv'
  BY <1>1, ApiTypes, ApiActionEffect, ApiPreserves DEF DispatchInv
<1>2. ASSUME NEW w \in Workers, WorkerAction(w) PROVE DispatchInv'
  BY <1>2, WorkerTypes, WorkerActionEffect, WorkerEntries, WorkerHolds, WorkerOwns,
     WorkerOwes, WorkerTells DEF DispatchInv
<1>3. CASE UNCHANGED vars
  BY <1>3 DEF DispatchInv, TypeOK, EntryInv, HoldInv, OwnerInv, OneExecutor, OwedInv,
              AcceptedEventsAreTrue, Entry, Inside, vars, data, queue, worker
<1> QED
  BY <1>1, <1>2, <1>3 DEF Next, ApiAction, WorkerAction, Poll

\* The inductive invariant holds for any number of runs, workers and faults.
THEOREM Invariant == Spec => []DispatchInv
<1> QED
  BY InitInvariant, StepInvariant, PTL DEF Spec

\* Type correctness of the dispatch: what the API and the workers write to
\* rows, streams and the consumer group stays within its domains.
THEOREM TypeCorrect == Spec => []TypeOK
<1>1. DispatchInv => TypeOK
  BY DEF DispatchInv
<1> QED
  BY <1>1, Invariant, PTL

\* However often a job is appended and read, its run has one executor.
THEOREM OneExecutorHolds == Spec => []OneExecutor
<1>1. DispatchInv => OneExecutor
  BY DEF DispatchInv, OwnerInv
<1> QED
  BY <1>1, Invariant, PTL

\* An accepted run without a verdict has an entry nobody acknowledged.
THEOREM NoLostJobHolds == Spec => []NoLostJob
<1>1. DispatchInv => NoLostJob
  <2> SUFFICES ASSUME DispatchInv, NEW r \in Runs, handler[r] = "accepted",
                      row[r] \notin Terminal
               PROVE  Unacknowledged(r) # {}
    BY DEF NoLostJob
  <2>1. row[r] \in {"pending", "running"}
    BY DEF DispatchInv, TypeOK, OwedInv, Terminal
  <2>2. \E i \in DOMAIN stream : stream[i] = r /\ (i > delivered \/ i \in pel)
    BY <2>1 DEF DispatchInv, TypeOK, OwedInv
  <2> QED
    BY <2>2 DEF Unacknowledged
<1> QED
  BY <1>1, Invariant, PTL

\* The events of an accepted run agree with its row.
THEOREM AcceptedEventsAreTrueHolds == Spec => []AcceptedEventsAreTrue
<1>1. DispatchInv => AcceptedEventsAreTrue
  BY DEF DispatchInv
<1> QED
  BY <1>1, Invariant, PTL

\* The verdict of an accepted run never changes.
THEOREM AcceptedVerdictIsFinalHolds == Spec => AcceptedVerdictIsFinal
<1>1. DispatchInv /\ [Next]_vars =>
          [\A r \in Runs : handler[r] = "accepted" /\ row[r] \in Terminal
              => row'[r] = row[r]]_vars
  <2> SUFFICES ASSUME DispatchInv, Next, NEW r \in Runs, handler[r] = "accepted",
                      row[r] \in Terminal
               PROVE  row'[r] = row[r]
    OBVIOUS
  <2>1. ASSUME NEW s \in Runs, ApiAction(s) PROVE row'[r] = row[r]
    BY <2>1, ApiActionEffect DEF ApiFrame, RequestEffect
  <2>2. ASSUME NEW w \in Workers, WorkerAction(w) PROVE row'[r] = row[r]
    <3>1. WorkerEffect(w)
      BY <2>2, WorkerActionEffect
    <3>2. ASSUME row'[r] # row[r] PROVE FALSE
      <4>1. r = Entry(w) /\ at[w] \notin Away
        BY <3>1, <3>2 DEF WorkerEffect, FrameEffect
      <4>2. at[w] \in {"starting", "completing", "failing"}
        BY <3>1, <3>2 DEF WorkerEffect, MoveEffect
      <4>3. at[w] = "starting" => row[r] = "pending"
        BY <3>1, <3>2, <4>1 DEF WorkerEffect, MoveEffect
      <4>4. at[w] \in {"completing", "failing"} => row[r] = "running"
        BY <4>1 DEF DispatchInv, OwnerInv, Inside
      <4> QED
        BY <4>2, <4>3, <4>4 DEF Terminal
    <3> QED
      BY <3>2
  <2>3. CASE UNCHANGED vars
    BY <2>3 DEF vars, data
  <2> QED
    BY <2>1, <2>2, <2>3 DEF Next, ApiAction, WorkerAction, Poll
<1> QED
  BY <1>1, Invariant, PTL DEF Spec, AcceptedVerdictIsFinal

=============================================================================
