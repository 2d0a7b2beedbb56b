-------------------------- MODULE DatasetLifecycle --------------------------
(***************************************************************************)
(* A dataset from the upload dialog to its validation.  DatasetService,    *)
(* DatasetUploadProcessor and the failed handler of the processor run in   *)
(* one API process and share the datasets table; a BullMQ queue hands the  *)
(* processor one job at a time.  The dialog submits dataset d once.        *)
(*                                                                         *)
(* Everyone who writes a row holds the entity it found earlier: save()     *)
(* reads the row again, then writes the columns in which the entity in     *)
(* memory differs, or inserts the entity when the row is gone.             *)
(***************************************************************************)
EXTENDS Naturals, Sequences

CONSTANTS
    Datasets,   \* submissions of the dialog; each creates one dataset
    Clients,    \* callers of the API besides the dialog
    NoRow,      \* a model value
    MaxCalls,   \* bound: calls of the clients
    MaxFaults   \* bound: failing calls and crashes

Status == {"uploading", "queued", "validating", "ready", "failed"}
Rows == [status : Status, profile : BOOLEAN]

ASSUME DatasetAssumption ==
    /\ MaxCalls \in Nat /\ MaxFaults \in Nat
    /\ NoRow \notin Datasets \cup Rows

VARIABLES
    row,      \* the datasets table
    object,   \* what the bucket holds under the dataset's key
    queue,    \* the BullMQ queue: waiting jobs
    stalls,   \* how often the active job has stalled
    session,  \* per actor, the entity it holds and how far it got
    flow,     \* how far handleSubmit got for each dataset
    dialog,   \* the state of UploadDatasetModal
    outcome,  \* history: how the last validation of each dataset ended
    lost,     \* history: datasets of which a fault left a step undone
    stale,    \* history: datasets of which an outdated entity was saved
    calls, faults

history == <<outcome, lost, stale>>
vars == <<row, object, queue, stalls, session, flow, dialog, history,
          calls, faults>>

Modal(d) == <<"modal", d>>
Failed(d) == <<"failed", d>>
Client(c) == <<"client", c>>
Processor == <<"processor", "p">>
Actors == ({"modal", "failed"} \X Datasets) \cup ({"client"} \X Clients)
            \cup {Processor}

Idle == [op |-> "none", ds |-> NoRow, at |-> "idle",
         found |-> NoRow, ent |-> NoRow, base |-> NoRow]

Started(op, d) == [Idle EXCEPT !.op = op, !.ds = d, !.at = "find"]

Init ==
    /\ row = [d \in Datasets |-> NoRow]
    /\ object = [d \in Datasets |-> "none"]
    /\ queue = <<>> /\ stalls = 0
    /\ session = [a \in Actors |-> Idle]
    /\ flow = [d \in Datasets |-> "new"]
    /\ dialog = "idle"
    /\ outcome = [d \in Datasets |-> "none"]
    /\ lost = {} /\ stale = {}
    /\ calls = 0 /\ faults = 0

-----------------------------------------------------------------------------
(* The end of an actor's work.                                             *)

\* The state handleSubmit ends in.
Answered(ok) == IF ok THEN "complete" ELSE "error"

\* An answer to the dialog's last request; a job that ends sets `outcome',
\* and one that raises starts the failed handler.
EndSession(a, ok) ==
    LET s == session[a] IN
    /\ session' =
        IF a = Processor /\ ~ok
        THEN [session EXCEPT ![a] = Idle, ![Failed(s.ds)] = Started("fail", s.ds)]
        ELSE [session EXCEPT ![a] = Idle]
    /\ outcome' =
        IF a = Processor
        THEN [outcome EXCEPT ![s.ds] = IF ok THEN "ready" ELSE "failed"]
        ELSE outcome
    /\ IF a[1] = "modal"
       THEN /\ flow' = [flow EXCEPT ![a[2]] = "ended"]
            /\ dialog' = Answered(ok)
       ELSE UNCHANGED <<flow, dialog>>

\* Bound: one failed handler per dataset at a time.
MayEnd(a) ==
    a = Processor => session[Failed(session[a].ds)] = Idle

Goto(a, s) == session' = [session EXCEPT ![a] = s]

-----------------------------------------------------------------------------
(* findOne, save and remove.                                               *)

\* Mutant: the failed handler leaves the status alone.
MutTarget(op, status) ==
    CASE op = "complete" -> "queued"
      [] op = "validating" -> "validating"
      [] op \in {"fail", "update", "remove"} -> status

\* Mutant: the job announces READY before the file is looked at.
MutEarlyTarget(op, status) ==
    CASE op = "complete" -> "queued"
      [] op = "validating" -> "ready"
      [] op = "fail" -> "failed"
      [] op \in {"update", "remove"} -> status

\* The status a handler gives the entity it found.
Target(op, status) ==
    CASE op = "complete" -> "queued"
      [] op = "validating" -> "validating"
      [] op = "fail" -> "failed"
      [] op \in {"update", "remove"} -> status

FindRow(a) ==
    LET s == session[a] IN
    /\ s.at = "find"
    /\ row[s.ds] # NoRow
    /\ Goto(a, [s EXCEPT
        !.at = IF s.op = "remove" THEN "delete" ELSE "load",
        !.found = row[s.ds],
        !.ent = [row[s.ds] EXCEPT !.status = Target(s.op, @)]])
    /\ UNCHANGED <<row, object, queue, stalls, flow, dialog, history, calls, faults>>

\* NotFoundException; a TypeError in process(); nothing to do in onFailed.
FindNothing(a) ==
    /\ session[a].at = "find"
    /\ row[session[a].ds] = NoRow
    /\ MayEnd(a)
    /\ EndSession(a, session[a].op = "fail")
    /\ UNCHANGED <<row, object, queue, stalls, lost, stale, calls, faults>>

Load(a) ==
    LET s == session[a] IN
    /\ s.at = "load"
    /\ Goto(a, [s EXCEPT !.at = "write", !.base = row[s.ds]])
    /\ UNCHANGED <<row, object, queue, stalls, flow, dialog, history, calls, faults>>

\* Mutant: only the status is updated.
MutWritten(s) ==
    LET cur == row[s.ds] IN
    IF s.base = NoRow \/ cur = NoRow THEN s.ent ELSE [cur EXCEPT !.status = s.ent.status]

\* The row after the INSERT or the UPDATE of the changed columns.
Written(s) ==
    LET cur == row[s.ds] IN
    IF s.base = NoRow THEN s.ent
    ELSE IF cur = NoRow THEN NoRow
    ELSE [f \in DOMAIN cur |-> IF s.ent[f] # s.base[f] THEN s.ent[f] ELSE cur[f]]

\* The INSERT of a row that is there again.
Conflict(s) == s.base = NoRow /\ row[s.ds] # NoRow

\* Statements that a name another row has got can refuse.
NameMayBeTaken(s) == s.base = NoRow \/ s.op = "update"

\* Another actor wrote the row after this one had found it.
Outdated(s) == row[s.ds] # s.found

\* Mutant: completeUpload ends without adding a job.
MutAfterWrite(s) ==
    CASE s.op = "validating" -> "download"
      [] s.op = "ready" -> "ack"
      [] OTHER -> "end"

AfterWrite(s) ==
    CASE s.op = "complete" -> "enqueue"
      [] s.op = "validating" -> "download"
      [] s.op = "ready" -> "ack"
      [] OTHER -> "end"

Write(a) ==
    LET s == session[a]  next == AfterWrite(s) IN
    /\ s.at = "write"
    /\ ~Conflict(s)
    /\ row' = [row EXCEPT ![s.ds] = Written(s)]
    /\ stale' = IF Outdated(s) THEN stale \cup {s.ds} ELSE stale
    /\ IF next = "end" THEN EndSession(a, TRUE)
       ELSE /\ Goto(a, [s EXCEPT !.at = next, !.found = s.ent, !.base = NoRow])
            /\ UNCHANGED <<flow, dialog, outcome>>
    /\ UNCHANGED <<object, queue, stalls, lost, calls, faults>>

\* The constraint raises.  Nobody handles what onFailed raises.
WriteRefused(a) ==
    LET s == session[a] IN
    /\ s.at = "write"
    /\ Conflict(s) \/ NameMayBeTaken(s)
    /\ MayEnd(a)
    /\ EndSession(a, FALSE)
    /\ lost' = IF s.op = "fail" THEN lost \cup {s.ds} ELSE lost
    /\ UNCHANGED <<row, object, queue, stalls, stale, calls, faults>>

\* repository.remove(); the object stays in the bucket.
Delete(a) ==
    LET s == session[a] IN
    /\ s.at = "delete"
    /\ row' = [row EXCEPT ![s.ds] = NoRow]
    /\ EndSession(a, TRUE)
    /\ UNCHANGED <<object, queue, stalls, lost, stale, calls, faults>>

Enqueue(a) ==
    LET s == session[a] IN
    /\ s.at = "enqueue"
    /\ queue' = Append(queue, [ds |-> s.ds, stalls |-> 0])
    /\ EndSession(a, TRUE)
    /\ UNCHANGED <<row, object, stalls, lost, stale, calls, faults>>

-----------------------------------------------------------------------------
(* The processor of the queue.                                             *)

\* A failure not yet written when the dataset is validated again is out of
\* date.
Take ==
    /\ queue # <<>>
    /\ session[Processor] = Idle
    /\ queue' = Tail(queue)
    /\ stalls' = Head(queue).stalls
    /\ LET d == Head(queue).ds IN
        /\ Goto(Processor, Started("validating", d))
        /\ stale' = IF session[Failed(d)] # Idle THEN stale \cup {d} ELSE stale
    /\ UNCHANGED <<row, object, flow, dialog, outcome, lost, calls, faults>>

Parses(d) == object[d] = "good"

\* validate(): the object is downloaded and profiled.
Validate(a) ==
    LET s == session[a] IN
    /\ s.at = "download"
    /\ IF Parses(s.ds)
       THEN /\ Goto(a, [s EXCEPT !.op = "ready", !.at = "load",
                          !.ent = [@ EXCEPT !.status = "ready", !.profile = TRUE]])
            /\ UNCHANGED <<flow, dialog, outcome>>
       ELSE MayEnd(a) /\ EndSession(a, FALSE)
    /\ UNCHANGED <<row, object, queue, stalls, lost, stale, calls, faults>>

\* BullMQ moves the job to completed.
Ack(a) ==
    /\ session[a].at = "ack"
    /\ EndSession(a, TRUE)
    /\ UNCHANGED <<row, object, queue, stalls, lost, stale, calls, faults>>

Proceed(a) ==
    FindRow(a) \/ FindNothing(a) \/ Load(a) \/ Write(a) \/ WriteRefused(a)
        \/ Delete(a) \/ Enqueue(a) \/ Validate(a) \/ Ack(a)

-----------------------------------------------------------------------------
(* The dialog and the other callers.                                       *)

\* The upload button is disabled while the dialog uploads.
Submit(d) ==
    /\ flow[d] = "new"
    /\ dialog \in {"idle", "error"}
    /\ flow' = [flow EXCEPT ![d] = "create"]
    /\ dialog' = "uploading"
    /\ UNCHANGED <<row, object, queue, stalls, session, history, calls, faults>>

\* createUploadUrl: the INSERT, which a taken name may refuse.
CreateRow(d) ==
    /\ flow[d] = "create"
    /\ \/ /\ flow' = [flow EXCEPT ![d] = "ended"]
          /\ dialog' = Answered(FALSE)
          /\ UNCHANGED row
       \/ /\ flow' = [flow EXCEPT ![d] = "put"]
          /\ row' = [row EXCEPT ![d] = [status |-> "uploading", profile |-> FALSE]]
          /\ UNCHANGED dialog
    /\ UNCHANGED <<object, queue, stalls, session, history, calls, faults>>

\* The PUT to the presigned URL, then the call of completeUpload.
Put(d) ==
    /\ flow[d] = "put"
    /\ \E c \in {"good", "bad"} : object' = [object EXCEPT ![d] = c]
    /\ flow' = [flow EXCEPT ![d] = "complete"]
    /\ Goto(Modal(d), Started("complete", d))
    /\ UNCHANGED <<row, queue, stalls, dialog, history, calls, faults>>

\* Closing resets the form; a submission under way goes on.
CloseDialog ==
    /\ dialog # "idle"
    /\ dialog' = "idle"
    /\ UNCHANGED <<row, object, queue, stalls, session, flow, history, calls, faults>>

Call(c, op, d) ==
    /\ calls < MaxCalls
    /\ flow[d] \notin {"new", "create"}
    /\ session[Client(c)] = Idle
    /\ calls' = calls + 1
    /\ Goto(Client(c), Started(op, d))
    /\ UNCHANGED <<row, object, queue, stalls, flow, dialog, history, faults>>

-----------------------------------------------------------------------------
(* Faults.                                                                 *)

\* What is left undone when the session stops: a job that is not added, a
\* failure that is not written.
Undone(s) ==
    \/ s.op = "fail"
    \/ s.op = "complete" /\ s.at = "enqueue"

\* A call to PostgreSQL, Redis or MinIO raises.
Raise(a) ==
    /\ faults < MaxFaults
    /\ session[a].at \notin {"idle", "ack"}
    /\ MayEnd(a)
    /\ EndSession(a, FALSE)
    /\ lost' = IF Undone(session[a]) THEN lost \cup {session[a].ds} ELSE lost
    /\ faults' = faults + 1
    /\ UNCHANGED <<row, object, queue, stalls, stale, calls>>

\* The POST or the PUT of the dialog fails; the row may be there.
FlowFails(d) ==
    /\ faults < MaxFaults
    /\ flow[d] \in {"create", "put"}
    /\ flow' = [flow EXCEPT ![d] = "ended"]
    /\ dialog' = Answered(FALSE)
    /\ faults' = faults + 1
    /\ UNCHANGED <<row, object, queue, stalls, session, history, calls>>

\* The API process dies and is started again.  BullMQ finds that the active
\* job stalled: it waits once more, and fails when that happens again.
Crash ==
    LET p == session[Processor]
        again == p # Idle /\ stalls = 0
        fails == p # Idle /\ stalls > 0
        hurt == {d \in Datasets : flow[d] = "complete"}
    IN
    /\ faults < MaxFaults
    /\ faults' = faults + 1
    /\ session' = [a \in Actors |->
                    IF fails /\ a = Failed(p.ds) THEN Started("fail", p.ds) ELSE Idle]
    /\ queue' = IF again THEN <<[ds |-> p.ds, stalls |-> 1]>> \o queue ELSE queue
    /\ outcome' = IF fails THEN [outcome EXCEPT ![p.ds] = "failed"] ELSE outcome
    /\ lost' = lost \cup {session[a].ds : a \in {b \in Actors : Undone(session[b])}}
    /\ flow' = [d \in Datasets |-> IF d \in hurt THEN "ended" ELSE flow[d]]
    /\ dialog' = IF hurt # {} THEN Answered(FALSE) ELSE dialog
    /\ UNCHANGED <<row, object, stalls, stale, calls>>

-----------------------------------------------------------------------------
Quiet(d) ==
    /\ \A a \in Actors : session[a].ds # d
    /\ \A i \in 1..Len(queue) : queue[i].ds # d

\* Everybody waits for the next upload.
Rest ==
    /\ \A d \in Datasets : Quiet(d) /\ flow[d] \in {"new", "ended"}
    /\ UNCHANGED vars

Next ==
    \/ \E a \in Actors : Proceed(a) \/ Raise(a)
    \/ Take
    \/ \E d \in Datasets :
        \/ Submit(d) \/ CreateRow(d) \/ Put(d) \/ FlowFails(d)
        \/ \E c \in Clients, op \in {"complete", "update", "remove"} : Call(c, op, d)
    \/ CloseDialog
    \/ Crash
    \/ Rest

Spec == Init /\ [][Next]_vars

\* Every promise the process has begun is resolved, and it takes its jobs.
Fairness ==
    /\ \A a \in Actors : WF_vars(Proceed(a))
    /\ WF_vars(Take)

FairSpec == Spec /\ Fairness

-----------------------------------------------------------------------------
(* Properties.                                                             *)

Sessions ==
    [op : {"none", "complete", "update", "remove", "validating", "ready", "fail"},
     ds : Datasets \cup {NoRow},
     at : {"idle", "find", "load", "write", "delete", "enqueue", "download", "ack"},
     found : Rows \cup {NoRow}, ent : Rows \cup {NoRow}, base : Rows \cup {NoRow}]

TypeOK ==
    /\ row \in [Datasets -> Rows \cup {NoRow}]
    /\ object \in [Datasets -> {"none", "good", "bad"}]
    /\ queue \in Seq([ds : Datasets, stalls : {0, 1}])
    /\ stalls \in {0, 1}
    /\ session \in [Actors -> Sessions]
    /\ flow \in [Datasets -> {"new", "create", "put", "complete", "ended"}]
    /\ dialog \in {"idle", "uploading", "complete", "error"}
    /\ outcome \in [Datasets -> {"none", "ready", "failed"}]
    /\ lost \subseteq Datasets /\ stale \subseteq Datasets
    /\ calls \in 0..MaxCalls /\ faults \in 0..MaxFaults

\* When nothing is under way for a dataset, its row tells how the last
\* validation ended.  Only a save of an entity that was out of date
\* (dataset.service.ts:96, validation.worker.ts:33) or a fault between two
\* steps (dataset.service.ts:85) may leave another status.
RowTellsOutcome ==
    \A d \in Datasets :
        Quiet(d) /\ row[d] # NoRow /\ d \notin lost \cup stale
            => row[d].status = IF outcome[d] = "none" THEN "uploading" ELSE outcome[d]

\* Whatever overlaps, a dataset is READY only when the stored file could be
\* profiled (the gate of workflow-run.service.ts relies on it); a row that
\* no outdated save touched has the profile too.
ReadyWasProfiled ==
    \A d \in Datasets :
        row[d] # NoRow /\ row[d].status = "ready" =>
            object[d] = "good" /\ (d \in stale \/ row[d].profile)

\* A dataset that waits for its validation is validated, or is removed,
\* unless a fault or an outdated save lost it.
QueuedSettles ==
    \A d \in Datasets :
        (row[d] # NoRow /\ row[d].status = "queued") ~>
            \/ row[d] = NoRow \/ row[d].status \in {"ready", "failed"}
            \/ d \in lost \cup stale

\* The entities of a session, in the order they were read.
Held(s) == {r \in {s.found, s.ent, s.base} : r # NoRow}

\* Nothing knows a dataset before its row is inserted.
Fresh(d) ==
    /\ flow[d] \in {"new", "create"} => row[d] = NoRow /\ Quiet(d)
    /\ flow[d] \in {"new", "create", "put"} => object[d] = "none"

\* What an actor at work holds: only the validator makes an entity READY,
\* with a profile, and a profile once held is in the row too.
SessionInv(s) ==
    /\ s.at \in {"load", "write", "download"} => s.ent # NoRow
    /\ s.at # "find" /\ s.ent # NoRow => s.found # NoRow
    /\ s.at = "idle" => s = Idle
    /\ s.at # "idle" => s.ds \in Datasets
    /\ s.at = "find" => s.op \in {"complete", "update", "remove", "validating", "fail"}
    /\ \A r \in Held(s) : r.status = "ready" => object[s.ds] = "good"
    /\ s.ds \in Datasets \ stale =>
        /\ \A r \in Held(s) : r.status = "ready" => r.profile
        /\ s.found # NoRow /\ s.found.profile => s.ent.profile
        /\ row[s.ds] # NoRow =>
            /\ s.found # NoRow /\ s.found.profile => row[s.ds].profile
            /\ s.base # NoRow /\ s.base.profile => row[s.ds].profile

\* The inductive invariant.
DatasetInv ==
    /\ TypeOK
    /\ \A d \in Datasets : Fresh(d)
    /\ \A a \in Actors : SessionInv(session[a])
    /\ ReadyWasProfiled

-----------------------------------------------------------------------------
(***************************************************************************)
(* Why the row tells the outcome: who writes what, and that an actor whose *)
(* row nobody changed writes the status it means.                          *)
(***************************************************************************)

\* The status that only this operation writes.
Aim(op) == CASE op = "validating" -> "validating"
             [] op = "ready" -> "ready"
             [] op = "fail" -> "failed"

Aiming == {"validating", "ready", "fail"}

\* What each actor does.
RoleInv(a, s) ==
    /\ IF a = Processor THEN s.op \in {"none", "validating", "ready"}
       ELSE s.op \notin {"validating", "ready"}
    /\ s.op = "fail" => a = Failed(s.ds)
    /\ a[1] = "failed" => s.op \in {"none", "fail"}
    /\ CASE s.at = "delete" -> s.op = "remove"
         [] s.at = "enqueue" -> s.op = "complete"
         [] s.at = "download" -> s.op = "validating"
         [] s.at = "ack" -> s.op = "ready"
         [] s.at \in {"load", "write"} -> s.op \in {"complete", "update"} \cup Aiming
         [] OTHER -> TRUE

\* The entity an actor is to write.
EntityInv(s) ==
    s.at \in {"load", "write", "download"} =>
        /\ s.op = "update" => s.ent = s.found
        /\ s.op = "complete" => s.ent = [s.found EXCEPT !.status = "queued"]
        /\ s.op \in Aiming => s.ent.status = Aim(s.op)

\* Unless it had it already, the row does not get that status from another.
AimInv(s) ==
    s.ds \in Datasets \ stale /\ s.op \in Aiming =>
        /\ s.at = "load" /\ row[s.ds] # NoRow /\ row[s.ds].status = s.ent.status
              => s.found.status = s.ent.status
        /\ s.at = "write" /\ s.base # NoRow /\ s.base.status = s.ent.status
              => s.found.status = s.ent.status
        /\ s.at = "download" /\ row[s.ds] # NoRow => row[s.ds].status # "ready"

\* A validation that was asked for after the one under way.
Again(d) ==
    \/ \E a \in Actors : session[a].ds = d /\ session[a].at = "enqueue"
    \/ \E i \in 1..Len(queue) : queue[i].ds = d

\* A validation whose outcome is not in the row yet.
Underway(d) ==
    session[Processor].ds = d \/ session[Failed(d)] # Idle \/ Again(d)

Expected(d) == IF outcome[d] = "none" THEN "uploading" ELSE outcome[d]

OutcomeInv(d) ==
    /\ flow[d] \in {"new", "create"} => outcome[d] = "none"
    /\ d \notin stale /\ session[Failed(d)] # Idle =>
          outcome[d] = "failed" /\ session[Processor].ds # d
    /\ row[d] # NoRow /\ d \notin lost \cup stale =>
          /\ session[Processor].ds = d /\ session[Processor].at = "ack" /\ ~ Again(d)
                => row[d].status = "ready"
          /\ ~ Underway(d) => row[d].status = Expected(d)

\* The dialog asks for one completion, and waits for it.
DialogInv(d) == flow[d] # "complete" => session[Modal(d)] = Idle

\* The inductive invariant behind both properties of the rows.
SettledInv ==
    /\ DatasetInv
    /\ \A a \in Actors :
          RoleInv(a, session[a]) /\ EntityInv(session[a]) /\ AimInv(session[a])
    /\ \A d \in Datasets : OutcomeInv(d) /\ DialogInv(d)

=============================================================================
