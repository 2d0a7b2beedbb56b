----------------------- MODULE DatasetLifecycle_proofs -----------------------
(***************************************************************************)
(* Proofs that a READY dataset was profiled, and that the row of a dataset *)
(* nobody works for tells how its last validation ended, for any number of *)
(* datasets, clients, calls and faults.                                    *)
(***************************************************************************)
EXTENDS DatasetLifecycle, TLAPS

LEMMA ActorFacts ==
    /\ Processor \in Actors
    /\ \A d \in Datasets : Modal(d) \in Actors /\ Failed(d) \in Actors
    /\ \A c \in Clients : Client(c) \in Actors
    /\ \A a \in Actors : a[1] = "modal" => a[2] \in Datasets
BY DEF Actors, Processor, Modal, Failed, Client

LEMMA RowFacts ==
    ASSUME TypeOK, NEW d \in Datasets, row[d] # NoRow
    PROVE  row[d] \in Rows
BY DEF TypeOK

LEMMA IdleType == Idle \in Sessions /\ SessionInv(Idle) /\ SessionInv(Idle)'
BY DatasetAssumption DEF Idle, Sessions, SessionInv, Held

LEMMA StartedType ==
    ASSUME NEW d \in Datasets,
           NEW op \in {"complete", "update", "remove", "validating", "fail"}
    PROVE  /\ Started(op, d) \in Sessions
           /\ Started(op, d).ds = d /\ Started(op, d).op = op
           /\ SessionInv(Started(op, d))
           /\ SessionInv(Started(op, d))'
<1> DEFINE s == Started(op, d)
<1>1. s \in Sessions
    BY IdleType DEF Started, Sessions
<1>2. /\ s.op = op /\ s.ds = d /\ s.at = "find"
      /\ s.found = NoRow /\ s.ent = NoRow /\ s.base = NoRow
    BY DEF Started, Idle
<1>3. Held(s) = {}
    BY <1>2 DEF Held
<1>4. SessionInv(s) /\ SessionInv(s)'
    <2> HIDE DEF s
    <2>1. QED
        BY <1>2, <1>3 DEF SessionInv
<1>5. QED
    BY <1>1, <1>2, <1>4

THEOREM Initially == Init => DatasetInv
<1> SUFFICES ASSUME Init PROVE DatasetInv
    OBVIOUS
<1>1. TypeOK
    BY IdleType, DatasetAssumption DEF Init, TypeOK
<1>2. \A d \in Datasets : Fresh(d)
    <2>1. \A a \in Actors : session[a].ds = NoRow
        BY DEF Init, Idle
    <2>2. Len(queue) = 0
        BY DEF Init
    <2>3. \A d \in Datasets : Quiet(d)
        BY <2>1, <2>2, DatasetAssumption DEF Quiet
    <2>4. QED
        BY <2>3 DEF Init, Fresh
<1>3. \A a \in Actors : SessionInv(session[a])
    BY IdleType DEF Init
<1>4. ReadyWasProfiled
    BY DEF Init, ReadyWasProfiled
<1>5. QED
    BY <1>1, <1>2, <1>3, <1>4 DEF DatasetInv

-----------------------------------------------------------------------------
(* What an actor that does not move may rely on.                            *)

\* The conjuncts of SessionInv that others can disturb survive a step that
\* leaves the object and the row alone.
LEMMA SessionKept ==
    ASSUME NEW s, SessionInv(s), stale \subseteq stale',
           UNCHANGED <<row, object>>
    PROVE  SessionInv(s)'
BY DEF SessionInv, Held

\* The end of an actor's work leaves every session as it was, idle, or
\* starting the failed handler of the same dataset.
LEMMA EndSessionFacts ==
    ASSUME DatasetInv, NEW a \in Actors, NEW ok \in BOOLEAN,
           session[a].at # "idle", EndSession(a, ok)
    PROVE  /\ session' \in [Actors -> Sessions]
           /\ \A b \in Actors : session'[b] \in {session[b], Idle, Started("fail", session[a].ds)}
           /\ outcome' \in [Datasets -> {"none", "ready", "failed"}]
           /\ flow' \in [Datasets -> {"new", "create", "put", "complete", "ended"}]
           /\ dialog' \in {"idle", "uploading", "complete", "error"}
           /\ \A d \in Datasets : flow'[d] \in {flow[d], "ended"}
<1> DEFINE s == session[a]
<1>1. s \in Sessions /\ s.ds \in Datasets
    BY DEF DatasetInv, TypeOK, SessionInv
<1>2. /\ session' \in [Actors -> Sessions]
      /\ \A b \in Actors : session'[b] \in {session[b], Idle, Started("fail", s.ds)}
    <2>1. CASE a = Processor /\ ~ok
        BY <1>1, <2>1, ActorFacts, IdleType, StartedType DEF EndSession, DatasetInv, TypeOK
    <2>2. CASE ~(a = Processor /\ ~ok)
        BY <1>1, <2>2, IdleType DEF EndSession, DatasetInv, TypeOK
    <2>3. QED
        BY <2>1, <2>2
<1>3. outcome' \in [Datasets -> {"none", "ready", "failed"}]
    BY <1>1 DEF EndSession, DatasetInv, TypeOK
<1>4. /\ flow' \in [Datasets -> {"new", "create", "put", "complete", "ended"}]
      /\ dialog' \in {"idle", "uploading", "complete", "error"}
      /\ \A d \in Datasets : flow'[d] \in {flow[d], "ended"}
    BY ActorFacts DEF EndSession, Answered, DatasetInv, TypeOK
<1>5. QED
    BY <1>2, <1>3, <1>4

\* With the queue, the rows and the objects unchanged, that is enough for the
\* invariant.
LEMMA EndingStep ==
    ASSUME DatasetInv, NEW a \in Actors, NEW ok \in BOOLEAN,
           session[a].at # "idle", EndSession(a, ok),
           queue' = queue, UNCHANGED <<row, object, stalls, calls>>,
           faults' \in 0..MaxFaults, lost' \subseteq Datasets,
           stale' \subseteq Datasets, stale \subseteq stale'
    PROVE  DatasetInv'
<1>1. session[a].ds \in Datasets
    BY DEF DatasetInv, SessionInv
<1>2. TypeOK'
    BY EndSessionFacts DEF DatasetInv, TypeOK
<1>3. ASSUME NEW d \in Datasets PROVE Fresh(d)'
    <2>1. flow[d] \in {"new", "create"} => session[a].ds # d
        BY DEF DatasetInv, Fresh, Quiet
    <2>2. \A b \in Actors : session'[b].ds \in {session[b].ds, NoRow, session[a].ds}
        BY EndSessionFacts, <1>1, StartedType DEF Idle
    <2>3. QED
        BY <2>1, <2>2, EndSessionFacts, DatasetAssumption DEF DatasetInv, Fresh, Quiet
<1>4. \A b \in Actors : SessionInv(session[b])'
    BY EndSessionFacts, <1>1, SessionKept, IdleType, StartedType DEF DatasetInv
<1>5. ReadyWasProfiled'
    BY DEF DatasetInv, ReadyWasProfiled
<1>6. QED
    BY <1>2, <1>3, <1>4, <1>5 DEF DatasetInv

\* A session that goes on for the same dataset.
LEMMA GoingStep ==
    ASSUME DatasetInv, NEW a \in Actors, NEW s \in Sessions,
           session[a].at # "idle", s.ds = session[a].ds, Goto(a, s),
           SessionInv(s)',
           UNCHANGED <<row, object, queue, stalls, flow, dialog, history, calls, faults>>
    PROVE  DatasetInv'
<1>1. TypeOK'
    BY DEF DatasetInv, TypeOK, Goto, history
<1>2. ASSUME NEW d \in Datasets PROVE Fresh(d)'
    <2>1. \A b \in Actors : session'[b].ds = session[b].ds
        BY DEF Goto, DatasetInv, TypeOK
    <2>2. QED
        BY <2>1 DEF DatasetInv, Fresh, Quiet
<1>3. ASSUME NEW b \in Actors PROVE SessionInv(session[b])'
    <2>1. CASE b = a
        BY <2>1 DEF Goto, DatasetInv, TypeOK
    <2>2. CASE b # a
        <3>1. session'[b] = session[b]
            BY <2>2 DEF Goto, DatasetInv, TypeOK
        <3>2. SessionInv(session[b])
            BY DEF DatasetInv
        <3>3. QED
            BY <3>1, <3>2 DEF SessionInv, Held, history
    <2>3. QED
        BY <2>1, <2>2
<1>4. ReadyWasProfiled'
    BY DEF DatasetInv, ReadyWasProfiled, history
<1>5. QED
    BY <1>1, <1>2, <1>3, <1>4 DEF DatasetInv
-----------------------------------------------------------------------------
(* The steps of an actor that leave the row alone.                          *)

LEMMA FindRowStep ==
    ASSUME DatasetInv, NEW a \in Actors, FindRow(a) PROVE DatasetInv'
<1> PICK s : s = session[a]
    OBVIOUS
<1> PICK e : e = [row[s.ds] EXCEPT !.status = Target(s.op, @)]
    OBVIOUS
<1> PICK t : t = [s EXCEPT !.at = IF s.op = "remove" THEN "delete" ELSE "load",
                           !.found = row[s.ds], !.ent = e]
    OBVIOUS
<1>1. /\ s \in Sessions /\ s.ds \in Datasets /\ SessionInv(s) /\ s.at = "find"
      /\ s.op \in {"complete", "update", "remove", "validating", "fail"}
    BY DEF DatasetInv, TypeOK, SessionInv, FindRow
<1>2. row[s.ds] \in Rows /\ row[s.ds] # NoRow
    BY <1>1 DEF DatasetInv, TypeOK, FindRow
<1>3. Target(s.op, row[s.ds].status) \in Status
    BY <1>1, <1>2 DEF Target, Rows, Status
<1>4. /\ e \in Rows /\ e.profile = row[s.ds].profile
      /\ e.status = "ready" => row[s.ds].status = "ready"
    BY <1>1, <1>2, <1>3 DEF Rows, Target
<1>5. /\ t \in Sessions /\ t.ds = s.ds /\ t.at \in {"delete", "load"}
      /\ t.found = row[s.ds] /\ t.ent = e /\ t.base = s.base
    <2>1. PICK at \in {"delete", "load"} :
              t = [s EXCEPT !.at = at, !.found = row[s.ds], !.ent = e]
        OBVIOUS
    <2>2. s \in Sessions /\ row[s.ds] \in Rows /\ e \in Rows
        BY <1>1, <1>2, <1>4
    <2> QED
        BY <2>1, <2>2 DEF Sessions
<1>6. SessionInv(t)'
    <2>1. UNCHANGED <<row, object, stale>>
        BY DEF FindRow, history
    <2>2. row[s.ds].status = "ready" =>
              object[s.ds] = "good" /\ (s.ds \in stale \/ row[s.ds].profile)
        BY <1>1, <1>2 DEF DatasetInv, ReadyWasProfiled
    <2>3. \A r \in Held(t) : r \in {row[s.ds], e} \/ r \in Held(s)
        BY <1>5 DEF Held
    <2>4. \A r \in Held(t) : r.status = "ready" => object[s.ds] = "good"
        BY <1>1, <1>4, <2>2, <2>3 DEF SessionInv
    <2>5. s.ds \notin stale => \A r \in Held(t) : r.status = "ready" => r.profile
        BY <1>1, <1>4, <2>2, <2>3 DEF SessionInv
    <2>6. s.ds \notin stale /\ s.base # NoRow /\ s.base.profile => row[s.ds].profile
        BY <1>1, <1>2 DEF SessionInv
    <2>7. Held(t)' = Held(t)
        BY DEF Held
    <2>8. /\ t.ent # NoRow /\ t.found # NoRow /\ t.at \notin {"idle", "find"}
          /\ t.ds \in Datasets /\ t.ent.profile = row[t.ds].profile /\ t.found = row[t.ds]
          /\ t.ds \notin stale /\ t.base # NoRow /\ t.base.profile => row[t.ds].profile
        BY <1>1, <1>2, <1>4, <1>5, <2>6, DatasetAssumption
    <2>9. row' = row /\ object' = object /\ stale' = stale
        BY <2>1
    <2>10. QED
        BY <1>5, <2>4, <2>5, <2>7, <2>8, <2>9 DEF SessionInv
<1>7. Goto(a, t) /\ UNCHANGED <<row, object, queue, stalls, flow, dialog, history, calls, faults>>
    BY DEF FindRow
<1>8. QED
    BY <1>1, <1>5, <1>6, <1>7, GoingStep

LEMMA LoadStep ==
    ASSUME DatasetInv, NEW a \in Actors, Load(a) PROVE DatasetInv'
<1> PICK s : s = session[a]
    OBVIOUS
<1> PICK t : t = [s EXCEPT !.at = "write", !.base = row[s.ds]]
    OBVIOUS
<1>1. s \in Sessions /\ s.ds \in Datasets /\ SessionInv(s) /\ s.at = "load"
    BY DEF DatasetInv, TypeOK, SessionInv, Load
<1>2. row[s.ds] \in Rows \cup {NoRow}
    BY <1>1 DEF DatasetInv, TypeOK
<1>3. /\ t \in Sessions /\ t.ds = s.ds /\ t.at = "write"
      /\ t.found = s.found /\ t.ent = s.ent /\ t.base = row[s.ds]
    BY <1>1, <1>2 DEF Sessions
<1>4. SessionInv(t)'
    <2>1. UNCHANGED <<row, object, stale>>
        BY DEF Load, history
    <2>2. t.base # NoRow /\ t.base.status = "ready" =>
              object[t.ds] = "good" /\ (t.ds \in stale \/ t.base.profile)
        BY <1>1, <1>3 DEF DatasetInv, ReadyWasProfiled
    <2>3. QED
        BY <1>1, <1>3, <2>1, <2>2 DEF SessionInv, Held
<1>5. Goto(a, t) /\ UNCHANGED <<row, object, queue, stalls, flow, dialog, history, calls, faults>>
    BY DEF Load
<1>6. QED
    BY <1>1, <1>3, <1>4, <1>5, GoingStep

LEMMA ValidateStep ==
    ASSUME DatasetInv, NEW a \in Actors, Validate(a) PROVE DatasetInv'
<1> PICK s : s = session[a]
    OBVIOUS
<1> PICK t : t = [s EXCEPT !.op = "ready", !.at = "load",
                           !.ent = [@ EXCEPT !.status = "ready", !.profile = TRUE]]
    OBVIOUS
<1>1. s \in Sessions /\ s.ds \in Datasets /\ SessionInv(s) /\ s.at = "download"
    BY DEF DatasetInv, TypeOK, SessionInv, Validate
<1>2. CASE Parses(s.ds)
    <2>1. s.ent \in Rows /\ s.ent # NoRow /\ s.found # NoRow
        BY <1>1 DEF SessionInv, Sessions
    <2>2. /\ t \in Sessions /\ t.ds = s.ds /\ t.at = "load"
          /\ t.found = s.found /\ t.base = s.base /\ t.ent.profile /\ t.ent \in Rows
        BY <1>1, <2>1 DEF Sessions, Rows, Status
    <2>3. SessionInv(t)'
        <3>1. UNCHANGED <<row, object, stale>> /\ object[s.ds] = "good"
            BY <1>2 DEF Validate, Parses
        <3>2. \A r \in Held(t) : r = t.ent \/ r \in Held(s)
            BY <2>2 DEF Held
        <3>3. Held(t)' = Held(t)
            BY DEF Held
        <3>4. /\ \A r \in Held(t) : r.status = "ready" => object[s.ds] = "good"
              /\ s.ds \notin stale => \A r \in Held(t) : r.status = "ready" => r.profile
            BY <1>1, <2>2, <3>1, <3>2 DEF SessionInv
        <3>5. QED
            BY <1>1, <2>1, <2>2, <3>1, <3>3, <3>4, DatasetAssumption DEF SessionInv
    <2>4. Goto(a, t) /\ UNCHANGED <<row, object, queue, stalls, flow, dialog, history, calls, faults>>
        BY <1>2 DEF Validate, history
    <2>5. QED
        BY <1>1, <2>2, <2>3, <2>4, GoingStep
<1>3. CASE ~ Parses(s.ds)
    <2>1. EndSession(a, FALSE)
        BY <1>3 DEF Validate
    <2>2. QED
        BY <1>1, <2>1, EndingStep DEF Validate, DatasetInv, TypeOK
<1>4. QED
    BY <1>2, <1>3

LEMMA EndSteps ==
    ASSUME DatasetInv, NEW a \in Actors,
           FindNothing(a) \/ WriteRefused(a) \/ Ack(a) \/ Raise(a)
    PROVE  DatasetInv'
<1> DEFINE s == session[a]
<1>1. s.at # "idle" /\ s.ds \in Datasets
    BY DEF DatasetInv, SessionInv, FindNothing, WriteRefused, Ack, Raise
<1>2. CASE FindNothing(a)
    BY <1>1, <1>2, EndingStep DEF FindNothing, DatasetInv, TypeOK
<1>3. CASE WriteRefused(a)
    BY <1>1, <1>3, EndingStep DEF WriteRefused, DatasetInv, TypeOK
<1>4. CASE Ack(a)
    BY <1>1, <1>4, EndingStep DEF Ack, DatasetInv, TypeOK
<1>5. CASE Raise(a)
    <2>1. faults' \in 0..MaxFaults
        BY <1>5, DatasetAssumption DEF Raise, DatasetInv, TypeOK
    <2>2. lost' \subseteq Datasets
        BY <1>1, <1>5 DEF Raise, DatasetInv, TypeOK
    <2>3. QED
        BY <1>1, <1>5, <2>1, <2>2, EndingStep DEF Raise, DatasetInv, TypeOK
<1>6. QED
    BY <1>2, <1>3, <1>4, <1>5

-----------------------------------------------------------------------------
(* The steps of an actor that write the row or the queue.                   *)

LEMMA EnqueueStep ==
    ASSUME DatasetInv, NEW a \in Actors, Enqueue(a) PROVE DatasetInv'
<1> PICK s : s = session[a]
    OBVIOUS
<1>1. s.ds \in Datasets /\ s.at # "idle" /\ EndSession(a, TRUE)
    BY DEF DatasetInv, SessionInv, Enqueue
<1> \A b \in Actors : session'[b] \in {session[b], Idle, Started("fail", s.ds)}
    BY <1>1, EndSessionFacts
<1>2. \A b \in Actors : session'[b].ds \in {session[b].ds, NoRow, s.ds}
    BY <1>1, StartedType DEF Idle
<1>3. TypeOK'
    <2>1. queue' \in Seq([ds : Datasets, stalls : {0, 1}])
        BY <1>1 DEF Enqueue, DatasetInv, TypeOK
    <2>2. QED
        BY <1>1, <2>1, EndSessionFacts DEF Enqueue, DatasetInv, TypeOK
<1>4. ASSUME NEW d \in Datasets PROVE Fresh(d)'
    <2>1. flow[d] \in {"new", "create"} => s.ds # d /\ Quiet(d) /\ row[d] = NoRow
        BY DEF DatasetInv, Fresh, Quiet
    <2>2. ASSUME Quiet(d), s.ds # d PROVE \A i \in 1..Len(queue') : queue'[i].ds # d
        BY <2>2 DEF Enqueue, DatasetInv, TypeOK, Quiet
    <2>3. Quiet(d) /\ s.ds # d => Quiet(d)'
        BY <1>2, <2>2, DatasetAssumption DEF Quiet
    <2>4. flow'[d] \in {flow[d], "ended"}
        BY <1>1, EndSessionFacts
    <2>5. QED
        BY <2>1, <2>3, <2>4 DEF Enqueue, DatasetInv, Fresh
<1>5. \A b \in Actors : SessionInv(session[b])'
    BY <1>1, SessionKept, IdleType, StartedType DEF DatasetInv, Enqueue
<1>6. ReadyWasProfiled'
    BY DEF DatasetInv, ReadyWasProfiled, Enqueue
<1>7. QED
    BY <1>3, <1>4, <1>5, <1>6 DEF DatasetInv

\* An actor that waits is not disturbed by another's write, unless that
\* write is an outdated one.
LEMMA SessionSurvives ==
    ASSUME DatasetInv, NEW s, SessionInv(s), NEW d \in Datasets, NEW w,
           row' = [row EXCEPT ![d] = w], object' = object, stale \subseteq stale',
           w = NoRow \/ d \in stale'
             \/ (row[d] # NoRow /\ (row[d].profile => w.profile))
    PROVE  SessionInv(s)'
<1>1. row'[d] = w /\ \A e \in Datasets : e # d => row'[e] = row[e]
    BY DEF DatasetInv, TypeOK
<1>2. CASE s.ds = d
    BY <1>1, <1>2 DEF SessionInv, Held
<1>3. CASE s.ds # d
    BY <1>1, <1>3 DEF SessionInv, Held
<1>4. QED
    BY <1>2, <1>3

LEMMA DeleteStep ==
    ASSUME DatasetInv, NEW a \in Actors, Delete(a) PROVE DatasetInv'
<1> PICK s : s = session[a]
    OBVIOUS
<1>1. s.ds \in Datasets /\ s.at # "idle" /\ EndSession(a, TRUE)
    BY DEF DatasetInv, SessionInv, Delete
<1> \A b \in Actors : session'[b] \in {session[b], Idle, Started("fail", s.ds)}
    BY <1>1, EndSessionFacts
<1>2. \A b \in Actors : session'[b].ds \in {session[b].ds, NoRow, s.ds}
    BY <1>1, StartedType DEF Idle
<1>3. TypeOK'
    BY <1>1, EndSessionFacts DEF Delete, DatasetInv, TypeOK
<1>4. ASSUME NEW d \in Datasets PROVE Fresh(d)'
    <2>1. flow[d] \in {"new", "create"} => s.ds # d /\ Quiet(d) /\ row[d] = NoRow
        BY DEF DatasetInv, Fresh, Quiet
    <2>2. Quiet(d) /\ s.ds # d => Quiet(d)'
        BY <1>2, DatasetAssumption DEF Quiet, Delete
    <2>3. flow'[d] \in {flow[d], "ended"}
        BY <1>1, EndSessionFacts
    <2>4. row'[d] = NoRow \/ row'[d] = row[d]
        BY DEF Delete, DatasetInv, TypeOK
    <2>5. QED
        BY <2>1, <2>2, <2>3, <2>4 DEF Delete, DatasetInv, Fresh
<1>5. ASSUME NEW b \in Actors PROVE SessionInv(session[b])'
    <2>1. PICK t : t = session'[b]
        OBVIOUS
    <2>2. SessionInv(t)
        BY <2>1, <1>1, IdleType, StartedType DEF DatasetInv
    <2>3. SessionInv(t)'
        BY <1>1, <2>2, SessionSurvives DEF Delete
    <2>4. QED
        BY <2>1, <2>3 DEF SessionInv, Held
<1>6. ReadyWasProfiled'
    BY DEF DatasetInv, ReadyWasProfiled, Delete, TypeOK
<1>7. QED
    BY <1>3, <1>4, <1>5, <1>6 DEF DatasetInv

\* What is written is READY only for a profiled object; an entity that is up
\* to date never takes a profile away.
LEMMA WrittenFacts ==
    ASSUME DatasetInv, NEW a \in Actors, NEW s, s = session[a],
           s.at = "write", ~ Conflict(s), NEW w, w = Written(s)
    PROVE  /\ w \in Rows \cup {NoRow}
           /\ w # NoRow /\ w.status = "ready" => object[s.ds] = "good"
           /\ s.ds \notin stale /\ ~ Outdated(s) =>
                /\ row[s.ds] # NoRow /\ w # NoRow
                /\ row[s.ds].profile \/ s.ent.profile => w.profile
                /\ w.status = "ready" => w.profile
<1> DEFINE cur == row[s.ds]
<1>1. /\ s \in Sessions /\ s.ds \in Datasets /\ SessionInv(s)
      /\ s.ent # NoRow /\ s.ent \in Rows /\ s.found # NoRow /\ s.found \in Rows
      /\ cur \in Rows \cup {NoRow} /\ s.base \in Rows \cup {NoRow}
    BY DEF DatasetInv, TypeOK, SessionInv, Sessions
<1>2. s.ent.status = "ready" => object[s.ds] = "good"
    BY <1>1 DEF SessionInv, Held
<1>3. cur # NoRow /\ cur.status = "ready" => object[s.ds] = "good"
    BY <1>1 DEF DatasetInv, ReadyWasProfiled
<1>4. CASE s.base = NoRow
    BY <1>1, <1>2, <1>4 DEF Written, Conflict, Outdated
<1>5. CASE s.base # NoRow /\ cur = NoRow
    BY <1>1, <1>5 DEF Written, Outdated
<1>6. CASE s.base # NoRow /\ cur # NoRow
    <2>1. w = [f \in DOMAIN cur |-> IF s.ent[f] # s.base[f] THEN s.ent[f] ELSE cur[f]]
        BY <1>6 DEF Written
    <2>2. DOMAIN cur = {"status", "profile"}
        BY <1>1, <1>6 DEF Rows
    <2>3. /\ w.status = IF s.ent.status # s.base.status THEN s.ent.status ELSE cur.status
          /\ w.profile = IF s.ent.profile # s.base.profile THEN s.ent.profile ELSE cur.profile
        BY <2>1, <2>2
    <2>4. w \in Rows
        <3>1. w = [status |-> w.status, profile |-> w.profile]
            BY <2>1, <2>2
        <3>2. w.status \in Status /\ w.profile \in BOOLEAN
            BY <1>1, <1>6, <2>3 DEF Rows
        <3>3. QED
            BY <3>1, <3>2 DEF Rows
    <2>5. w.status = "ready" => object[s.ds] = "good"
        BY <1>2, <1>3, <1>6, <2>3
    <2>6. ASSUME s.ds \notin stale, ~ Outdated(s)
          PROVE  /\ cur.profile \/ s.ent.profile => w.profile
                 /\ w.status = "ready" => w.profile
        <3>1. /\ cur = s.found /\ cur.profile \in BOOLEAN
              /\ s.ent.profile \in BOOLEAN /\ s.base.profile \in BOOLEAN
            BY <1>1, <1>6, <2>6 DEF Outdated, Rows
        <3>2. cur.profile => s.ent.profile
            BY <1>1, <2>6, <3>1 DEF SessionInv
        <3>3. s.base.profile => cur.profile
            BY <1>1, <1>6, <2>6 DEF SessionInv
        <3>4. s.ent.status = "ready" => s.ent.profile
            BY <1>1, <2>6 DEF SessionInv, Held
        <3>5. cur.status = "ready" => cur.profile
            BY <1>1, <1>6, <2>6 DEF DatasetInv, ReadyWasProfiled
        <3>6. s.ent.profile => w.profile
            BY <2>3, <3>1, <3>3
        <3>7. QED
            BY <2>3, <3>2, <3>4, <3>5, <3>6
    <2>7. w # NoRow
        BY <2>4, DatasetAssumption
    <2>8. QED
        BY <1>6, <2>4, <2>5, <2>6, <2>7
<1>7. QED
    BY <1>4, <1>5, <1>6

LEMMA WriteStep ==
    ASSUME DatasetInv, NEW a \in Actors, Write(a) PROVE DatasetInv'
<1> PICK s : s = session[a]
    OBVIOUS
<1> PICK w : w = Written(s)
    OBVIOUS
<1> PICK t : t = [s EXCEPT !.at = AfterWrite(s), !.found = s.ent, !.base = NoRow]
    OBVIOUS
<1>1. /\ s \in Sessions /\ s.ds \in Datasets /\ SessionInv(s) /\ s.at = "write"
      /\ s.ent # NoRow /\ s.ent \in Rows /\ ~ Conflict(s)
    BY DEF DatasetInv, TypeOK, SessionInv, Sessions, Write
<1>2. /\ w \in Rows \cup {NoRow}
      /\ w # NoRow /\ w.status = "ready" => object[s.ds] = "good"
      /\ s.ds \notin stale /\ ~ Outdated(s) =>
           /\ row[s.ds] # NoRow /\ w # NoRow
           /\ row[s.ds].profile \/ s.ent.profile => w.profile
           /\ w.status = "ready" => w.profile
    BY <1>1, WrittenFacts
<1>3. /\ row' = [row EXCEPT ![s.ds] = w] /\ object' = object
      /\ stale' = IF Outdated(s) THEN stale \cup {s.ds} ELSE stale
    BY DEF Write
<1>4. row'[s.ds] = w /\ \A d \in Datasets : d # s.ds => row'[d] = row[d]
    BY <1>1, <1>3 DEF DatasetInv, TypeOK
<1>5. ReadyWasProfiled'
    <2> SUFFICES ASSUME NEW d \in Datasets, row'[d] # NoRow, row'[d].status = "ready"
                 PROVE  object'[d] = "good" /\ (d \in stale' \/ row'[d].profile)
        BY DEF ReadyWasProfiled
    <2>1. CASE d = s.ds
        BY <1>1, <1>2, <1>3, <1>4, <2>1
    <2>2. CASE d # s.ds
        BY <1>3, <1>4, <2>2 DEF DatasetInv, ReadyWasProfiled
    <2>3. QED
        BY <2>1, <2>2
<1>6. ASSUME NEW u, SessionInv(u) PROVE SessionInv(u)'
    BY <1>1, <1>2, <1>3, <1>6, SessionSurvives
<1>7. ASSUME \A b \in Actors : session'[b].ds \in {session[b].ds, NoRow, s.ds},
             \A d \in Datasets : flow'[d] \in {flow[d], "ended"}
      PROVE  \A d \in Datasets : Fresh(d)'
    <2> SUFFICES ASSUME NEW d \in Datasets PROVE Fresh(d)'
        OBVIOUS
    <2>1. flow[d] \in {"new", "create"} => s.ds # d /\ Quiet(d) /\ row[d] = NoRow
        BY DEF DatasetInv, Fresh, Quiet
    <2>2. Quiet(d) /\ s.ds # d => Quiet(d)'
        BY <1>7, DatasetAssumption DEF Quiet, Write
    <2>3. QED
        BY <1>3, <1>4, <1>7, <2>1, <2>2 DEF DatasetInv, Fresh
<1>8. CASE AfterWrite(s) = "end"
    <2>1. EndSession(a, TRUE) /\ s.at # "idle"
        BY <1>1, <1>8 DEF Write
    <2> \A b \in Actors : session'[b] \in {session[b], Idle, Started("fail", s.ds)}
        BY <2>1, EndSessionFacts
    <2>2. \A b \in Actors : session'[b].ds \in {session[b].ds, NoRow, s.ds}
        BY <1>1, StartedType DEF Idle
    <2>3. \A d \in Datasets : Fresh(d)'
        BY <1>7, <2>1, <2>2, EndSessionFacts
    <2>4. ASSUME NEW b \in Actors PROVE SessionInv(session[b])'
        <3>1. PICK u : u = session'[b]
            OBVIOUS
        <3>2. SessionInv(u)
            BY <3>1, <1>1, IdleType, StartedType DEF DatasetInv
        <3>3. SessionInv(u)'
            BY <1>6, <3>2
        <3>4. QED
            BY <3>1, <3>3 DEF SessionInv, Held
    <2>5. TypeOK'
        <3>1. row' \in [Datasets -> Rows \cup {NoRow}] /\ stale' \subseteq Datasets
            BY <1>1, <1>2, <1>3 DEF DatasetInv, TypeOK
        <3>2. /\ session' \in [Actors -> Sessions]
              /\ outcome' \in [Datasets -> {"none", "ready", "failed"}]
              /\ flow' \in [Datasets -> {"new", "create", "put", "complete", "ended"}]
              /\ dialog' \in {"idle", "uploading", "complete", "error"}
            BY <2>1, EndSessionFacts
        <3>3. QED
            BY <3>1, <3>2 DEF Write, DatasetInv, TypeOK
    <2>6. QED
        BY <1>5, <2>3, <2>4, <2>5 DEF DatasetInv
<1>9. CASE AfterWrite(s) # "end"
    <2>1. AfterWrite(s) \in {"enqueue", "download", "ack"}
        BY <1>9 DEF AfterWrite
    <2>2. /\ session' = [session EXCEPT ![a] = t]
          /\ UNCHANGED <<flow, dialog, outcome>>
        BY <1>9 DEF Write, Goto
    <2>3. /\ t \in Sessions /\ t.ds = s.ds /\ t.at \in {"enqueue", "download", "ack"}
          /\ t.found = s.ent /\ t.ent = s.ent /\ t.base = NoRow
        BY <1>1, <2>1 DEF Sessions
    <2>4. \A d \in Datasets : Fresh(d)'
        BY <1>7, <2>2, <2>3 DEF DatasetInv, TypeOK
    <2>5. SessionInv(t)'
        <3>1. Held(t)' = {s.ent}
            BY <1>1, <2>3 DEF Held
        <3>2. /\ s.ent.status = "ready" => object[s.ds] = "good"
              /\ s.ds \notin stale /\ s.ent.status = "ready" => s.ent.profile
            BY <1>1 DEF SessionInv, Held
        <3>3. s.ds \notin stale' /\ s.ent.profile => w.profile
            BY <1>1, <1>2, <1>3
        <3>4. QED
            BY <1>1, <1>3, <1>4, <2>3, <3>1, <3>2, <3>3 DEF SessionInv
    <2>6. ASSUME NEW b \in Actors PROVE SessionInv(session[b])'
        <3>1. CASE b = a
            BY <2>2, <2>5, <3>1 DEF DatasetInv, TypeOK
        <3>2. CASE b # a
            <4>1. PICK u : u = session'[b]
                OBVIOUS
            <4>2. SessionInv(u)
                BY <2>2, <3>2, <4>1 DEF DatasetInv, TypeOK
            <4>3. SessionInv(u)'
                BY <1>6, <4>2
            <4>4. QED
                BY <4>1, <4>3 DEF SessionInv, Held
        <3>3. QED
            BY <3>1, <3>2
    <2>7. TypeOK'
        BY <1>1, <1>2, <1>3, <2>2, <2>3 DEF Write, DatasetInv, TypeOK
    <2>8. QED
        BY <1>5, <2>4, <2>6, <2>7 DEF DatasetInv
<1>10. QED
    BY <1>8, <1>9

-----------------------------------------------------------------------------
(* The queue, the dialog and the faults.                                    *)

Jobs == [ds : Datasets, stalls : {0, 1}]

LEMMA TailFacts ==
    ASSUME NEW S, NEW q \in Seq(S), q # <<>>
    PROVE  /\ Head(q) \in S /\ Head(q) = q[1] /\ Tail(q) \in Seq(S)
           /\ Len(q) \in Nat \ {0} /\ Len(Tail(q)) = Len(q) - 1
           /\ \A i \in 1..Len(Tail(q)) : Tail(q)[i] = q[i + 1]
<1>1. Len(q) \in Nat \ {0} /\ Len(Tail(q)) = Len(q) - 1
    OBVIOUS
<1>2. Head(q) = q[1] /\ q[1] \in S
    BY <1>1
<1>3. Tail(q) \in Seq(S)
    OBVIOUS
<1>4. \A i \in 1..Len(Tail(q)) : Tail(q)[i] = q[i + 1]
    BY <1>1
<1>5. QED
    BY <1>1, <1>2, <1>3, <1>4

LEMMA PushFacts ==
    ASSUME NEW S, NEW q \in Seq(S), NEW x \in S, NEW r, r = <<x>> \o q
    PROVE  /\ r \in Seq(S) /\ Len(r) = Len(q) + 1 /\ r[1] = x
           /\ \A i \in 2..Len(r) : r[i] = q[i - 1]
<1>1. <<x>> \in Seq(S) /\ Len(<<x>>) = 1
    OBVIOUS
<1>2. r \in Seq(S) /\ Len(r) = Len(q) + 1
    BY <1>1
<1>3. r[1] = x /\ \A i \in 2..Len(r) : r[i] = q[i - 1]
    BY <1>1, <1>2
<1>4. QED
    BY <1>2, <1>3

LEMMA TakeStep == ASSUME DatasetInv, Take PROVE DatasetInv'
<1> PICK d : d = Head(queue).ds
    OBVIOUS
<1> PICK t : t = Started("validating", d)
    OBVIOUS
<1>1. /\ Head(queue) \in [ds : Datasets, stalls : {0, 1}] /\ d \in Datasets
      /\ Tail(queue) \in Seq([ds : Datasets, stalls : {0, 1}])
      /\ Len(queue) \in Nat \ {0} /\ Head(queue) = queue[1]
      /\ Len(Tail(queue)) = Len(queue) - 1
      /\ \A i \in 1..Len(Tail(queue)) : Tail(queue)[i] = queue[i + 1]
    <2>1. queue \in Seq(Jobs) /\ queue # <<>>
        BY DEF Take, DatasetInv, TypeOK, Jobs
    <2>2. /\ Head(queue) \in Jobs /\ Tail(queue) \in Seq(Jobs)
          /\ Len(queue) \in Nat \ {0} /\ Head(queue) = queue[1]
          /\ Len(Tail(queue)) = Len(queue) - 1
          /\ \A i \in 1..Len(Tail(queue)) : Tail(queue)[i] = queue[i + 1]
        BY <2>1, TailFacts
    <2>3. d \in Datasets
        BY <2>2 DEF Jobs
    <2>4. QED
        BY <2>2, <2>3 DEF Jobs
<1>2. t \in Sessions /\ t.ds = d /\ SessionInv(t) /\ SessionInv(t)'
    BY <1>1, StartedType
<1>3. /\ session' = [session EXCEPT ![Processor] = t] /\ queue' = Tail(queue)
      /\ stalls' = Head(queue).stalls /\ stale' \in {stale, stale \cup {d}}
      /\ UNCHANGED <<row, object, flow, dialog, outcome, lost, calls, faults>>
    BY DEF Take, Goto
<1>4. TypeOK'
    BY <1>1, <1>2, <1>3, ActorFacts DEF DatasetInv, TypeOK
<1>5. ASSUME NEW e \in Datasets PROVE Fresh(e)'
    <2>1. ASSUME Quiet(e) PROVE Quiet(e)'
        <3>1. d # e
            BY <1>1, <2>1 DEF Quiet
        <3>2. \A i \in 1..Len(queue') : queue'[i].ds # e
            BY <1>1, <1>3, <2>1 DEF Quiet
        <3>3. \A b \in Actors : session'[b].ds # e
            BY <1>2, <1>3, <2>1, <3>1 DEF Quiet, DatasetInv, TypeOK
        <3>4. QED
            BY <3>2, <3>3 DEF Quiet
    <2>2. QED
        BY <1>3, <2>1 DEF DatasetInv, Fresh
<1>6. ASSUME NEW b \in Actors PROVE SessionInv(session[b])'
    <2>1. PICK u : u = session'[b]
        OBVIOUS
    <2>2. SessionInv(u)
        BY <1>2, <1>3, <2>1 DEF DatasetInv, TypeOK
    <2>3. SessionInv(u)'
        BY <1>3, <2>2, SessionKept
    <2>4. QED
        BY <2>1, <2>3 DEF SessionInv, Held
<1>7. ReadyWasProfiled'
    BY <1>3 DEF DatasetInv, ReadyWasProfiled
<1>8. QED
    BY <1>4, <1>5, <1>6, <1>7 DEF DatasetInv

\* An actor starts; the dataset it starts for has left the dialog's hands.
LEMMA StartStep ==
    ASSUME DatasetInv, NEW a \in Actors, NEW d \in Datasets,
           NEW op \in {"complete", "update", "remove", "validating", "fail"},
           Goto(a, Started(op, d)), flow'[d] \notin {"new", "create"},
           UNCHANGED <<row, queue, stalls, dialog, history>>, UNCHANGED faults,
           calls' \in 0..MaxCalls,
           object' \in [Datasets -> {"none", "good", "bad"}],
           flow' \in [Datasets -> {"new", "create", "put", "complete", "ended"}],
           \A e \in Datasets : /\ flow'[e] # flow[e] => flow'[e] \notin {"new", "create", "put"}
                               /\ object'[e] # object[e] => flow[e] = "put" /\ flow'[e] = "complete"
    PROVE  DatasetInv'
<1> PICK t : t = Started(op, d)
    OBVIOUS
<1>1. t \in Sessions /\ t.ds = d /\ SessionInv(t)'
    BY StartedType
<1>2. session' = [session EXCEPT ![a] = t]
    BY DEF Goto
<1>3. TypeOK'
    BY <1>1, <1>2 DEF DatasetInv, TypeOK, history
<1>4. ASSUME NEW e \in Datasets PROVE Fresh(e)'
    <2>1. e # d /\ Quiet(e) => Quiet(e)'
        BY <1>1, <1>2 DEF Quiet, DatasetInv, TypeOK
    <2>2. Fresh(e)
        BY DEF DatasetInv
    <2>3. flow'[e] \in {"new", "create"} => flow'[e] = flow[e] /\ e # d
        OBVIOUS
    <2>4. flow'[e] \in {"new", "create", "put"} => flow'[e] = flow[e] /\ object'[e] = object[e]
        OBVIOUS
    <2>5. row' = row
        OBVIOUS
    <2>6. QED
        BY <2>1, <2>2, <2>3, <2>4, <2>5 DEF Fresh
<1>5. ASSUME NEW e \in Datasets, object[e] = "good" PROVE object'[e] = "good"
    <2>1. Fresh(e)
        BY DEF DatasetInv
    <2>2. flow[e] # "put"
        BY <1>5, <2>1 DEF Fresh
    <2>3. QED
        BY <1>5, <2>2
<1>6. ASSUME NEW b \in Actors PROVE SessionInv(session[b])'
    <2>1. CASE b = a
        BY <1>1, <1>2, <2>1 DEF DatasetInv, TypeOK
    <2>2. CASE b # a
        <3>1. PICK u : u = session'[b]
            OBVIOUS
        <3>2. SessionInv(u)
            BY <1>2, <2>2, <3>1 DEF DatasetInv, TypeOK
        <3>3. u.at = "idle" => u.found = NoRow /\ u.ent = NoRow /\ u.base = NoRow
            BY <3>2 DEF SessionInv, Idle
        <3>4. SessionInv(u)'
            BY <1>5, <3>2, <3>3 DEF SessionInv, Held, history
        <3>5. QED
            BY <3>1, <3>4 DEF SessionInv, Held
    <2>3. QED
        BY <2>1, <2>2
<1>7. ReadyWasProfiled'
    BY <1>5 DEF DatasetInv, ReadyWasProfiled, history
<1>8. QED
    BY <1>3, <1>4, <1>6, <1>7 DEF DatasetInv

LEMMA PutStep ==
    ASSUME DatasetInv, NEW d \in Datasets, Put(d) PROVE DatasetInv'
<1>1. PICK c \in {"good", "bad"} : object' = [object EXCEPT ![d] = c]
    BY DEF Put
<1>2. /\ flow[d] = "put" /\ flow' = [flow EXCEPT ![d] = "complete"]
      /\ Goto(Modal(d), Started("complete", d))
      /\ UNCHANGED <<row, queue, stalls, dialog, history, calls, faults>>
    BY DEF Put
<1>3. /\ object' \in [Datasets -> {"none", "good", "bad"}]
      /\ flow' \in [Datasets -> {"new", "create", "put", "complete", "ended"}]
      /\ calls' \in 0..MaxCalls
      /\ \A e \in Datasets : e # d => object'[e] = object[e] /\ flow'[e] = flow[e]
      /\ flow'[d] = "complete"
    BY <1>1, <1>2 DEF DatasetInv, TypeOK
<1>4. QED
    BY <1>2, <1>3, ActorFacts, StartStep

LEMMA CallStep ==
    ASSUME DatasetInv, NEW d \in Datasets, NEW c \in Clients,
           NEW op \in {"complete", "update", "remove"}, Call(c, op, d)
    PROVE  DatasetInv'
<1>1. calls' \in 0..MaxCalls
    BY DatasetAssumption DEF Call, DatasetInv, TypeOK
<1>2. QED
    BY <1>1, ActorFacts, StartStep DEF Call, DatasetInv, TypeOK

LEMMA CreateRowStep ==
    ASSUME DatasetInv, NEW d \in Datasets, CreateRow(d) PROVE DatasetInv'
<1>1. /\ row[d] = NoRow /\ Quiet(d) /\ object[d] = "none"
      /\ UNCHANGED <<object, queue, stalls, session, outcome, lost, stale, calls, faults>>
    BY DEF CreateRow, DatasetInv, Fresh, history
<1>2. PICK w \in {NoRow, [status |-> "uploading", profile |-> FALSE]},
           f \in {"ended", "put"} :
          /\ row' = [row EXCEPT ![d] = w] /\ flow' = [flow EXCEPT ![d] = f]
          /\ dialog' \in {dialog, "error"}
    <2>1. row = [row EXCEPT ![d] = NoRow]
        BY <1>1 DEF DatasetInv, TypeOK
    <2>2. QED
        BY <2>1 DEF CreateRow, Answered
<1>3. w \in Rows \cup {NoRow} /\ (w # NoRow => w.status = "uploading")
    <2>1. [status |-> "uploading", profile |-> FALSE] \in Rows
        BY DEF Rows, Status
    <2>2. CASE w = NoRow
        BY <2>2
    <2>3. CASE w = [status |-> "uploading", profile |-> FALSE]
        BY <2>1, <2>3
    <2>4. QED
        BY <2>2, <2>3
<1>4. TypeOK'
    BY <1>1, <1>2, <1>3 DEF DatasetInv, TypeOK
<1>5. ASSUME NEW e \in Datasets PROVE Fresh(e)'
    BY <1>1, <1>2 DEF DatasetInv, TypeOK, Fresh, Quiet
<1>6. ASSUME NEW b \in Actors PROVE SessionInv(session[b])'
    <2>1. session[b].ds # d /\ SessionInv(session[b])
        BY <1>1 DEF Quiet, DatasetInv
    <2>2. \A e \in Datasets : e # d => row'[e] = row[e]
        BY <1>2 DEF DatasetInv, TypeOK
    <2>3. QED
        BY <1>1, <2>1, <2>2 DEF SessionInv, Held
<1>7. ReadyWasProfiled'
    BY <1>1, <1>2, <1>3 DEF DatasetInv, TypeOK, ReadyWasProfiled
<1>8. QED
    BY <1>4, <1>5, <1>6, <1>7 DEF DatasetInv

\* The steps that only the dialog sees.
LEMMA DialogStep ==
    ASSUME DatasetInv,
           \/ \E d \in Datasets : Submit(d) \/ FlowFails(d)
           \/ CloseDialog \/ Rest
    PROVE  DatasetInv'
<1>1. UNCHANGED <<row, object, queue, stalls, session, outcome, lost, stale, calls>>
    BY DEF Submit, FlowFails, CloseDialog, Rest, vars, history
<1>2. /\ flow' \in [Datasets -> {"new", "create", "put", "complete", "ended"}]
      /\ \A d \in Datasets :
            flow'[d] = flow[d] \/ flow'[d] = "ended" \/ (flow[d] = "new" /\ flow'[d] = "create")
      /\ dialog' \in {"idle", "uploading", "complete", "error"}
    BY DEF Submit, FlowFails, CloseDialog, Rest, vars, Answered, DatasetInv, TypeOK
<1>3. faults' \in 0..MaxFaults
    <2>1. faults' = faults \/ (faults < MaxFaults /\ faults' = faults + 1)
        BY DEF Submit, FlowFails, CloseDialog, Rest, vars
    <2>2. QED
        BY <2>1, DatasetAssumption DEF DatasetInv, TypeOK
<1>4. TypeOK'
    BY <1>1, <1>2, <1>3 DEF DatasetInv, TypeOK
<1>5. \A d \in Datasets : Fresh(d)'
    BY <1>1, <1>2 DEF DatasetInv, Fresh, Quiet
<1>6. \A a \in Actors : SessionInv(session[a])'
    BY <1>1 DEF DatasetInv, SessionInv, Held
<1>7. ReadyWasProfiled'
    BY <1>1 DEF DatasetInv, ReadyWasProfiled
<1>8. QED
    BY <1>4, <1>5, <1>6, <1>7 DEF DatasetInv

LEMMA CrashStep == ASSUME DatasetInv, Crash PROVE DatasetInv'
<1> PICK p : p = session[Processor]
    OBVIOUS
<1>1. p \in Sessions /\ SessionInv(p) /\ (p # Idle => p.ds \in Datasets)
    BY ActorFacts DEF DatasetInv, TypeOK, SessionInv
<1>2. /\ UNCHANGED <<row, object, stalls, stale, calls>>
      /\ \A a \in Actors : session'[a] = Idle \/ (p # Idle /\ session'[a] = Started("fail", p.ds))
      /\ session' = [a \in Actors |-> session'[a]]
    BY DEF Crash
<1>3. session' \in [Actors -> Sessions]
    BY <1>1, <1>2, IdleType, StartedType
<1>4. \/ queue' = queue
      \/ p # Idle /\ queue' = <<[ds |-> p.ds, stalls |-> 1]>> \o queue
    BY DEF Crash
<1>5. /\ queue' \in Seq(Jobs)
      /\ \A i \in 1..Len(queue') :
            (p # Idle /\ queue'[i].ds = p.ds) \/ \E j \in 1..Len(queue) : queue'[i] = queue[j]
    <2>1. queue \in Seq(Jobs)
        BY DEF DatasetInv, TypeOK, Jobs
    <2>2. CASE queue' = queue
        BY <2>1, <2>2
    <2>3. CASE p # Idle /\ queue' = <<[ds |-> p.ds, stalls |-> 1]>> \o queue
        <3>1. PICK x \in Jobs : x = [ds |-> p.ds, stalls |-> 1] /\ x.ds = p.ds
            BY <1>1, <2>3 DEF Jobs
        <3>2. /\ queue' \in Seq(Jobs) /\ Len(queue') = Len(queue) + 1 /\ queue'[1] = x
              /\ \A i \in 2..Len(queue') : queue'[i] = queue[i - 1]
            BY <2>1, <2>3, <3>1, PushFacts
        <3>3. Len(queue) \in Nat
            BY <2>1
        <3>4. \A i \in 2..Len(queue') : i - 1 \in 1..Len(queue)
            BY <3>2, <3>3
        <3>5. QED
            BY <2>3, <3>1, <3>2, <3>3, <3>4
    <2>4. QED
        BY <1>4, <2>2, <2>3
<1>6. \A a \in Actors : Undone(session[a]) => session[a].ds \in Datasets
    BY DEF Undone, DatasetInv, SessionInv, Idle
<1>7. /\ lost' \subseteq Datasets
      /\ outcome' \in [Datasets -> {"none", "ready", "failed"}]
      /\ flow' \in [Datasets -> {"new", "create", "put", "complete", "ended"}]
      /\ \A d \in Datasets : flow'[d] \in {flow[d], "ended"}
      /\ dialog' \in {"idle", "uploading", "complete", "error"}
    BY <1>1, <1>6 DEF Crash, Answered, DatasetInv, TypeOK
<1>8. faults' \in 0..MaxFaults
    BY DatasetAssumption DEF Crash, DatasetInv, TypeOK
<1>9. TypeOK'
    BY <1>2, <1>3, <1>5, <1>7, <1>8 DEF DatasetInv, TypeOK, Jobs
<1>10. ASSUME NEW d \in Datasets PROVE Fresh(d)'
    <2>1. ASSUME Quiet(d) PROVE Quiet(d)'
        <3>1. p.ds # d
            BY <2>1, ActorFacts DEF Quiet
        <3>2. \A i \in 1..Len(queue') : queue'[i].ds # d
            BY <1>5, <2>1, <3>1 DEF Quiet
        <3>3. \A a \in Actors : session'[a].ds # d
            BY <1>1, <1>2, <3>1, StartedType, DatasetAssumption DEF Idle
        <3>4. QED
            BY <3>2, <3>3 DEF Quiet
    <2>2. QED
        BY <1>2, <1>7, <2>1 DEF DatasetInv, Fresh
<1>11. \A a \in Actors : SessionInv(session[a])'
    BY <1>1, <1>2, IdleType, StartedType
<1>12. ReadyWasProfiled'
    BY <1>2 DEF DatasetInv, ReadyWasProfiled
<1>13. QED
    BY <1>9, <1>10, <1>11, <1>12 DEF DatasetInv

-----------------------------------------------------------------------------
THEOREM Inductive == DatasetInv /\ [Next]_vars => DatasetInv'
<1> SUFFICES ASSUME DatasetInv, [Next]_vars PROVE DatasetInv'
    OBVIOUS
<1>1. ASSUME NEW a \in Actors, Proceed(a) \/ Raise(a) PROVE DatasetInv'
    BY <1>1, FindRowStep, LoadStep, ValidateStep, EndSteps, EnqueueStep, DeleteStep, WriteStep
       DEF Proceed
<1>2. CASE Take
    BY <1>2, TakeStep
<1>3. ASSUME NEW d \in Datasets, Submit(d) \/ CreateRow(d) \/ Put(d) \/ FlowFails(d)
      PROVE  DatasetInv'
    BY <1>3, DialogStep, CreateRowStep, PutStep
<1>4. ASSUME NEW d \in Datasets, NEW c \in Clients,
             NEW op \in {"complete", "update", "remove"}, Call(c, op, d)
      PROVE  DatasetInv'
    BY <1>4, CallStep
<1>5. CASE CloseDialog \/ Rest
    BY <1>5, DialogStep
<1>6. CASE Crash
    BY <1>6, CrashStep
<1>7. CASE UNCHANGED vars
    BY <1>7 DEF vars, history, DatasetInv, TypeOK, Fresh, Quiet, SessionInv, Held, ReadyWasProfiled
<1>8. QED
    BY <1>1, <1>2, <1>3, <1>4, <1>5, <1>6, <1>7 DEF Next

\* The sessions of DatasetService and of the queue's processor hold entities
\* that agree with the table as far as ReadyWasProfiled needs.
THEOREM Invariant == Spec => []DatasetInv
BY Initially, Inductive, PTL DEF Spec

\* Type correctness of the datasets table, the queue and the sessions.
THEOREM TypeCorrect == Spec => []TypeOK
<1>1. DatasetInv => TypeOK
    BY DEF DatasetInv
<1>2. QED
    BY <1>1, Invariant, PTL

\* READY is written for a profiled object only (validation.worker.ts:27).
THEOREM ReadyWasProfiledHolds == Spec => []ReadyWasProfiled
<1>1. DatasetInv => ReadyWasProfiled
    BY DEF DatasetInv
<1>2. QED
    BY <1>1, Invariant, PTL

-----------------------------------------------------------------------------
(* What an actor at work means to write.                                    *)

Works(b) == RoleInv(b, session[b]) /\ EntityInv(session[b]) /\ AimInv(session[b])

LEMMA IdleWorks ==
    ASSUME NEW b \in Actors, session'[b] = Idle PROVE Works(b)'
<1>1. Idle.op = "none" /\ Idle.at = "idle"
    BY DEF Idle
<1>2. RoleInv(b, Idle) /\ EntityInv(Idle)
    BY <1>1, ActorFacts DEF RoleInv, EntityInv
<1>3. AimInv(Idle)'
    BY <1>1 DEF AimInv, Aiming
<1>4. QED
    BY <1>2, <1>3 DEF Works, RoleInv, EntityInv, AimInv

\* An actor starts with an operation of its own.
LEMMA StartedWorks ==
    ASSUME NEW b \in Actors, NEW d \in Datasets,
           NEW op \in {"complete", "update", "remove", "validating", "fail"},
           b = Processor <=> op = "validating",
           op = "fail" => b = Failed(d), b[1] = "failed" => op = "fail",
           session'[b] = Started(op, d)
    PROVE  Works(b)'
<1> PICK s : s = Started(op, d)
    OBVIOUS
<1>1. s.op = op /\ s.ds = d /\ s.at = "find"
    BY DEF Started, Idle
<1>2. RoleInv(b, s) /\ EntityInv(s)
    BY <1>1 DEF RoleInv, EntityInv
<1>3. AimInv(s)'
    BY <1>1 DEF AimInv
<1>4. QED
    BY <1>2, <1>3 DEF Works, RoleInv, EntityInv, AimInv

\* An actor goes on.
LEMMA OnWorks ==
    ASSUME NEW b \in Actors, NEW s, session'[b] = s,
           RoleInv(b, s), EntityInv(s), AimInv(s)'
    PROVE  Works(b)'
BY DEF Works, RoleInv, EntityInv, AimInv

\* The row of a session is written by nobody else in this step, or with a
\* status that the session does not mean to write.
Undisturbed(s) ==
    s.ds \in Datasets \ stale' /\ s.op \in Aiming =>
        \/ row'[s.ds] = NoRow
        \/ row[s.ds] # NoRow /\ row'[s.ds].status = row[s.ds].status
        \/ row'[s.ds].status \notin {"validating", "ready", "failed"}

\* An actor that waits is not disturbed, unless its row gets a status that
\* it means to write itself, from an actor that was not out of date.
LEMMA WaitWorks ==
    ASSUME NEW b \in Actors, Works(b), session'[b] = session[b],
           stale \subseteq stale', Undisturbed(session[b])
    PROVE  Works(b)'
<1> PICK s : s = session[b]
    OBVIOUS
<1>1. RoleInv(b, s) /\ EntityInv(s) /\ AimInv(s)
    BY DEF Works
<1>2. ASSUME s.op \in Aiming, s.at \in {"load", "write", "download"}
      PROVE  s.ent.status \in {"validating", "ready", "failed"}
    BY <1>1, <1>2 DEF EntityInv, Aiming, Aim
<1>3. AimInv(s)'
    BY <1>1, <1>2 DEF Undisturbed, AimInv, Aiming
<1>4. QED
    BY <1>1, <1>3, OnWorks

-----------------------------------------------------------------------------
(* The end of an actor's work.                                              *)

\* What EndSession does, case by case.
LEMMA EndCases ==
    ASSUME DatasetInv, NEW a \in Actors, NEW ok \in BOOLEAN,
           session[a].at # "idle", EndSession(a, ok)
    PROVE  /\ session[a].ds \in Datasets
           /\ session'[a] = Idle
           /\ a = Processor /\ ~ ok => session'[Failed(session[a].ds)] = Started("fail", session[a].ds)
           /\ \A b \in Actors :
                 \/ b = a \/ session'[b] = session[b]
                 \/ a = Processor /\ ~ ok /\ b = Failed(session[a].ds)
           /\ a # Processor => outcome' = outcome
           /\ a = Processor => outcome'[session[a].ds] = IF ok THEN "ready" ELSE "failed"
           /\ \A d \in Datasets : d # session[a].ds => outcome'[d] = outcome[d]
           /\ \A d \in Datasets : flow'[d] \in {flow[d], "ended"}
<1> PICK s : s = session[a]
    OBVIOUS
<1>1. /\ s.ds \in Datasets /\ Failed(s.ds) \in Actors /\ Failed(s.ds) # Processor
      /\ session \in [Actors -> Sessions] /\ outcome \in [Datasets -> {"none", "ready", "failed"}]
    BY ActorFacts DEF DatasetInv, TypeOK, SessionInv, Failed, Processor
<1>2. CASE a = Processor /\ ~ ok
    <2>1. /\ session' = [session EXCEPT ![a] = Idle, ![Failed(s.ds)] = Started("fail", s.ds)]
          /\ outcome' = [outcome EXCEPT ![s.ds] = "failed"]
        BY <1>2 DEF EndSession
    <2>2. QED
        BY <1>1, <1>2, <2>1, EndSessionFacts
<1>3. CASE ~ (a = Processor /\ ~ ok)
    <2>1. /\ session' = [session EXCEPT ![a] = Idle]
          /\ outcome' = IF a = Processor THEN [outcome EXCEPT ![s.ds] = "ready"] ELSE outcome
        BY <1>3 DEF EndSession
    <2>2. QED
        BY <1>1, <1>3, <2>1, EndSessionFacts
<1>4. QED
    BY <1>2, <1>3

LEMMA EndWorks ==
    ASSUME DatasetInv, \A b \in Actors : Works(b),
           NEW a \in Actors, NEW ok \in BOOLEAN,
           session[a].at # "idle", EndSession(a, ok), stale \subseteq stale',
           \A b \in Actors : b # a => Undisturbed(session[b])
    PROVE  \A b \in Actors : Works(b)'
<1> SUFFICES ASSUME NEW b \in Actors PROVE Works(b)'
    OBVIOUS
<1>1. CASE b = a
    BY <1>1, EndCases, IdleWorks
<1>2. CASE b # a /\ session'[b] = session[b]
    BY <1>2, WaitWorks
<1>3. CASE a = Processor /\ ~ ok /\ b = Failed(session[a].ds)
    <2>1. session[a].ds \in Datasets /\ session'[b] = Started("fail", session[a].ds)
        BY <1>3, EndCases
    <2>2. b # Processor
        BY <1>3 DEF Failed, Processor
    <2>3. QED
        BY <1>3, <2>1, <2>2, StartedWorks
<1>4. QED
    BY <1>1, <1>2, <1>3, EndCases

-----------------------------------------------------------------------------
(* What the rows tell.                                                      *)

\* A step that adds nothing to what is under way for a dataset.
LEMMA OutcomeKept ==
    ASSUME NEW d \in Datasets, OutcomeInv(d),
           outcome'[d] = outcome[d],
           flow'[d] \in {"new", "create"} => flow[d] \in {"new", "create"},
           session'[Processor].ds = d <=> session[Processor].ds = d,
           session'[Processor].at = "ack" => session[Processor].at = "ack",
           session'[Failed(d)] # Idle <=> session[Failed(d)] # Idle,
           stale \subseteq stale', lost \subseteq lost',
           row'[d] # NoRow /\ d \notin lost' \cup stale' =>
              /\ row[d] # NoRow /\ row'[d].status = row[d].status
              /\ Again(d) => Again(d)'
    PROVE  OutcomeInv(d)'
BY DEF OutcomeInv, Underway, Expected

\* What the invariant says of an actor at work.
LEMMA AtWork ==
    ASSUME SettledInv, NEW a \in Actors, session[a].at # "idle"
    PROVE  /\ session[a].ds \in Datasets /\ session[a].op # "none" /\ session[a] # Idle
           /\ flow[session[a].ds] \notin {"new", "create"}
           /\ a = Processor => session[a].op \in {"validating", "ready"}
           /\ a # Processor => session[a].op \notin {"validating", "ready"}
           /\ session[a].op = "fail" => a = Failed(session[a].ds)
           /\ \A d \in Datasets : a = Failed(d) => session[a].op = "fail" /\ d = session[a].ds
<1> PICK s : s = session[a]
    OBVIOUS
<1>1. SessionInv(s) /\ RoleInv(a, s) /\ s \in Sessions
    BY DEF SettledInv, DatasetInv, TypeOK
<1>2. s.ds \in Datasets /\ s # Idle
    BY <1>1 DEF SessionInv, Idle
<1>3. flow[s.ds] \notin {"new", "create"}
    BY <1>2 DEF SettledInv, DatasetInv, Fresh, Quiet
<1>4. s.op # "none"
    <2>1. CASE s.at = "find"
        BY <1>1, <2>1 DEF SessionInv
    <2>2. CASE s.at # "find"
        BY <1>1, <2>2 DEF RoleInv, Sessions, Aiming
    <2>3. QED
        BY <2>1, <2>2
<1>5. /\ a = Processor => s.op \in {"validating", "ready"}
      /\ a # Processor => s.op \notin {"validating", "ready"}
      /\ s.op = "fail" => a = Failed(s.ds)
      /\ a[1] = "failed" => s.op = "fail"
    BY <1>1, <1>4 DEF RoleInv
<1>6. ASSUME NEW d \in Datasets, a = Failed(d) PROVE s.op = "fail" /\ d = s.ds
    <2>1. a[1] = "failed"
        BY <1>6 DEF Failed
    <2>2. s.op = "fail" /\ a = Failed(s.ds)
        BY <1>5, <2>1
    <2>3. QED
        BY <1>6, <2>2 DEF Failed
<1>7. QED
    BY <1>2, <1>3, <1>4, <1>5, <1>6

\* An actor's work ends, and its row is left alone, is gone, or has got the
\* failure that the failed handler meant to write.
LEMMA EndOutcome ==
    ASSUME SettledInv, NEW a \in Actors, NEW ok \in BOOLEAN,
           session[a].at # "idle", EndSession(a, ok),
           stale \subseteq stale', lost \subseteq lost',
           a = Processor /\ ok => session[a].at = "ack",
           \A d \in Datasets :
              row'[d] # NoRow /\ d \notin lost' \cup stale' =>
                 /\ row[d] # NoRow
                 /\ \/ row'[d].status = row[d].status
                    \/ session[a].op = "fail" /\ d = session[a].ds
                 /\ Again(d) => Again(d)',
           LET d == session[a].ds IN
           session[a].op = "fail" /\ row'[d] # NoRow /\ d \notin lost' \cup stale' =>
              row'[d].status = "failed"
    PROVE  \A d \in Datasets : OutcomeInv(d)'
<1> PICK s : s = session[a]
    OBVIOUS
<1> SUFFICES ASSUME NEW d \in Datasets PROVE OutcomeInv(d)'
    OBVIOUS
<1>1. DatasetInv /\ OutcomeInv(d)
    BY DEF SettledInv
<1>2. /\ Processor \in Actors /\ Failed(d) \in Actors /\ Failed(d) # Processor
      /\ NoRow \notin Datasets
    BY ActorFacts, DatasetAssumption DEF Failed, Processor
<1>3. /\ s.ds \in Datasets /\ s # Idle /\ flow[s.ds] \notin {"new", "create"}
      /\ a = Processor => s.op # "fail"
      /\ s.op = "fail" => a = Failed(s.ds)
      /\ \A e \in Datasets : a = Failed(e) => s.op = "fail" /\ e = s.ds
    BY AtWork
<1>4. /\ session'[a] = Idle
      /\ a = Processor /\ ~ ok => session'[Failed(s.ds)] = Started("fail", s.ds)
      /\ \A b \in Actors :
            \/ b = a \/ session'[b] = session[b]
            \/ a = Processor /\ ~ ok /\ b = Failed(s.ds)
      /\ a # Processor => outcome' = outcome
      /\ a = Processor => outcome'[s.ds] = IF ok THEN "ready" ELSE "failed"
      /\ \A e \in Datasets : e # s.ds => outcome'[e] = outcome[e]
      /\ flow'[d] \in {flow[d], "ended"}
    BY <1>1, EndCases
<1>5. /\ Idle.ds = NoRow /\ Idle.at = "idle"
      /\ \A e \in Datasets : Started("fail", e) # Idle /\ (e # d => Failed(e) # Failed(d))
    <2>1. \A e \in Datasets : Started("fail", e).op = "fail"
        BY StartedType
    <2>2. QED
        BY <2>1 DEF Idle, Failed
<1>6. CASE d # s.ds \/ (a # Processor /\ s.op # "fail")
    <2>1. /\ outcome'[d] = outcome[d]
          /\ session'[Failed(d)] = session[Failed(d)]
          /\ session'[Processor].ds = d <=> session[Processor].ds = d
          /\ session'[Processor].at = "ack" => session[Processor].at = "ack"
        BY <1>2, <1>3, <1>4, <1>5, <1>6
    <2>2. QED
        BY <1>1, <1>4, <1>6, <2>1, OutcomeKept
<1>7. CASE d = s.ds /\ a = Processor /\ ~ ok
    <2>1. /\ session'[Failed(d)] # Idle /\ session'[Processor].ds # d
          /\ outcome'[d] = "failed" /\ flow'[d] \notin {"new", "create"}
        BY <1>2, <1>3, <1>4, <1>5, <1>7
    <2>2. QED
        BY <2>1 DEF OutcomeInv, Underway
<1>8. CASE d = s.ds /\ a = Processor /\ ok
    <2>1. /\ session'[Failed(d)] = session[Failed(d)] /\ session'[Processor].ds # d
          /\ outcome'[d] = "ready" /\ flow'[d] \notin {"new", "create"}
          /\ s.at = "ack" /\ s.op # "fail" /\ session[Processor] = s
        BY <1>2, <1>3, <1>4, <1>5, <1>8
    <2>2. d \notin stale' => session'[Failed(d)] = Idle
        BY <1>1, <1>8, <2>1 DEF OutcomeInv
    <2>3. row'[d] # NoRow /\ d \notin lost' \cup stale' /\ ~ Again(d)' => row'[d].status = "ready"
        BY <1>1, <1>8, <2>1 DEF OutcomeInv
    <2>4. QED
        BY <2>1, <2>2, <2>3 DEF OutcomeInv, Underway, Expected
<1>9. CASE d = s.ds /\ s.op = "fail"
    <2>1. /\ a = Failed(d) /\ session[Failed(d)] # Idle /\ session'[Failed(d)] = Idle
          /\ session'[Processor] = session[Processor] /\ outcome' = outcome
          /\ flow'[d] \notin {"new", "create"}
        BY <1>2, <1>3, <1>4, <1>9
    <2>2. d \notin stale' => outcome[d] = "failed" /\ session[Processor].ds # d
        BY <1>1, <2>1 DEF OutcomeInv
    <2>3. row'[d] # NoRow /\ d \notin lost' \cup stale' => row'[d].status = "failed"
        BY <1>9
    <2>4. QED
        BY <2>1, <2>2, <2>3 DEF OutcomeInv, Underway, Expected
<1>10. QED
    BY <1>6, <1>7, <1>8, <1>9

-----------------------------------------------------------------------------
(* The steps of an actor.                                                   *)

Told == (\A b \in Actors : Works(b)) /\ (\A d \in Datasets : OutcomeInv(d))

LEMMA ToldFacts ==
    SettledInv <=> DatasetInv /\ Told /\ \A d \in Datasets : DialogInv(d)
BY DEF SettledInv, Told, Works

\* An actor whose work ends, and a table that tells no more than before.
LEMMA EndTold ==
    ASSUME SettledInv, NEW a \in Actors, NEW ok \in BOOLEAN,
           session[a].at # "idle", EndSession(a, ok),
           stale \subseteq stale', lost \subseteq lost', row' = row,
           a = Processor /\ ok => session[a].at = "ack",
           \A d \in Datasets : Again(d) => Again(d)' \/ d \in lost',
           LET d == session[a].ds IN
           session[a].op = "fail" => row[d] = NoRow \/ d \in lost'
    PROVE  Told'
<1>1. \A b \in Actors : Undisturbed(session[b])
    BY DEF Undisturbed
<1>2. \A b \in Actors : Works(b)'
    BY <1>1, ToldFacts, EndWorks DEF Told
<1>3. \A d \in Datasets : OutcomeInv(d)'
    BY EndOutcome
<1>4. QED
    BY <1>2, <1>3 DEF Told

\* Only an actor about to add a job, or the job itself, is a validation that
\* was asked for again.
LEMMA AgainKept ==
    ASSUME SettledInv, NEW a \in Actors, NEW ok \in BOOLEAN,
           session[a].at \notin {"idle", "enqueue"}, EndSession(a, ok),
           queue' = queue, NEW d \in Datasets, Again(d)
    PROVE  Again(d)'
<1>1. CASE \E i \in 1..Len(queue) : queue[i].ds = d
    BY <1>1 DEF Again
<1>2. ASSUME NEW b \in Actors, session[b].ds = d, session[b].at = "enqueue"
      PROVE  Again(d)'
    <2>1. b # a /\ RoleInv(b, session[b])
        BY <1>2 DEF SettledInv
    <2>2. b[1] # "failed"
        BY <1>2, <2>1 DEF RoleInv
    <2>3. session'[b] = session[b]
        <3>1. DatasetInv
            BY DEF SettledInv
        <3>2. Failed(session[a].ds)[1] = "failed"
            BY DEF Failed
        <3>3. QED
            BY <2>1, <2>2, <3>1, <3>2, EndCases
    <2>4. QED
        BY <1>2, <2>3 DEF Again
<1>3. QED
    BY <1>1, <1>2 DEF Again

LEMMA OnTold ==
    ASSUME SettledInv, NEW a \in Actors, NEW t, Goto(a, t),
           session[a].at \notin {"idle", "enqueue"},
           t.ds = session[a].ds, t.at \notin {"idle", "ack"},
           RoleInv(a, t), EntityInv(t), AimInv(t)',
           UNCHANGED <<row, queue, flow, outcome, lost, stale>>
    PROVE  Told'
<1>1. /\ session' = [session EXCEPT ![a] = t] /\ session \in [Actors -> Sessions]
      /\ session'[a] = t /\ \A b \in Actors : b # a => session'[b] = session[b]
    BY DEF Goto, SettledInv, DatasetInv, TypeOK
<1>2. ASSUME NEW b \in Actors PROVE Works(b)'
    <2>1. CASE b = a
        BY <1>1, <2>1, OnWorks
    <2>2. CASE b # a
        BY <1>1, <2>2, ToldFacts, WaitWorks DEF Told, Undisturbed
    <2>3. QED
        BY <2>1, <2>2
<1>3. ASSUME NEW d \in Datasets PROVE OutcomeInv(d)'
    <2>1. OutcomeInv(d) /\ Failed(d) \in Actors /\ Processor \in Actors
        BY ActorFacts DEF SettledInv
    <2>2. session[a] # Idle /\ t # Idle
        BY DEF Idle
    <2>3. Again(d) => Again(d)'
        BY <1>1 DEF Again
    <2>4. QED
        BY <1>1, <2>1, <2>2, <2>3, OutcomeKept
<1>4. QED
    BY <1>2, <1>3 DEF Told

LEMMA FindRowTold ==
    ASSUME SettledInv, NEW a \in Actors, FindRow(a) PROVE Told'
<1> PICK s : s = session[a]
    OBVIOUS
<1> PICK e : e = [row[s.ds] EXCEPT !.status = Target(s.op, @)]
    OBVIOUS
<1> PICK t : t = [s EXCEPT !.at = IF s.op = "remove" THEN "delete" ELSE "load",
                           !.found = row[s.ds], !.ent = e]
    OBVIOUS
<1>1. /\ s \in Sessions /\ s.ds \in Datasets /\ RoleInv(a, s) /\ s.at = "find"
      /\ s.op \in {"complete", "update", "remove", "validating", "fail"}
      /\ row[s.ds] \in Rows
    BY DEF SettledInv, DatasetInv, TypeOK, SessionInv, FindRow
<1>2. /\ s.op = "update" => e = row[s.ds]
      /\ s.op = "complete" => e = [row[s.ds] EXCEPT !.status = "queued"]
      /\ s.op \in Aiming => e.status = Aim(s.op)
    BY <1>1 DEF Target, Rows, Aiming, Aim
<1>3. /\ t.ds = s.ds /\ t.op = s.op /\ t.found = row[s.ds] /\ t.ent = e
      /\ t.at = IF s.op = "remove" THEN "delete" ELSE "load"
    BY <1>1 DEF Sessions
<1>4. RoleInv(a, t)
    BY <1>1, <1>3 DEF RoleInv, Aiming
<1>5. EntityInv(t)
    BY <1>2, <1>3 DEF EntityInv
<1>6. row' = row
    BY DEF FindRow
<1>7. AimInv(t)'
    BY <1>3, <1>6 DEF AimInv
<1>8. Goto(a, t)
    BY DEF FindRow
<1>9. UNCHANGED <<row, queue, flow, outcome, lost, stale>>
    BY DEF FindRow, history
<1>10. t.at \notin {"idle", "ack"}
    BY <1>3
<1>11. QED
    BY <1>1, <1>3, <1>4, <1>5, <1>7, <1>8, <1>9, <1>10, OnTold

LEMMA LoadTold ==
    ASSUME SettledInv, NEW a \in Actors, Load(a) PROVE Told'
<1> PICK s : s = session[a]
    OBVIOUS
<1> PICK t : t = [s EXCEPT !.at = "write", !.base = row[s.ds]]
    OBVIOUS
<1>1. s \in Sessions /\ s.at = "load" /\ RoleInv(a, s) /\ EntityInv(s) /\ AimInv(s)
    BY DEF SettledInv, DatasetInv, TypeOK, Load
<1>2. /\ t.ds = s.ds /\ t.op = s.op /\ t.found = s.found /\ t.ent = s.ent
      /\ t.at = "write" /\ t.base = row[s.ds]
    BY <1>1 DEF Sessions
<1>3. RoleInv(a, t)
    BY <1>1, <1>2 DEF RoleInv
<1>4. EntityInv(t)
    BY <1>1, <1>2 DEF EntityInv
<1>5. row' = row /\ stale' = stale
    BY DEF Load, history
<1>6. AimInv(t)'
    BY <1>1, <1>2, <1>5 DEF AimInv
<1>7. Goto(a, t)
    BY DEF Load
<1>8. QED
    BY <1>1, <1>2, <1>3, <1>4, <1>6, <1>7, OnTold DEF Load, history

LEMMA ValidateTold ==
    ASSUME SettledInv, NEW a \in Actors, Validate(a) PROVE Told'
<1> PICK s : s = session[a]
    OBVIOUS
<1> PICK t : t = [s EXCEPT !.op = "ready", !.at = "load",
                           !.ent = [@ EXCEPT !.status = "ready", !.profile = TRUE]]
    OBVIOUS
<1>1. /\ s \in Sessions /\ s.at = "download" /\ RoleInv(a, s) /\ AimInv(s)
      /\ s.op = "validating" /\ s.ent \in Rows
    BY DEF SettledInv, DatasetInv, TypeOK, Validate, RoleInv, SessionInv, Sessions
<1>2. CASE Parses(s.ds)
    <2>1. /\ t.ds = s.ds /\ t.op = "ready" /\ t.at = "load"
          /\ t.ent.status = "ready"
        BY <1>1 DEF Sessions, Rows
    <2>2. a = Processor
        BY <1>1 DEF RoleInv
    <2>3. RoleInv(a, t)
        BY <2>1, <2>2 DEF RoleInv, Processor, Aiming
    <2>4. EntityInv(t)
        BY <2>1 DEF EntityInv, Aim
    <2>5. row' = row /\ stale' = stale
        BY DEF Validate
    <2>6. AimInv(t)'
        BY <1>1, <2>1, <2>5 DEF AimInv, Aiming
    <2>7. Goto(a, t) /\ UNCHANGED <<flow, outcome>>
        BY <1>2 DEF Validate
    <2>8. QED
        BY <1>1, <2>1, <2>3, <2>4, <2>6, <2>7, OnTold DEF Validate
<1>3. CASE ~ Parses(s.ds)
    <2>1. EndSession(a, FALSE)
        BY <1>3 DEF Validate
    <2>2. ASSUME NEW d \in Datasets, Again(d) PROVE Again(d)'
        BY <1>1, <2>1, <2>2, AgainKept DEF Validate
    <2>3. QED
        BY <1>1, <2>1, <2>2, EndTold DEF Validate
<1>4. QED
    BY <1>2, <1>3

LEMMA EndStepsTold ==
    ASSUME SettledInv, NEW a \in Actors,
           FindNothing(a) \/ WriteRefused(a) \/ Ack(a)
    PROVE  Told'
<1> PICK s : s = session[a]
    OBVIOUS
<1>1. /\ s.at \notin {"idle", "enqueue"} /\ RoleInv(a, s)
      /\ UNCHANGED <<row, queue, stale>>
    BY DEF SettledInv, FindNothing, WriteRefused, Ack
<1>2. a = Processor => s.op \in {"validating", "ready"}
    BY <1>1, AtWork
<1>3. CASE FindNothing(a)
    <2>1. /\ EndSession(a, s.op = "fail") /\ lost' = lost /\ row[s.ds] = NoRow
          /\ ~ (a = Processor /\ s.op = "fail")
        BY <1>2, <1>3 DEF FindNothing
    <2>2. \A d \in Datasets : Again(d) => Again(d)'
        BY <1>1, <2>1, AgainKept
    <2>3. QED
        BY <1>1, <2>1, <2>2, EndTold
<1>4. CASE WriteRefused(a)
    <2>1. /\ EndSession(a, FALSE) /\ lost \subseteq lost'
          /\ s.op = "fail" => s.ds \in lost'
        BY <1>4 DEF WriteRefused
    <2>2. \A d \in Datasets : Again(d) => Again(d)'
        BY <1>1, <2>1, AgainKept
    <2>3. QED
        BY <1>1, <2>1, <2>2, EndTold
<1>5. CASE Ack(a)
    <2>1. EndSession(a, TRUE) /\ lost' = lost /\ s.at = "ack" /\ s.op # "fail"
        BY <1>1, <1>5 DEF Ack, RoleInv
    <2>2. \A d \in Datasets : Again(d) => Again(d)'
        BY <1>1, <2>1, AgainKept
    <2>3. QED
        BY <1>1, <2>1, <2>2, EndTold
<1>6. QED
    BY <1>3, <1>4, <1>5

\* The end of a completion that was about to add its job.
LEMMA EnqueueingEnds ==
    ASSUME SettledInv, NEW a \in Actors, NEW ok \in BOOLEAN,
           session[a].at = "enqueue", EndSession(a, ok)
    PROVE  /\ a # Processor /\ session[a].op = "complete"
           /\ \A b \in Actors : b # a => session'[b] = session[b]
<1>1. session[a].op = "complete"
    BY DEF SettledInv, RoleInv
<1>2. a # Processor
    BY <1>1, AtWork
<1>3. QED
    BY <1>1, <1>2, EndCases DEF SettledInv

LEMMA EnqueueTold ==
    ASSUME SettledInv, NEW a \in Actors, Enqueue(a) PROVE Told'
<1> PICK s : s = session[a]
    OBVIOUS
<1>1. /\ s.at = "enqueue" /\ EndSession(a, TRUE)
      /\ queue' = Append(queue, [ds |-> s.ds, stalls |-> 0])
      /\ UNCHANGED <<row, stale, lost>> /\ queue \in Seq([ds : Datasets, stalls : {0, 1}])
    BY DEF Enqueue, SettledInv, DatasetInv, TypeOK
<1>2. a # Processor /\ s.op = "complete" /\ \A b \in Actors : b # a => session'[b] = session[b]
    BY <1>1, EnqueueingEnds
<1>3. /\ Len(queue) \in Nat /\ Len(queue') = Len(queue) + 1
      /\ queue'[Len(queue) + 1].ds = s.ds
      /\ \A i \in 1..Len(queue) : queue'[i] = queue[i]
    BY <1>1
<1>4. ASSUME NEW d \in Datasets, Again(d) PROVE Again(d)'
    <2>1. CASE d = s.ds
        <3>1. Len(queue) + 1 \in 1..Len(queue')
            BY <1>3
        <3>2. QED
            BY <1>3, <2>1, <3>1 DEF Again
    <2>2. CASE d # s.ds /\ \E i \in 1..Len(queue) : queue[i].ds = d
        <3>1. 1..Len(queue) \subseteq 1..Len(queue')
            BY <1>3
        <3>2. QED
            BY <1>3, <2>2, <3>1 DEF Again
    <2>3. CASE d # s.ds /\ \E b \in Actors : session[b].ds = d /\ session[b].at = "enqueue"
        BY <1>2, <2>3 DEF Again
    <2>4. QED
        BY <1>4, <2>1, <2>2, <2>3 DEF Again
<1>5. QED
    BY <1>1, <1>2, <1>4, EndTold

LEMMA RaiseTold ==
    ASSUME SettledInv, NEW a \in Actors, Raise(a) PROVE Told'
<1> PICK s : s = session[a]
    OBVIOUS
<1>1. /\ s.at # "idle" /\ EndSession(a, FALSE) /\ UNCHANGED <<row, queue, stale>>
      /\ lost' = IF Undone(s) THEN lost \cup {s.ds} ELSE lost
    BY DEF Raise
<1>2. s.op = "fail" => s.ds \in lost'
    BY <1>1 DEF Undone
<1>3. ASSUME NEW d \in Datasets, Again(d) PROVE Again(d)' \/ d \in lost'
    <2>1. CASE s.at # "enqueue"
        BY <1>1, <1>3, <2>1, AgainKept
    <2>2. CASE s.at = "enqueue"
        <3>1. s.op = "complete" /\ \A b \in Actors : b # a => session'[b] = session[b]
            BY <1>1, <2>2, EnqueueingEnds
        <3>2. s.ds \in lost'
            BY <1>1, <2>2, <3>1 DEF Undone
        <3>3. QED
            BY <1>1, <1>3, <3>1, <3>2 DEF Again
    <2>3. QED
        BY <2>1, <2>2
<1>4. QED
    BY <1>1, <1>2, <1>3, EndTold

LEMMA DeleteTold ==
    ASSUME SettledInv, NEW a \in Actors, Delete(a) PROVE Told'
<1> PICK s : s = session[a]
    OBVIOUS
<1>1. /\ s.at = "delete" /\ s.op = "remove" /\ EndSession(a, TRUE)
      /\ row' = [row EXCEPT ![s.ds] = NoRow] /\ UNCHANGED <<queue, lost, stale>>
      /\ DatasetInv /\ \A b \in Actors : Works(b)
    BY DEF Delete, SettledInv, RoleInv, Works
<1>2. s.ds \in Datasets /\ a # Processor
    BY <1>1, AtWork
<1>3. /\ row'[s.ds] = NoRow
      /\ \A d \in Datasets : d # s.ds => row'[d] = row[d]
    BY <1>1, <1>2 DEF DatasetInv, TypeOK
<1>4. \A b \in Actors : Undisturbed(session[b])
    BY <1>3 DEF Undisturbed
<1>5. \A b \in Actors : Works(b)'
    BY <1>1, <1>4, EndWorks
<1>6. \A d \in Datasets : Again(d) => Again(d)'
    BY <1>1, AgainKept
<1>7. \A d \in Datasets : OutcomeInv(d)'
    BY <1>1, <1>2, <1>3, <1>6, EndOutcome
<1>8. QED
    BY <1>5, <1>7 DEF Told

\* An actor that is not out of date writes the status that it means.
LEMMA WrittenStatus ==
    ASSUME SettledInv, NEW a \in Actors, NEW s, s = session[a],
           s.at = "write", ~ Conflict(s), NEW w, w = Written(s),
           s.ds \notin stale, ~ Outdated(s)
    PROVE  /\ row[s.ds] # NoRow
           /\ s.op = "update" => w.status = row[s.ds].status
           /\ s.op = "complete" => w.status \in {row[s.ds].status, "queued"}
           /\ s.op \in Aiming => w.status = Aim(s.op)
<1> PICK cur : cur = row[s.ds]
    OBVIOUS
<1>1. /\ s \in Sessions /\ s.ds \in Datasets /\ SessionInv(s)
      /\ EntityInv(s) /\ AimInv(s)
      /\ s.ent # NoRow /\ s.found # NoRow /\ s.found \in Rows
      /\ cur = s.found
    BY DEF SettledInv, DatasetInv, TypeOK, SessionInv, Sessions, Outdated
<1>2. s.base # NoRow
    BY <1>1 DEF Conflict
<1>3. w.status = IF s.ent.status # s.base.status THEN s.ent.status ELSE cur.status
    <2>1. w = [f \in DOMAIN cur |-> IF s.ent[f] # s.base[f] THEN s.ent[f] ELSE cur[f]]
        BY <1>1, <1>2 DEF Written
    <2>2. DOMAIN cur = {"status", "profile"}
        BY <1>1 DEF Rows
    <2>3. QED
        BY <2>1, <2>2
<1>4. s.op = "update" => s.ent = s.found
    BY <1>1 DEF EntityInv
<1>5. s.op = "complete" => s.ent.status = "queued"
    <2>1. s.op = "complete" => s.ent = [s.found EXCEPT !.status = "queued"]
        BY <1>1 DEF EntityInv
    <2>2. QED
        BY <1>1, <2>1 DEF Rows
<1>6. s.op \in Aiming =>
          /\ s.ent.status = Aim(s.op)
          /\ s.base.status = s.ent.status => s.found.status = s.ent.status
    BY <1>1, <1>2 DEF EntityInv, AimInv
<1>7. QED
    BY <1>1, <1>3, <1>4, <1>5, <1>6

\* The validator and the failed handler of a dataset are not both at work,
\* unless an outdated entity was saved or is about to be.
LEMMA OneAims ==
    ASSUME SettledInv, NEW a \in Actors, NEW b \in Actors, a # b,
           session[a].op \in Aiming, session[b].op \in Aiming,
           session[a].ds = session[b].ds
    PROVE  session[a].ds \in stale
<1>1. session[a].at # "idle" /\ session[b].at # "idle"
    BY DEF SettledInv, DatasetInv, SessionInv, Idle, Aiming
<1>2. PICK d \in Datasets : d = session[a].ds
    BY <1>1, AtWork
<1>3. \/ a = Processor /\ b = Failed(d) /\ session[b] # Idle
      \/ b = Processor /\ a = Failed(d) /\ session[a] # Idle
    BY <1>1, <1>2, AtWork DEF Aiming
<1>4. QED
    BY <1>2, <1>3 DEF SettledInv, OutcomeInv

LEMMA WriteTold ==
    ASSUME SettledInv, NEW a \in Actors, Write(a) PROVE Told'
<1> PICK s : s = session[a]
    OBVIOUS
<1> PICK w : w = Written(s)
    OBVIOUS
<1> PICK t : t = [s EXCEPT !.at = AfterWrite(s), !.found = s.ent, !.base = NoRow]
    OBVIOUS
<1>1. /\ s \in Sessions /\ s.at = "write" /\ ~ Conflict(s)
      /\ RoleInv(a, s) /\ EntityInv(s) /\ DatasetInv /\ Told
      /\ s.op \in {"complete", "update", "validating", "ready", "fail"}
    BY ToldFacts DEF SettledInv, DatasetInv, TypeOK, Write, RoleInv, Aiming
<1>2. /\ s.ds \in Datasets
      /\ s.op \in {"validating", "ready"} <=> a = Processor
      /\ \A d \in Datasets : a = Failed(d) => s.op = "fail" /\ d = s.ds
    BY <1>1, AtWork
<1>3. /\ row' = [row EXCEPT ![s.ds] = w]
      /\ stale' = IF Outdated(s) THEN stale \cup {s.ds} ELSE stale
      /\ UNCHANGED <<queue, lost>>
    BY DEF Write
<1>4. /\ row'[s.ds] = w /\ stale \subseteq stale'
      /\ \A d \in Datasets : d # s.ds => row'[d] = row[d]
    BY <1>1, <1>2, <1>3 DEF DatasetInv, TypeOK
<1>5. s.ds \notin stale' =>
        /\ row[s.ds] # NoRow
        /\ s.op = "update" => w.status = row[s.ds].status
        /\ s.op = "complete" => w.status \in {row[s.ds].status, "queued"}
        /\ s.op \in Aiming => w.status = Aim(s.op)
    BY <1>1, <1>3, WrittenStatus
<1>6. ASSUME NEW b \in Actors, b # a PROVE Undisturbed(session[b])
    <2> SUFFICES ASSUME session[b].ds \in Datasets \ stale', session[b].op \in Aiming
                 PROVE  \/ row'[session[b].ds] = NoRow
                        \/ /\ row[session[b].ds] # NoRow
                           /\ row'[session[b].ds].status = row[session[b].ds].status
                        \/ row'[session[b].ds].status = "queued"
        BY DEF Undisturbed
    <2>1. CASE session[b].ds # s.ds
        BY <1>4, <2>1
    <2>2. CASE session[b].ds = s.ds
        <3>1. s.op \notin Aiming
            BY <1>4, <1>6, <2>2, OneAims
        <3>2. s.op \in {"complete", "update"}
            BY <1>1, <3>1 DEF Aiming
        <3>3. QED
            BY <1>4, <1>5, <2>2, <3>2
    <2>3. QED
        BY <2>1, <2>2
<1>7. CASE s.op \in {"update", "fail"}
    <2>1. EndSession(a, TRUE) /\ a # Processor
        BY <1>2, <1>7 DEF Write, AfterWrite
    <2>2. \A b \in Actors : Works(b)'
        BY <1>1, <1>4, <1>6, <2>1, EndWorks DEF Told
    <2>3. \A d \in Datasets : Again(d) => Again(d)'
        BY <1>1, <1>3, <2>1, AgainKept
    <2>4. s.op = "fail" => Aim(s.op) = "failed" /\ s.op \in Aiming
        BY DEF Aim, Aiming
    <2>5. \A d \in Datasets : OutcomeInv(d)'
        <3>1. \A d \in Datasets :
                row'[d] # NoRow /\ d \notin lost' \cup stale' =>
                   /\ row[d] # NoRow
                   /\ row'[d].status = row[d].status \/ (s.op = "fail" /\ d = s.ds)
                   /\ Again(d) => Again(d)'
            BY <1>4, <1>5, <1>7, <2>3
        <3>2. s.op = "fail" /\ row'[s.ds] # NoRow /\ s.ds \notin lost' \cup stale' =>
                row'[s.ds].status = "failed"
            BY <1>4, <1>5, <2>4
        <3>3. QED
            BY <1>1, <1>3, <1>4, <2>1, <3>1, <3>2, EndOutcome
    <2>6. QED
        BY <2>2, <2>5 DEF Told
<1>8. CASE s.op \in {"complete", "validating", "ready"}
    <2>1. /\ Goto(a, t) /\ UNCHANGED <<flow, outcome>>
          /\ t.ds = s.ds /\ t.op = s.op /\ t.ent = s.ent
          /\ t.at = IF s.op = "complete" THEN "enqueue"
                    ELSE IF s.op = "validating" THEN "download" ELSE "ack"
        BY <1>1, <1>8 DEF Write, AfterWrite, Sessions
    <2>2. /\ session'[a] = t /\ \A b \in Actors : b # a => session'[b] = session[b]
        BY <1>1, <2>1 DEF Goto, DatasetInv, TypeOK
    <2>3. RoleInv(a, t)
        BY <1>1, <1>8, <2>1 DEF RoleInv
    <2>4. EntityInv(t)
        BY <1>1, <1>8, <2>1 DEF EntityInv
    <2>5. AimInv(t)'
        <3>1. s.ds \notin stale' /\ s.op = "validating" => row'[s.ds].status = "validating"
            BY <1>4, <1>5 DEF Aim, Aiming
        <3>2. QED
            BY <1>8, <2>1, <3>1 DEF AimInv
    <2>6. ASSUME NEW b \in Actors PROVE Works(b)'
        <3>1. CASE b = a
            BY <2>2, <2>3, <2>4, <2>5, <3>1, OnWorks
        <3>2. CASE b # a
            BY <1>1, <1>4, <1>6, <2>2, <3>2, WaitWorks DEF Told
        <3>3. QED
            BY <3>1, <3>2
    <2>7. ASSUME NEW d \in Datasets PROVE OutcomeInv(d)'
        <3>1. /\ OutcomeInv(d) /\ Processor \in Actors /\ Failed(d) \in Actors
              /\ a # Failed(d)
            BY <1>1, <1>2, <1>8, ActorFacts DEF Told
        <3>2. session'[Failed(d)] = session[Failed(d)]
            BY <2>2, <3>1
        <3>3. session'[Processor].ds = session[Processor].ds
            BY <2>1, <2>2, <3>1
        <3>4. CASE d # s.ds
            <4>1. Again(d) => Again(d)'
                BY <1>1, <1>3, <2>2 DEF Again
            <4>2. row'[d] = row[d] /\ lost' = lost
                BY <1>3, <1>4, <3>4
            <4>3. CASE a = Processor
                <5>1. session[Processor].ds # d /\ session'[Processor].ds # d
                    BY <3>3, <3>4, <4>3
                <5>2. QED
                    BY <1>4, <2>1, <3>1, <3>2, <4>1, <4>2, <5>1 DEF OutcomeInv, Underway, Expected
            <4>4. CASE a # Processor
                BY <1>4, <2>1, <2>2, <3>1, <3>2, <3>3, <4>1, <4>2, <4>4, OutcomeKept
            <4>5. QED
                BY <4>3, <4>4
        <3>5. CASE d = s.ds /\ s.op = "complete"
            <4>1. Again(d)'
                BY <2>1, <2>2, <3>5 DEF Again
            <4>2. QED
                BY <1>4, <2>1, <3>1, <3>2, <3>3, <4>1 DEF OutcomeInv, Underway
        <3>6. CASE d = s.ds /\ s.op \in {"validating", "ready"}
            <4>1. a = Processor /\ session'[Processor] = t
                BY <1>2, <2>2, <3>6
            <4>2. s.op = "ready" /\ d \notin stale' => row'[d].status = "ready"
                BY <1>4, <1>5, <3>6 DEF Aim, Aiming
            <4>3. s.op = "validating" => t.at # "ack"
                BY <2>1
            <4>4. QED
                BY <1>4, <2>1, <3>1, <3>2, <3>3, <3>6, <4>1, <4>2, <4>3 DEF OutcomeInv, Underway
        <3>7. QED
            BY <1>8, <3>4, <3>5, <3>6
    <2>8. QED
        BY <2>6, <2>7 DEF Told
<1>9. QED
    BY <1>1, <1>7, <1>8

-----------------------------------------------------------------------------
(* The queue, the dialog and the faults.                                    *)

LEMMA TakeTold == ASSUME SettledInv, Take PROVE Told'
<1> PICK d : d = Head(queue).ds
    OBVIOUS
<1> PICK t : t = Started("validating", d)
    OBVIOUS
<1>1. /\ queue \in Seq(Jobs) /\ queue # <<>> /\ session \in [Actors -> Sessions]
      /\ session[Processor] = Idle /\ Processor \in Actors
    BY ActorFacts DEF Take, SettledInv, DatasetInv, TypeOK, Jobs
<1>2. /\ d \in Datasets /\ queue[1].ds = d
      /\ Len(queue) \in Nat \ {0} /\ Len(Tail(queue)) = Len(queue) - 1
      /\ \A i \in 1..Len(Tail(queue)) : Tail(queue)[i] = queue[i + 1]
    <2>1. /\ Head(queue) \in Jobs /\ Head(queue) = queue[1]
          /\ Len(queue) \in Nat \ {0} /\ Len(Tail(queue)) = Len(queue) - 1
          /\ \A i \in 1..Len(Tail(queue)) : Tail(queue)[i] = queue[i + 1]
        BY <1>1, TailFacts
    <2>2. d \in Datasets /\ queue[1].ds = d
        BY <2>1 DEF Jobs
    <2>3. QED
        BY <2>1, <2>2
<1>3. /\ session' = [session EXCEPT ![Processor] = t] /\ queue' = Tail(queue)
      /\ stale' = IF session[Failed(d)] # Idle THEN stale \cup {d} ELSE stale
      /\ UNCHANGED <<row, flow, outcome, lost>>
    BY DEF Take, Goto
<1>4. /\ session'[Processor] = t
      /\ \A b \in Actors : b # Processor => session'[b] = session[b]
    BY <1>1, <1>3
<1>5. t.ds = d /\ t.at = "find" /\ Idle.ds = NoRow /\ Idle.at = "idle" /\ NoRow \notin Datasets
    BY DatasetAssumption DEF Started, Idle
<1>6. ASSUME NEW b \in Actors PROVE Works(b)'
    <2>1. CASE b = Processor
        BY <1>1, <1>2, <1>4, <2>1, StartedWorks DEF Processor
    <2>2. CASE b # Processor
        BY <1>3, <1>4, <2>2, ToldFacts, WaitWorks DEF Told, Undisturbed
    <2>3. QED
        BY <2>1, <2>2
<1>7. ASSUME NEW e \in Datasets PROVE OutcomeInv(e)'
    <2>1. /\ OutcomeInv(e) /\ Failed(e) \in Actors /\ Failed(e) # Processor
          /\ session'[Failed(e)] = session[Failed(e)]
        BY <1>4, ActorFacts DEF SettledInv, Failed, Processor
    <2>2. CASE e # d
        <3>1. ASSUME Again(e) PROVE Again(e)'
            <4>1. ASSUME NEW i \in 1..Len(queue), queue[i].ds = e PROVE Again(e)'
                <5>1. i - 1 \in 1..Len(queue') /\ queue'[i - 1] = queue[i]
                    BY <1>2, <1>3, <2>2, <4>1
                <5>2. QED
                    BY <4>1, <5>1 DEF Again
            <4>2. ASSUME NEW b \in Actors, session[b].ds = e, session[b].at = "enqueue"
                  PROVE  Again(e)'
                BY <1>1, <1>4, <1>5, <4>2 DEF Again
            <4>3. QED
                BY <3>1, <4>1, <4>2 DEF Again
        <3>2. QED
            BY <1>1, <1>3, <1>4, <1>5, <2>1, <2>2, <3>1, OutcomeKept
    <2>3. CASE e = d
        <3>1. flow[d] \notin {"new", "create"}
            <4>1. ~ Quiet(d)
                BY <1>2 DEF Quiet
            <4>2. QED
                BY <1>2, <4>1 DEF SettledInv, DatasetInv, Fresh
        <3>2. e \notin stale' => session'[Failed(e)] = Idle
            BY <1>3, <2>1, <2>3
        <3>3. QED
            BY <1>3, <1>4, <1>5, <2>3, <3>1, <3>2 DEF OutcomeInv, Underway
    <2>4. QED
        BY <2>2, <2>3
<1>8. QED
    BY <1>6, <1>7 DEF Told

LEMMA StartTold ==
    ASSUME SettledInv, NEW a \in Actors, NEW d \in Datasets,
           NEW op \in {"complete", "update", "remove"},
           session[a] = Idle, a[1] \in {"modal", "client"}, Goto(a, Started(op, d)),
           \A e \in Datasets :
              flow'[e] \in {"new", "create"} => flow[e] \in {"new", "create"},
           UNCHANGED <<row, queue, outcome, lost, stale>>
    PROVE  Told'
<1> PICK t : t = Started(op, d)
    OBVIOUS
<1>1. /\ session'[a] = t /\ \A b \in Actors : b # a => session'[b] = session[b]
    BY DEF Goto, SettledInv, DatasetInv, TypeOK
<1>2. a # Processor /\ \A e \in Datasets : a # Failed(e)
    <2>1. Processor[1] = "processor" /\ \A e \in Datasets : Failed(e)[1] = "failed"
        BY DEF Processor, Failed
    <2>2. QED
        BY <2>1
<1>3. ASSUME NEW b \in Actors PROVE Works(b)'
    <2>1. CASE b = a
        BY <1>1, <1>2, <2>1, StartedWorks
    <2>2. CASE b # a
        BY <1>1, <2>2, ToldFacts, WaitWorks DEF Told, Undisturbed
    <2>3. QED
        BY <2>1, <2>2
<1>4. ASSUME NEW e \in Datasets PROVE OutcomeInv(e)'
    <2>1. OutcomeInv(e) /\ Processor \in Actors /\ Failed(e) \in Actors
        BY ActorFacts DEF SettledInv
    <2>2. Again(e) => Again(e)'
        BY <1>1 DEF Again, Idle
    <2>3. QED
        BY <1>1, <1>2, <2>1, <2>2, OutcomeKept
<1>5. QED
    BY <1>3, <1>4 DEF Told

LEMMA PutTold == ASSUME SettledInv, NEW d \in Datasets, Put(d) PROVE Told'
<1>1. /\ session[Modal(d)] = Idle /\ Modal(d) \in Actors /\ Modal(d)[1] = "modal"
    BY ActorFacts DEF SettledInv, DialogInv, Put, Modal
<1>2. \A e \in Datasets :
        flow'[e] \in {"new", "create"} => flow[e] \in {"new", "create"}
    BY DEF Put, SettledInv, DatasetInv, TypeOK
<1>3. QED
    BY <1>1, <1>2, StartTold DEF Put, history

LEMMA CallTold ==
    ASSUME SettledInv, NEW d \in Datasets, NEW c \in Clients,
           NEW op \in {"complete", "update", "remove"}, Call(c, op, d)
    PROVE  Told'
<1>1. Client(c) \in Actors /\ Client(c)[1] = "client"
    BY ActorFacts DEF Client
<1>2. QED
    BY <1>1, StartTold DEF Call, history

\* Nobody is at work for a dataset that is quiet.
LEMMA QuietFacts ==
    ASSUME SettledInv, NEW d \in Datasets, Quiet(d)
    PROVE  /\ session[Processor].ds # d /\ session[Failed(d)] = Idle
           /\ \A b \in Actors : session[b].ds # d
<1>1. \A b \in Actors : session[b].ds # d
    BY DEF Quiet
<1>2. Failed(d) \in Actors /\ Processor \in Actors
    BY ActorFacts
<1>3. session[Failed(d)].at = "idle"
    BY <1>1, <1>2, AtWork
<1>4. QED
    BY <1>1, <1>2, <1>3 DEF SettledInv, DatasetInv, SessionInv

LEMMA CreateRowTold ==
    ASSUME SettledInv, NEW d \in Datasets, CreateRow(d) PROVE Told'
<1>1. /\ flow[d] = "create" /\ row[d] = NoRow /\ Quiet(d)
      /\ UNCHANGED <<session, queue, outcome, lost, stale>>
      /\ outcome[d] = "none"
    BY DEF CreateRow, history, SettledInv, DatasetInv, Fresh, OutcomeInv
<1>2. /\ row'[d] # NoRow => row'[d].status = "uploading"
      /\ \A e \in Datasets : e # d => row'[e] = row[e]
      /\ \A e \in Datasets : flow'[e] \in {"new", "create"} => flow[e] \in {"new", "create"}
    <2>1. /\ row \in [Datasets -> Rows \cup {NoRow}]
          /\ flow \in [Datasets -> {"new", "create", "put", "complete", "ended"}]
        BY DEF SettledInv, DatasetInv, TypeOK
    <2>2. CASE flow' = [flow EXCEPT ![d] = "ended"] /\ row' = row
        BY <1>1, <2>1, <2>2
    <2>3. CASE /\ flow' = [flow EXCEPT ![d] = "put"]
               /\ row' = [row EXCEPT ![d] = [status |-> "uploading", profile |-> FALSE]]
        <3>1. PICK w : w = [status |-> "uploading", profile |-> FALSE]
            OBVIOUS
        <3>2. w.status = "uploading"
            BY <3>1
        <3>3. row' = [row EXCEPT ![d] = w]
            BY <2>3, <3>1
        <3>4. QED
            BY <1>1, <2>1, <2>3, <3>2, <3>3
    <2>4. QED
        BY <2>2, <2>3 DEF CreateRow
<1>3. /\ session[Processor].ds # d /\ session[Failed(d)] = Idle
      /\ \A b \in Actors : session[b].ds # d
    BY <1>1, QuietFacts
<1>4. ASSUME NEW b \in Actors PROVE Works(b)'
    <2>1. Undisturbed(session[b])
        BY <1>2, <1>3 DEF Undisturbed
    <2>2. QED
        BY <1>1, <2>1, ToldFacts, WaitWorks DEF Told
<1>5. ASSUME NEW e \in Datasets PROVE OutcomeInv(e)'
    <2>1. CASE e = d
        BY <1>1, <1>2, <1>3, <2>1 DEF OutcomeInv, Expected
    <2>2. CASE e # d
        <3>1. OutcomeInv(e) /\ (Again(e) => Again(e)')
            BY <1>1 DEF SettledInv, Again
        <3>2. QED
            BY <1>1, <1>2, <2>2, <3>1, OutcomeKept
    <2>3. QED
        BY <2>1, <2>2
<1>6. QED
    BY <1>4, <1>5 DEF Told

\* The steps that only the dialog sees, and a step that nobody takes.
LEMMA DialogTold ==
    ASSUME SettledInv,
           \/ \E d \in Datasets : Submit(d) \/ FlowFails(d)
           \/ CloseDialog \/ UNCHANGED vars
    PROVE  Told'
<1>1. UNCHANGED <<row, queue, session, outcome, lost, stale>>
    BY DEF Submit, FlowFails, CloseDialog, vars, history
<1>2. \A e \in Datasets :
        flow'[e] \in {"new", "create"} => flow[e] \in {"new", "create"}
    BY DEF Submit, FlowFails, CloseDialog, vars, SettledInv, DatasetInv, TypeOK
<1>3. \A b \in Actors : Works(b)'
    BY <1>1, ToldFacts, WaitWorks DEF Told, Undisturbed
<1>4. ASSUME NEW e \in Datasets PROVE OutcomeInv(e)'
    <2>1. OutcomeInv(e) /\ (Again(e) => Again(e)')
        BY <1>1 DEF SettledInv, Again
    <2>2. QED
        BY <1>1, <1>2, <2>1, OutcomeKept
<1>5. QED
    BY <1>3, <1>4 DEF Told

LEMMA CrashTold == ASSUME SettledInv, Crash PROVE Told'
<1> PICK p : p = session[Processor]
    OBVIOUS
<1> PICK fails \in BOOLEAN : fails <=> p # Idle /\ stalls > 0
    OBVIOUS
<1>1. /\ Processor \in Actors /\ SessionInv(p) /\ queue \in Seq(Jobs)
      /\ stalls \in {0, 1} /\ outcome \in [Datasets -> {"none", "ready", "failed"}]
      /\ NoRow \notin Datasets /\ Idle.ds = NoRow /\ Idle.at = "idle"
      /\ p # Idle => p.ds \in Datasets /\ flow[p.ds] \notin {"new", "create"}
    <2>1. /\ Processor \in Actors /\ SessionInv(p) /\ queue \in Seq(Jobs)
          /\ stalls \in {0, 1} /\ outcome \in [Datasets -> {"none", "ready", "failed"}]
          /\ NoRow \notin Datasets /\ Idle.ds = NoRow /\ Idle.at = "idle"
        BY ActorFacts, DatasetAssumption DEF SettledInv, DatasetInv, TypeOK, Jobs, Idle
    <2>2. p # Idle => p.at # "idle"
        BY <2>1 DEF SessionInv
    <2>3. QED
        BY <2>1, <2>2, AtWork
<1>2. /\ \A a \in Actors :
            session'[a] = IF fails /\ a = Failed(p.ds) THEN Started("fail", p.ds) ELSE Idle
      /\ queue' = IF p # Idle /\ ~ fails THEN <<[ds |-> p.ds, stalls |-> 1]>> \o queue
                  ELSE queue
      /\ outcome' = IF fails THEN [outcome EXCEPT ![p.ds] = "failed"] ELSE outcome
      /\ lost' = lost \cup {session[a].ds : a \in {b \in Actors : Undone(session[b])}}
      /\ UNCHANGED <<row, stale>>
      /\ \A d \in Datasets : flow'[d] \in {flow[d], "ended"}
    BY <1>1 DEF Crash
<1>3. Processor # Failed(p.ds)
    BY DEF Processor, Failed
<1>4. ASSUME NEW b \in Actors PROVE Works(b)'
    <2>1. CASE fails /\ b = Failed(p.ds)
        BY <1>1, <1>2, <1>3, <2>1, StartedWorks
    <2>2. CASE ~ (fails /\ b = Failed(p.ds))
        BY <1>2, <2>2, IdleWorks
    <2>3. QED
        BY <2>1, <2>2
<1>5. ASSUME NEW d \in Datasets PROVE OutcomeInv(d)'
    <2>1. /\ OutcomeInv(d) /\ Failed(d) \in Actors
          /\ session'[Processor].ds # d
          /\ \A e : Failed(d) = Failed(e) => d = e
        BY <1>1, <1>2, <1>3, ActorFacts DEF SettledInv, Failed
    <2>2. CASE fails /\ d = p.ds
        <3>1. /\ session'[Failed(d)] = Started("fail", d) /\ Started("fail", d).op = "fail"
              /\ Idle.op = "none"
            BY <1>2, <2>1, <2>2, StartedType DEF Idle
        <3>2. outcome'[d] = "failed" /\ flow'[d] \notin {"new", "create"}
            BY <1>1, <1>2, <2>2
        <3>3. QED
            BY <2>1, <3>1, <3>2 DEF OutcomeInv, Underway
    <2>3. CASE ~ (fails /\ d = p.ds)
        <3>1. session'[Failed(d)] = Idle /\ outcome'[d] = outcome[d]
            BY <1>1, <1>2, <2>1, <2>3
        <3>2. ASSUME d \notin lost', ~ Again(d)'
              PROVE  ~ Underway(d)
            <4>1. ASSUME session[Processor].ds = d PROVE FALSE
                <5>1. p # Idle /\ ~ fails
                    BY <1>1, <2>3, <4>1
                <5>2. PICK x \in Jobs : x = [ds |-> p.ds, stalls |-> 1] /\ x.ds = d
                    <6>1. PICK x \in Jobs : x = [ds |-> p.ds, stalls |-> 1]
                        BY <1>1, <5>1 DEF Jobs
                    <6>2. p.ds = d
                        BY <4>1
                    <6>3. x.ds = d
                        BY <6>1, <6>2
                    <6>4. QED
                        BY <6>1, <6>3
                <5>3. Len(queue') = Len(queue) + 1 /\ queue'[1] = x /\ Len(queue) \in Nat
                    BY <1>1, <1>2, <5>1, <5>2, PushFacts
                <5>4. 1 \in 1..Len(queue')
                    BY <5>3
                <5>5. QED
                    BY <3>2, <5>2, <5>3, <5>4 DEF Again
            <4>2. ASSUME NEW i \in 1..Len(queue), queue[i].ds = d PROVE FALSE
                <5>1. CASE queue' = queue
                    BY <3>2, <4>2, <5>1 DEF Again
                <5>2. CASE p # Idle /\ ~ fails
                    <6>1. PICK x \in Jobs : x = [ds |-> p.ds, stalls |-> 1]
                        BY <1>1, <5>2 DEF Jobs
                    <6>2. /\ Len(queue') = Len(queue) + 1 /\ Len(queue) \in Nat
                          /\ \A j \in 2..Len(queue') : queue'[j] = queue[j - 1]
                        BY <1>1, <1>2, <5>2, <6>1, PushFacts
                    <6>3. i + 1 \in 1..Len(queue') /\ queue'[i + 1] = queue[i]
                        BY <6>2
                    <6>4. QED
                        BY <3>2, <4>2, <6>3 DEF Again
                <5>3. QED
                    BY <1>2, <5>1, <5>2
            <4>3. ASSUME NEW b \in Actors, session[b].ds = d, Undone(session[b]) PROVE FALSE
                BY <1>2, <3>2, <4>3
            <4>4. ASSUME NEW b \in Actors, session[b].ds = d, session[b].at = "enqueue"
                  PROVE  FALSE
                <5>1. session[b].op = "complete"
                    BY <4>4 DEF SettledInv, RoleInv
                <5>2. QED
                    BY <4>3, <4>4, <5>1 DEF Undone
            <4>5. session[Failed(d)] = Idle
                <5>1. CASE session[Failed(d)].at = "idle"
                    BY <2>1, <5>1 DEF SettledInv, DatasetInv, SessionInv
                <5>2. CASE session[Failed(d)].at # "idle"
                    <6>1. session[Failed(d)].op = "fail" /\ session[Failed(d)].ds = d
                        BY <2>1, <5>2, AtWork
                    <6>2. QED
                        BY <2>1, <4>3, <6>1 DEF Undone
                <5>3. QED
                    BY <5>1, <5>2
            <4>6. QED
                BY <4>1, <4>2, <4>4, <4>5 DEF Underway, Again
        <3>3. QED
            BY <1>2, <2>1, <3>1, <3>2 DEF OutcomeInv, Underway, Expected
    <2>4. QED
        BY <2>2, <2>3
<1>6. QED
    BY <1>4, <1>5 DEF Told

-----------------------------------------------------------------------------
(* The dialog waits for the completion that it asked for.                   *)

LEMMA DialogWaits ==
    ASSUME SettledInv, [Next]_vars, NEW d \in Datasets PROVE DialogInv(d)'
<1> PICK m \in Actors : m = Modal(d)
    BY ActorFacts
<1>1. /\ DialogInv(d) /\ session \in [Actors -> Sessions] /\ DatasetInv
      /\ flow \in [Datasets -> {"new", "create", "put", "complete", "ended"}]
    BY DEF SettledInv, DatasetInv, TypeOK
<1>2. /\ m[1] = "modal" /\ m # Processor
      /\ \A e : m # Failed(e)
      /\ \A e \in Datasets : m = Modal(e) => e = d
      /\ \A c \in Clients : m # Client(c)
      /\ \A a \in Actors : a[1] = "modal" /\ a # m => a[2] # d
    BY DEF Actors, Modal, Failed, Client, Processor
<1>3. ASSUME NEW a \in Actors, NEW t, Goto(a, t), session[a].at # "idle", flow' = flow
      PROVE  DialogInv(d)'
    <2>1. session'[m] = IF a = m THEN t ELSE session[m]
        BY <1>1, <1>3 DEF Goto
    <2>2. session[a] # Idle
        BY <1>3 DEF Idle
    <2>3. QED
        BY <1>1, <1>3, <2>1, <2>2 DEF DialogInv
<1>4. ASSUME NEW a \in Actors, NEW ok \in BOOLEAN, session[a].at # "idle", EndSession(a, ok)
      PROVE  DialogInv(d)'
    <2>1. CASE a = m
        <3>1. session'[m] = Idle
            BY <1>1, <1>4, <2>1, EndCases
        <3>2. QED
            BY <3>1 DEF DialogInv
    <2>2. CASE a # m
        <3>1. session[a].ds \in Datasets
            BY <1>1, <1>4, EndCases
        <3>2. session'[m] = session[m]
            BY <1>1, <1>2, <1>4, <2>2, <3>1, EndCases
        <3>3. flow'[d] = flow[d]
            BY <1>1, <1>2, <1>4, <2>2 DEF EndSession
        <3>4. QED
            BY <1>1, <3>2, <3>3 DEF DialogInv
    <2>3. QED
        BY <2>1, <2>2
<1>5. ASSUME NEW a \in Actors, Proceed(a) \/ Raise(a) PROVE DialogInv(d)'
    <2>1. session[a].at # "idle"
        BY <1>5 DEF Proceed, FindRow, FindNothing, Load, Write, WriteRefused, Delete,
                    Enqueue, Validate, Ack, Raise
    <2>2. CASE \E ok \in BOOLEAN : EndSession(a, ok)
        BY <1>4, <2>1, <2>2
    <2>3. CASE (\E t : Goto(a, t)) /\ flow' = flow
        BY <1>3, <2>1, <2>3
    <2>4. QED
        BY <1>5, <2>2, <2>3 DEF Proceed, FindRow, FindNothing, Load, Write, WriteRefused,
                                Delete, Enqueue, Validate, Ack, Raise
<1>6. CASE Take
    BY <1>1, <1>2, <1>6, ActorFacts DEF Take, Goto, DialogInv
<1>7. ASSUME NEW e \in Datasets, Submit(e) \/ CreateRow(e) \/ FlowFails(e)
      PROVE  DialogInv(d)'
    <2>1. session' = session /\ (flow[d] = "complete" => flow'[d] = "complete")
        BY <1>1, <1>7 DEF Submit, CreateRow, FlowFails
    <2>2. QED
        BY <1>1, <2>1 DEF DialogInv
<1>8. ASSUME NEW e \in Datasets, Put(e) PROVE DialogInv(d)'
    <2>1. /\ flow' = [flow EXCEPT ![e] = "complete"]
          /\ session' = [session EXCEPT ![Modal(e)] = Started("complete", e)]
        BY <1>8 DEF Put, Goto
    <2>2. CASE e = d
        BY <1>1, <2>1, <2>2 DEF DialogInv
    <2>3. CASE e # d
        <3>1. session'[m] = session[m] /\ flow'[d] = flow[d]
            BY <1>1, <1>2, <2>1, <2>3, ActorFacts
        <3>2. QED
            BY <1>1, <3>1 DEF DialogInv
    <2>4. QED
        BY <2>2, <2>3
<1>9. ASSUME NEW e \in Datasets, NEW c \in Clients,
             NEW op \in {"complete", "update", "remove"}, Call(c, op, e)
      PROVE  DialogInv(d)'
    <2>1. session'[m] = session[m] /\ flow' = flow
        BY <1>1, <1>2, <1>9, ActorFacts DEF Call, Goto
    <2>2. QED
        BY <1>1, <2>1 DEF DialogInv
<1>10. CASE Crash
    <2>1. session'[m] = Idle
        BY <1>10, <1>2 DEF Crash
    <2>2. QED
        BY <2>1 DEF DialogInv
<1>11. CASE CloseDialog \/ Rest \/ UNCHANGED vars
    <2>1. UNCHANGED <<session, flow>>
        BY <1>11 DEF CloseDialog, Rest, vars
    <2>2. QED
        BY <1>1, <2>1 DEF DialogInv
<1>12. QED
    BY <1>5, <1>6, <1>7, <1>8, <1>9, <1>10, <1>11 DEF Next

-----------------------------------------------------------------------------
THEOREM SettledInitially == Init => SettledInv
<1> SUFFICES ASSUME Init PROVE SettledInv
    OBVIOUS
<1>1. \A a \in Actors : session[a] = Idle /\ Idle.op = "none" /\ Idle.at = "idle" /\ Idle.ds = NoRow
    BY DEF Init, Idle
<1>2. ASSUME NEW a \in Actors PROVE Works(a)
    BY <1>1 DEF Works, RoleInv, EntityInv, AimInv, Aiming
<1>3. ASSUME NEW d \in Datasets PROVE OutcomeInv(d) /\ DialogInv(d)
    <2>1. Processor \in Actors /\ Failed(d) \in Actors /\ Modal(d) \in Actors
        BY ActorFacts
    <2>2. QED
        BY <1>1, <2>1 DEF Init, OutcomeInv, DialogInv
<1>4. QED
    BY <1>2, <1>3, Initially, ToldFacts DEF Told

THEOREM SettledInductive == SettledInv /\ [Next]_vars => SettledInv'
<1> SUFFICES ASSUME SettledInv, [Next]_vars PROVE SettledInv'
    OBVIOUS
<1>1. DatasetInv'
    BY Inductive DEF SettledInv
<1>2. \A d \in Datasets : DialogInv(d)'
    BY DialogWaits
<1>3. Told'
    <2>1. ASSUME NEW a \in Actors, Proceed(a) \/ Raise(a) PROVE Told'
        BY <2>1, FindRowTold, LoadTold, ValidateTold, EndStepsTold, EnqueueTold, DeleteTold,
           WriteTold, RaiseTold DEF Proceed
    <2>2. CASE Take
        BY <2>2, TakeTold
    <2>3. ASSUME NEW d \in Datasets, Submit(d) \/ CreateRow(d) \/ Put(d) \/ FlowFails(d)
          PROVE  Told'
        BY <2>3, DialogTold, CreateRowTold, PutTold
    <2>4. ASSUME NEW d \in Datasets, NEW c \in Clients,
                 NEW op \in {"complete", "update", "remove"}, Call(c, op, d)
          PROVE  Told'
        BY <2>4, CallTold
    <2>5. CASE CloseDialog \/ Rest \/ UNCHANGED vars
        BY <2>5, DialogTold DEF Rest
    <2>6. CASE Crash
        BY <2>6, CrashTold
    <2>7. QED
        BY <2>1, <2>2, <2>3, <2>4, <2>5, <2>6 DEF Next
<1>4. QED
    BY <1>1, <1>2, <1>3 DEF SettledInv, Told, Works

\* Every actor writes the status that it means unless it is out of date, and
\* a validation whose outcome is not in the row is still under way.
THEOREM SettledInvariant == Spec => []SettledInv
BY SettledInitially, SettledInductive, PTL DEF Spec

\* When nothing is under way for a dataset, its row tells how the last
\* validation ended (validation.worker.ts:33, validation.worker.ts:48).
THEOREM RowTellsOutcomeHolds == Spec => []RowTellsOutcome
<1>1. ASSUME SettledInv PROVE RowTellsOutcome
    <2> SUFFICES ASSUME NEW d \in Datasets, Quiet(d), row[d] # NoRow,
                        d \notin lost \cup stale
                 PROVE  row[d].status = Expected(d)
        BY DEF RowTellsOutcome, Expected
    <2>1. ~ Underway(d)
        BY <1>1, QuietFacts DEF Quiet, Underway, Again
    <2>2. QED
        BY <1>1, <2>1 DEF SettledInv, OutcomeInv
<1>2. QED
    BY <1>1, SettledInvariant, PTL
=============================================================================
