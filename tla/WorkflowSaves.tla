---------------------------- MODULE WorkflowSaves ----------------------------
(***************************************************************************)
(* Saving a workflow: the builder's save, the Next.js route behind it and  *)
(* the services of workflows and versions, beside other callers of the     *)
(* API.  A request is made once and saves a graph of its own; the service  *)
(* reads the workflow, reads the highest number and inserts the version in *)
(* three statements, without a transaction.                                *)
(***************************************************************************)
EXTENDS Naturals, FiniteSetsExt

CONSTANTS
    Saves,       \* requests of the builder's save dialog
    Creates,     \* requests of other clients: POST /workflow-versions
    MaxChanges,  \* bound: versions removed or patched, workflows removed
    MaxReloads,  \* bound: reloads of the builder's page
    MaxFaults    \* bound: calls that raise

Requests == Saves \cup Creates
Kept == "kept"

ASSUME SavesAssumption ==
    /\ Saves \cap Creates = {}
    /\ Kept \notin Requests
    /\ MaxChanges \in Nat /\ MaxReloads \in Nat /\ MaxFaults \in Nat

VARIABLES
    workflows,  \* ids of the rows of workflows; 0 is no workflow
    created,    \* how many workflows were created
    versions,   \* rows of workflow_versions; `id' is the order of insertion
    inserted,   \* how many versions were inserted
    req,        \* per request: progress, workflow, number, answer
    stored,     \* the workflow id in localStorage
    savedVersion,
    page,       \* how often the page was loaded
    changes, faults

vars == <<workflows, created, versions, inserted, req, stored, savedVersion,
          page, changes, faults>>

NotSent == [at |-> "new", wf |-> 0, n |-> 0, page |-> 0, ok |-> FALSE]

Init ==
    /\ workflows = {} /\ created = 0
    /\ versions = {} /\ inserted = 0
    /\ req = [r \in Requests |-> NotSent]
    /\ stored = 0 /\ savedVersion = 0 /\ page = 0
    /\ changes = 0 /\ faults = 0

Goto(r, s) == req' = [req EXCEPT ![r] = s]

-----------------------------------------------------------------------------
(* The builder and the route.                                              *)

\* saveWorkflow: the stored id is read when the dialog is confirmed.
Save(r) ==
    /\ req[r].at = "new"
    /\ Goto(r, [NotSent EXCEPT
        !.at = IF stored = 0 THEN "workflow" ELSE "body", !.wf = stored, !.page = page])
    /\ UNCHANGED <<workflows, created, versions, inserted, stored, savedVersion,
                   page, changes, faults>>

CreateWorkflow(r) ==
    /\ req[r].at = "workflow"
    /\ created' = created + 1
    /\ workflows' = workflows \cup {created + 1}
    /\ Goto(r, [req[r] EXCEPT !.at = "body", !.wf = created + 1])
    /\ UNCHANGED <<versions, inserted, stored, savedVersion, page, changes, faults>>

RequiredFields == {"workflowId", "version", "graphJson"}

\* What the route sends, and what a client sends that follows the contract.
SentFields(r) ==
    IF r \in Saves THEN {"workflowId", "graphJson"} ELSE RequiredFields

\* The validation pipe in front of the service.
CheckBody(r) ==
    /\ req[r].at = "body"
    /\ Goto(r, [req[r] EXCEPT
        !.at = IF RequiredFields \subseteq SentFields(r) THEN "find" ELSE "answer"])
    /\ UNCHANGED <<workflows, created, versions, inserted, stored, savedVersion,
                   page, changes, faults>>

\* The answer reaches the page that asked, if it is still loaded.
Answer(r) ==
    LET s == req[r]  heard == r \in Saves /\ s.ok /\ s.page = page IN
    /\ s.at = "answer"
    /\ Goto(r, [s EXCEPT !.at = "done"])
    /\ stored' = IF heard THEN s.wf ELSE stored
    /\ savedVersion' = IF heard THEN s.n ELSE savedVersion
    /\ UNCHANGED <<workflows, created, versions, inserted, page, changes, faults>>

Reload ==
    /\ page < MaxReloads
    /\ page' = page + 1
    /\ savedVersion' = 0
    /\ UNCHANGED <<workflows, created, versions, inserted, req, stored, changes, faults>>

-----------------------------------------------------------------------------
(* WorkflowVersionService.                                                 *)

\* Another client's request for a workflow that was there.
Create(r) ==
    /\ req[r].at = "new"
    /\ \E w \in 1..created : Goto(r, [NotSent EXCEPT !.at = "body", !.wf = w])
    /\ UNCHANGED <<workflows, created, versions, inserted, stored, savedVersion,
                   page, changes, faults>>

FindWorkflow(r) ==
    /\ req[r].at = "find"
    /\ Goto(r, [req[r] EXCEPT !.at = IF req[r].wf \in workflows
                                     THEN "number" ELSE "answer"])
    /\ UNCHANGED <<workflows, created, versions, inserted, stored, savedVersion,
                   page, changes, faults>>

Numbers(w) == {v.n : v \in {x \in versions : x.wf = w}}

NextVersion(w) == IF Numbers(w) = {} THEN 1 ELSE Max(Numbers(w)) + 1

ReadNumber(r) ==
    /\ req[r].at = "number"
    /\ Goto(r, [req[r] EXCEPT !.at = "insert", !.n = NextVersion(req[r].wf)])
    /\ UNCHANGED <<workflows, created, versions, inserted, stored, savedVersion,
                   page, changes, faults>>

\* Mutant: the migration has no UNIQUE (workflow_id, version).
MutMayInsert(s) == s.wf \in workflows

\* The foreign key and the unique constraint.
MayInsert(s) == s.wf \in workflows /\ s.n \notin Numbers(s.wf)

Insert(r) ==
    LET s == req[r] IN
    /\ s.at = "insert"
    /\ IF MayInsert(s)
       THEN /\ inserted' = inserted + 1
            /\ versions' = versions \cup
                {[id |-> inserted + 1, wf |-> s.wf, n |-> s.n, graph |-> r]}
            /\ Goto(r, [s EXCEPT !.at = "answer", !.ok = TRUE])
       ELSE /\ Goto(r, [s EXCEPT !.at = "answer"])
            /\ UNCHANGED <<versions, inserted>>
    /\ UNCHANGED <<workflows, created, stored, savedVersion, page, changes, faults>>

\* DELETE and PATCH of a version; PATCH takes a graph and a number.
ChangeVersion(v) ==
    /\ changes < MaxChanges
    /\ changes' = changes + 1
    /\ \/ versions' = versions \ {v}
       \/ \E n \in (1..(v.n + 1)) \ (Numbers(v.wf) \ {v.n}) :
            versions' = (versions \ {v}) \cup {[v EXCEPT !.graph = Kept, !.n = n]}
    /\ UNCHANGED <<workflows, created, inserted, req, stored, savedVersion, page, faults>>

\* DELETE of a workflow, which the foreign key of its versions refuses.
RemoveWorkflow(w) ==
    /\ changes < MaxChanges
    /\ Numbers(w) = {}
    /\ changes' = changes + 1
    /\ workflows' = workflows \ {w}
    /\ UNCHANGED <<created, versions, inserted, req, stored, savedVersion, page, faults>>

\* A statement or a call raises before it has an effect, or its answer is
\* lost after it had one.
Raise(r) ==
    /\ faults < MaxFaults
    /\ req[r].at \in {"workflow", "body", "find", "number", "insert", "answer"}
    /\ Goto(r, [req[r] EXCEPT !.at = "answer", !.ok = FALSE])
    /\ faults' = faults + 1
    /\ UNCHANGED <<workflows, created, versions, inserted, stored, savedVersion,
                   page, changes>>

-----------------------------------------------------------------------------
Proceed(r) ==
    CreateWorkflow(r) \/ CheckBody(r) \/ FindWorkflow(r) \/ ReadNumber(r)
        \/ Insert(r) \/ Answer(r)

Next ==
    \/ \E r \in Saves : Save(r)
    \/ \E r \in Creates : Create(r)
    \/ \E r \in Requests : Proceed(r) \/ Raise(r)
    \/ \E v \in versions : ChangeVersion(v)
    \/ \E w \in workflows : RemoveWorkflow(w)
    \/ Reload

Spec == Init /\ [][Next]_vars

-----------------------------------------------------------------------------
(* Properties.                                                             *)

\* The progress of a request.
Sendings ==
    [at : {"new", "workflow", "body", "find", "number", "insert", "answer", "done"},
     wf : 0..created, n : Nat, page : Nat, ok : BOOLEAN]

TypeOK ==
    /\ created \in Nat /\ inserted \in Nat
    /\ workflows \subseteq 1..created
    /\ \A v \in versions :
        /\ v = [id |-> v.id, wf |-> v.wf, n |-> v.n, graph |-> v.graph]
        /\ v.id \in 1..inserted /\ v.wf \in 1..created /\ v.n \in Nat \ {0}
        /\ v.graph \in Requests \cup {Kept}
    /\ req \in [Requests -> Sendings]
    /\ stored \in 0..created /\ savedVersion \in Nat /\ page \in Nat
    /\ changes \in Nat /\ faults \in Nat

\* The versions of a workflow are numbered 1, 2, ... in the order in which
\* they were inserted, however creations overlap: a creation that read a
\* number another one took is refused (workflow-version.service.ts:48).
VersionsInOrder ==
    changes = 0 =>
        \A v, x \in versions :
            /\ v.wf = x.wf /\ v.id < x.id => v.n < x.n
            /\ \A m \in 1..v.n : m \in Numbers(v.wf)

\* A number that was answered stands for the graph that was sent, and for
\* no other one, until a client deletes or patches a version.
AnsweredVersionHolds ==
    changes = 0 =>
        \A r \in Requests : req[r].ok =>
            {v.graph : v \in {x \in versions : x.wf = req[r].wf /\ x.n = req[r].n}} = {r}

\* SaveWorkflowDialog.tsx:48 announces: `The pipeline will be saved to the
\* server as a new immutable version.'
SaveMakesVersion ==
    \A r \in Saves : req[r].at = "done" /\ faults = 0 => req[r].ok

\* What a request knows: only an inserted version is answered, and a number is
\* the successor of one that is taken.
RequestInv(s) ==
    /\ s.ok => s.at \in {"answer", "done"}
    /\ s.at = "insert" =>
        /\ s.n # 0 /\ s.n <= inserted + changes + 1
        /\ changes = 0 => s.n = 1 \/ s.n - 1 \in Numbers(s.wf)

\* The inductive invariant.
SavesInv ==
    /\ TypeOK
    /\ \A v \in versions : v.n <= inserted + changes
    /\ \A r \in Requests : RequestInv(req[r])
    /\ VersionsInOrder
    /\ AnsweredVersionHolds
=============================================================================
