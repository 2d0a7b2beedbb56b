------------------------------ MODULE RunHook ------------------------------
(***************************************************************************)
(* usePipelineRun across submissions, page loads and navigation.  A mount  *)
(* of the builder has a controller for the run it follows; the POST of     *)
(* execute() has none and is answered when its mount may be gone.  All     *)
(* mounts of one page load share sessionStorage.                           *)
(*                                                                         *)
(* Following one run is RunFollower; here its events only refresh the      *)
(* stored run and end.  Run s is the one submission s creates.  What the   *)
(* user may do is what BuilderCanvas allows: a run is submitted only when  *)
(* none is active, the result is cleared only when there is one.           *)
(***************************************************************************)
EXTENDS Naturals

CONSTANTS
    MaxSubmits,  \* bound: submissions
    MaxMounts,   \* bound: mounts of the builder
    MaxLeaves    \* bound: departures to another page of the application

ASSUME HookAssumption ==
    MaxSubmits \in Nat /\ MaxMounts \in Nat /\ MaxLeaves \in Nat

Runs == 1..MaxSubmits
Mounts == 1..MaxMounts
NoRun == 0
Nobody == 0

VARIABLES
    mount,      \* the mounted builder, or Nobody
    view,       \* its run and status; "refused": a transport failure
    following,  \* the run the controller of each mount follows
    posts,      \* the mount that waits for the answer to each submission
    stored,     \* the run in sessionStorage
    submits, mounts, leaves

counters == <<submits, mounts, leaves>>
vars == <<mount, view, following, posts, stored, counters>>

Idle == [run |-> NoRun, status |-> "idle"]
Active == {"submitting", "pending", "running"}

Init ==
    /\ mount = Nobody
    /\ view = Idle
    /\ following = [m \in Mounts |-> NoRun]
    /\ posts = [s \in Runs |-> Nobody]
    /\ stored = NoRun
    /\ submits = 0 /\ mounts = 0 /\ leaves = 0

\* What mount m dispatches shows while it is mounted.
Show(m, v) == view' = IF m = mount THEN v ELSE view

Follow(m, r) == following' = [following EXCEPT ![m] = r]

MayExecute == mount # Nobody /\ view.status \notin Active

\* The controller is aborted and the request sent.
Execute ==
    /\ MayExecute
    /\ submits < MaxSubmits
    /\ submits' = submits + 1
    /\ posts' = [posts EXCEPT ![submits + 1] = mount]
    /\ view' = [run |-> NoRun, status |-> "submitting"]
    /\ Follow(mount, NoRun)
    /\ UNCHANGED <<mount, stored, mounts, leaves>>

\* Mutant: the run is stored with its first event only.
MutStoredAtAccept(s) == stored

StoredAtAccept(s) == s

\* Mutant: the accepted run is shown, but its stream is not opened.
MutFollowAccepted(m, s) == UNCHANGED following

\* startFollowing: the mount's former controller is aborted.
FollowAccepted(m, s) == Follow(m, s)

Accept(s) ==
    /\ posts[s] # Nobody
    /\ Show(posts[s], [run |-> s, status |-> "pending"])
    /\ FollowAccepted(posts[s], s)
    /\ stored' = StoredAtAccept(s)
    /\ posts' = [posts EXCEPT ![s] = Nobody]
    /\ UNCHANGED <<mount, counters>>

\* The request fails, or its answer is no acceptance: whatever is stored is
\* cleared.
Reject(s) ==
    /\ posts[s] # Nobody
    /\ Show(posts[s], [view EXCEPT !.status = "refused"])
    /\ stored' = NoRun
    /\ posts' = [posts EXCEPT ![s] = Nobody]
    /\ UNCHANGED <<mount, following, counters>>

\* An event of the run that mount m follows is shown; unless it is the
\* snapshot, which has no id, the run is stored with it.
Event(m) ==
    LET r == following[m]
    IN /\ r # NoRun
       /\ \/ UNCHANGED view
          \/ /\ view.run = r /\ view.status \in {"pending", "running"}
             /\ \E status \in {"running", "finished"} : Show(m, [view EXCEPT !.status = status])
       /\ stored' = r \/ UNCHANGED stored
       /\ UNCHANGED <<mount, following, posts, counters>>

\* clearActiveRun(runId)
Forget(r) == stored' = IF stored = r THEN NoRun ELSE stored

\* The stream ends after a verdict.
Finish(m) ==
    LET r == following[m]
    IN /\ r # NoRun
       /\ Show(m, IF view.run = r THEN [view EXCEPT !.status = "finished"] ELSE view)
       /\ Forget(r)
       /\ Follow(m, NoRun)
       /\ UNCHANGED <<mount, posts, counters>>

\* The stream is refused for good (4xx).
Refuse(m) ==
    /\ following[m] # NoRun
    /\ Show(m, [view EXCEPT !.status = "refused"])
    /\ Forget(following[m])
    /\ Follow(m, NoRun)
    /\ UNCHANGED <<mount, posts, counters>>

\* The user clears a result, or loads a demo.
Reset ==
    /\ mount # Nobody /\ view.status \notin Active
    /\ Follow(mount, NoRun)
    /\ stored' = NoRun
    /\ view' = Idle
    /\ UNCHANGED <<mount, posts, counters>>

\* The mount effect: a stored run is restored and followed.
Restore(followed) ==
    /\ mounts < MaxMounts
    /\ mounts' = mounts + 1
    /\ mount' = mounts + 1
    /\ view' = IF stored = NoRun THEN Idle ELSE [run |-> stored, status |-> "pending"]
    /\ following' = [followed EXCEPT ![mounts + 1] = stored]

Enter ==
    /\ mount = Nobody
    /\ Restore(following)
    /\ UNCHANGED <<posts, stored, submits, leaves>>

\* The effect's cleanup aborts the controller, not the request.
Leave ==
    /\ mount # Nobody
    /\ leaves < MaxLeaves
    /\ leaves' = leaves + 1
    /\ mount' = Nobody
    /\ view' = Idle
    /\ Follow(mount, NoRun)
    /\ UNCHANGED <<posts, stored, submits, mounts>>

\* The page is loaded again: only sessionStorage survives.
Reload ==
    /\ Restore([m \in Mounts |-> NoRun])
    /\ posts' = [s \in Runs |-> Nobody]
    /\ UNCHANGED <<stored, submits, leaves>>

Next ==
    \/ Execute \/ Reset \/ Enter \/ Leave \/ Reload
    \/ \E s \in Runs : Accept(s) \/ Reject(s)
    \/ \E m \in Mounts : Event(m) \/ Finish(m) \/ Refuse(m)

Spec == Init /\ [][Next]_vars

-----------------------------------------------------------------------------
(***************************************************************************)
(* Properties.                                                             *)
(***************************************************************************)

TypeOK ==
    /\ submits \in 0..MaxSubmits /\ mounts \in 0..MaxMounts /\ leaves \in 0..MaxLeaves
    /\ mount \in 0..mounts
    /\ view \in [run : Runs \cup {NoRun}, status : Active \cup {"idle", "finished", "refused"}]
    /\ following \in [Mounts -> Runs \cup {NoRun}]
    /\ posts \in [Runs -> 0..mounts]
    /\ stored \in Runs \cup {NoRun}

\* The builder that shows a run in progress follows that run and no other,
\* whichever answers, ends and navigations came in between.
ShownRunIsFollowed ==
    mount # Nobody /\ view.status \in {"pending", "running"}
        => view.run # NoRun /\ following[mount] = view.run

\* A builder that unlocked its graph after a transport failure follows no
\* run behind it: its verdict would be dropped on a view that says failed.
RefusedFollowsNothing ==
    mount # Nobody /\ view.status = "refused" => following[mount] = NoRun

\* README, section on the builder: "`activeRunId` ... được giữ trong `sessionStorage`
\* để reconnect trong cùng browser session" - the active run is the stored
\* one, so that the page finds it again.
ActiveRunIsStored ==
    mount # Nobody /\ view.status \in {"pending", "running"} => stored = view.run

\* Within one mount the promise holds, and across loads of the page.
StoredUnlessLeft == leaves = 0 => ActiveRunIsStored

\* Until the page is left, nobody but the mounted builder follows a run or
\* awaits an answer, and what it follows is what is stored.
OneMount ==
    leaves = 0 =>
        /\ mount = mounts
        /\ \A m \in Mounts : m # mount => following[m] = NoRun
        /\ \A s \in Runs : posts[s] \in {Nobody, mount}
        /\ mount # Nobody => following[mount] \in {NoRun, stored}

\* What makes them inductive: a builder that awaits an answer shows it, awaits
\* one answer only and follows nothing.
HookInv ==
    /\ TypeOK
    /\ ShownRunIsFollowed
    /\ RefusedFollowsNothing
    /\ OneMount
    /\ \A s \in Runs : s > submits => posts[s] = Nobody
    /\ \A s \in Runs : mount # Nobody /\ posts[s] = mount =>
          view.status = "submitting" /\ following[mount] = NoRun
    /\ \A s, t \in Runs : mount # Nobody /\ posts[s] = mount /\ posts[t] = mount => s = t
    /\ \A m \in Mounts : m > mounts => following[m] = NoRun

=============================================================================
