------------------------- MODULE WorkflowSaves_proofs -------------------------
(***************************************************************************)
(* Proof that the versions of a workflow are numbered in order and that    *)
(* an answered number keeps its graph, for any number of requests, faults  *)
(* and reloads, although the number is read and used without a             *)
(* transaction.                                                            *)
(***************************************************************************)
EXTENDS WorkflowSaves, Integers, FiniteSetTheorems, TLAPS

\* A bounded set of numbers has a maximum: the numbers above a member are
\* subsets of an interval, and one of these subsets is the smallest.
LEMMA MaxFacts ==
    ASSUME NEW S \in SUBSET Nat, S # {}, NEW b \in Nat, \A n \in S : n <= b
    PROVE  Max(S) \in S /\ \A n \in S : n <= Max(S)
<1> DEFINE Above(n) == {k \in 0..b : k > n}
           T == {Above(n) : n \in S}
           R == StrictSubsetOrdering(0..b)
<1>1. IsFiniteSet(0..b)
    BY FS_Interval
<1>2. T # {} /\ T \subseteq FiniteSubsetsOf(0..b)
  <2>1. \A n \in S : Above(n) \in SUBSET (0..b) /\ IsFiniteSet(Above(n))
      BY <1>1, FS_Subset
  <2> QED
      BY <2>1 DEF FiniteSubsetsOf
<1>3. IsWellFoundedOn(R, FiniteSubsetsOf(0..b))
    BY FS_StrictSubsetOrderingWellFounded
<1>4. \E U \in T : \A V \in T : ~ (<<V, U>> \in R)
  <2> HIDE DEF T, R
  <2> QED
      BY <1>2, <1>3, WFMin
<1>5. PICK x \in S : \A y \in S : ~ (<<Above(y), Above(x)>> \in R)
    BY <1>4
<1>6. \A y \in S : x >= y
  <2> SUFFICES ASSUME NEW y \in S, y > x PROVE FALSE
      OBVIOUS
  <2>1. Above(y) \subseteq Above(x)
      OBVIOUS
  <2>2. y \in Above(x) /\ y \notin Above(y)
      OBVIOUS
  <2>3. Above(y) \in SUBSET (0..b) /\ Above(x) \in SUBSET (0..b)
      OBVIOUS
  <2> HIDE DEF Above
  <2>4. <<Above(y), Above(x)>> \in R
      BY <2>1, <2>2, <2>3 DEF StrictSubsetOrdering
  <2> QED
      BY <2>4, <1>5
<1> QED
    BY <1>6 DEF Max

\* The number that is read is one above a number that is taken.
LEMMA NextVersionFacts ==
    ASSUME SavesInv, NEW w
    PROVE  /\ NextVersion(w) \in Nat \ {0}
           /\ NextVersion(w) <= inserted + changes + 1
           /\ NextVersion(w) = 1 \/ NextVersion(w) - 1 \in Numbers(w)
<1>1. /\ Numbers(w) \in SUBSET Nat /\ inserted + changes \in Nat
      /\ \A n \in Numbers(w) : n <= inserted + changes
    BY DEF SavesInv, TypeOK, Numbers
<1>2. CASE Numbers(w) = {}
    BY <1>1, <1>2 DEF NextVersion
<1>3. CASE Numbers(w) # {}
  <2> DEFINE m == Max(Numbers(w))
  <2>1. m \in Numbers(w)
      BY <1>1, <1>3, MaxFacts
  <2>2. NextVersion(w) = m + 1
      BY <1>3 DEF NextVersion
  <2> HIDE DEF m
  <2>3. m \in Nat /\ m <= inserted + changes /\ (m + 1) - 1 = m
      BY <1>1, <2>1
  <2> QED
      BY <1>1, <2>1, <2>2, <2>3
<1> QED
    BY <1>2, <1>3

\* Nothing is sent and nothing stored at first.
THEOREM Initially == Init => SavesInv
BY DEF Init, SavesInv, TypeOK, Sendings, NotSent, RequestInv, VersionsInOrder,
       AnsweredVersionHolds

-----------------------------------------------------------------------------
\* A request that goes on without an insertion, keeps an answer that it has.
LEMMA RequestStep ==
    ASSUME SavesInv, NEW r \in Requests, NEW s, Goto(r, s),
           s \in [at : {"new", "workflow", "body", "find", "number", "insert",
                        "answer", "done"},
                  wf : 0..created', n : Nat, page : Nat, ok : BOOLEAN],
           s.ok => req[r].ok /\ s.wf = req[r].wf /\ s.n = req[r].n,
           RequestInv(s),
           created' \in {created, created + 1}, workflows' \subseteq 1..created',
           UNCHANGED <<versions, inserted, changes>>,
           stored' \in 0..created', savedVersion' \in Nat, page' \in Nat, faults' \in Nat
    PROVE  SavesInv'
<1>1. /\ req' \in [Requests -> Sendings']
      /\ req'[r] = s /\ \A q \in Requests \ {r} : req'[q] = req[q]
  <2>1. Sendings \subseteq Sendings'
      BY DEF Sendings, SavesInv, TypeOK
  <2> QED
      BY <2>1 DEF SavesInv, TypeOK, Goto, Sendings
<1>2. TypeOK'
    BY <1>1 DEF SavesInv, TypeOK
<1>3. ASSUME NEW q \in Requests PROVE RequestInv(req[q])'
    BY <1>1 DEF SavesInv, RequestInv, Numbers
<1>4. VersionsInOrder'
    BY DEF SavesInv, VersionsInOrder, Numbers
<1>5. AnsweredVersionHolds'
    BY <1>1 DEF SavesInv, AnsweredVersionHolds
<1> QED
    BY <1>2, <1>3, <1>4, <1>5 DEF SavesInv

\* A removal or a patch leaves nothing to promise but the numbers' bounds.
LEMMA ChangeStep ==
    ASSUME SavesInv, changes' = changes + 1, TypeOK',
           \A v \in versions' : v.n <= inserted + changes + 1,
           UNCHANGED <<inserted, req>>
    PROVE  SavesInv'
<1>1. changes' # 0 /\ changes \in Nat /\ inserted \in Nat
    BY DEF SavesInv, TypeOK
<1>2. \A v \in versions' : v.n <= inserted' + changes'
    BY <1>1 DEF SavesInv, TypeOK
<1>3. ASSUME NEW q \in Requests PROVE RequestInv(req[q])'
    BY <1>1 DEF SavesInv, RequestInv, TypeOK, Sendings
<1> QED
    BY <1>1, <1>2, <1>3 DEF SavesInv, VersionsInOrder, AnsweredVersionHolds

\* The insertion: the unique constraint refuses a number that was taken since
\* it was read, and the one below it is there.
LEMMA InsertStep == ASSUME SavesInv, NEW r \in Requests, Insert(r) PROVE SavesInv'
<1> PICK s : s = req[r]
    OBVIOUS
<1>0. /\ s \in Sendings /\ s.at = "insert" /\ RequestInv(s) /\ ~ s.ok
      /\ inserted \in Nat /\ changes \in Nat
    BY DEF SavesInv, TypeOK, Insert, RequestInv
<1>1. CASE ~ MayInsert(s)
  <2> PICK t : t = [s EXCEPT !.at = "answer"]
      OBVIOUS
  <2>1. /\ Goto(r, t) /\ t.ok = s.ok /\ t.at = "answer"
        /\ UNCHANGED <<workflows, created, versions, inserted, stored, savedVersion,
                       page, changes, faults>>
      BY <1>0, <1>1 DEF Insert, Sendings
  <2>2. t \in Sendings
      BY <1>0 DEF Sendings
  <2> QED
      BY <1>0, <2>1, <2>2, RequestStep DEF RequestInv, SavesInv, TypeOK, Sendings
<1>2. CASE MayInsert(s)
  <2> PICK x : x = [id |-> inserted + 1, wf |-> s.wf, n |-> s.n, graph |-> r]
      OBVIOUS
  <2> PICK t : t = [s EXCEPT !.at = "answer", !.ok = TRUE]
      OBVIOUS
  <2>0. /\ x.id = inserted + 1 /\ x.wf = s.wf /\ x.n = s.n /\ x.graph = r
        /\ t \in Sendings /\ t.at = "answer" /\ t.ok /\ t.wf = s.wf /\ t.n = s.n
      BY <1>0 DEF Sendings
  <2>1. /\ inserted' = inserted + 1 /\ versions' = versions \cup {x}
        /\ req' = [req EXCEPT ![r] = t]
        /\ UNCHANGED <<workflows, created, stored, savedVersion, page, changes, faults>>
      BY <1>2 DEF Insert, Goto
  <2>2. /\ s.wf \in 1..created /\ s.n \in Nat \ {0} /\ s.n <= inserted + changes + 1
        /\ s.n \notin Numbers(s.wf)
        /\ changes = 0 => s.n = 1 \/ s.n - 1 \in Numbers(s.wf)
      BY <1>0, <1>2 DEF MayInsert, RequestInv, Sendings, SavesInv, TypeOK
  <2>3. \A w : Numbers(w)' = Numbers(w) \cup (IF w = s.wf THEN {s.n} ELSE {})
      BY <2>0, <2>1 DEF Numbers
  <2>4. req' \in [Requests -> Sendings'] /\ req'[r] = t
        /\ \A q \in Requests \ {r} : req'[q] = req[q]
      BY <2>0, <2>1 DEF SavesInv, TypeOK, Sendings
  <2>5. TypeOK'
    <3>1. \A v \in versions' :
            /\ v = [id |-> v.id, wf |-> v.wf, n |-> v.n, graph |-> v.graph]
            /\ v.id \in 1..inserted' /\ v.wf \in 1..created' /\ v.n \in Nat \ {0}
            /\ v.graph \in Requests \cup {Kept}
        BY <1>0, <2>0, <2>1, <2>2 DEF SavesInv, TypeOK
    <3> QED
        BY <2>1, <2>4, <3>1 DEF SavesInv, TypeOK
  <2>6. \A v \in versions' : v.n <= inserted' + changes'
      BY <1>0, <2>0, <2>1, <2>2 DEF SavesInv, TypeOK
  <2>7. ASSUME NEW q \in Requests PROVE RequestInv(req[q])'
    <3>1. CASE q = r
        BY <3>1, <2>0, <2>4 DEF RequestInv
    <3>2. CASE q # r
      <4> PICK u : u = req[q]
          OBVIOUS
      <4>1. u \in Sendings /\ RequestInv(u) /\ req'[q] = u
          BY <2>4, <3>2 DEF SavesInv, TypeOK
      <4>2. Numbers(u.wf) \subseteq Numbers(u.wf)'
          BY <2>3
      <4> QED
          BY <1>0, <2>1, <4>1, <4>2 DEF RequestInv, Sendings
    <3> QED
        BY <3>1, <3>2
  <2>8. VersionsInOrder'
    <3> SUFFICES ASSUME changes = 0, NEW v \in versions', NEW y \in versions'
                 PROVE  /\ v.wf = y.wf /\ v.id < y.id => v.n < y.n
                        /\ \A m \in 1..v.n : m \in Numbers(v.wf)'
        BY <2>1 DEF VersionsInOrder
    <3>1. \A a \in versions : \A m \in 1..a.n : m \in Numbers(a.wf)
        BY DEF SavesInv, VersionsInOrder
    <3>2. \A m \in 1..v.n : m \in Numbers(v.wf)'
      <4>1. CASE v \in versions
          BY <3>1, <4>1, <2>3
      <4>2. CASE v = x
        <5> SUFFICES ASSUME NEW m \in 1..s.n PROVE m \in Numbers(s.wf)'
            BY <2>0, <4>2
        <5>1. CASE m = s.n
            BY <5>1, <2>3
        <5>2. CASE m # s.n
          <6>1. m \in 1..(s.n - 1) /\ s.n # 1
              BY <5>2, <2>2
          <6>2. PICK a \in versions : a.wf = s.wf /\ a.n = s.n - 1
              BY <2>2, <6>1 DEF Numbers
          <6> QED
              BY <3>1, <6>1, <6>2, <2>3
        <5> QED
            BY <5>1, <5>2
      <4> QED
          BY <2>1, <4>1, <4>2
    <3>3. ASSUME v.wf = y.wf, v.id < y.id PROVE v.n < y.n
      <4>1. CASE v \in versions /\ y \in versions
          BY <3>3, <4>1 DEF SavesInv, VersionsInOrder
      <4>2. CASE v \in versions /\ y = x
        <5>1. s.n \notin 1..v.n
            BY <3>1, <3>3, <4>2, <2>0, <2>2
        <5> QED
            BY <5>1, <4>2, <2>0, <2>2 DEF SavesInv, TypeOK
      <4>3. CASE v = x
        <5>1. y.id \in 1..(inserted + 1)
            BY <1>0, <2>0, <2>1 DEF SavesInv, TypeOK
        <5> QED
            BY <5>1, <4>3, <3>3, <2>0, <1>0
      <4> QED
          BY <2>1, <4>1, <4>2, <4>3
    <3> QED
        BY <3>2, <3>3
  <2>9. AnsweredVersionHolds'
    <3> SUFFICES ASSUME changes = 0, NEW q \in Requests, req'[q].ok
                 PROVE  {v.graph : v \in {y \in versions' :
                            y.wf = req'[q].wf /\ y.n = req'[q].n}} = {q}
        BY <2>1 DEF AnsweredVersionHolds
    <3>1. CASE q = r
      <4>1. {y \in versions' : y.wf = s.wf /\ y.n = s.n} = {x}
          BY <2>0, <2>1, <2>2 DEF Numbers
      <4> QED
          BY <3>1, <4>1, <2>0, <2>4
    <3>2. CASE q # r
      <4> PICK u : u = req[q]
          OBVIOUS
      <4>1. req'[q] = u /\ u.ok
          BY <3>2, <2>4
      <4>2. {v.graph : v \in {y \in versions : y.wf = u.wf /\ y.n = u.n}} = {q}
          BY <4>1 DEF SavesInv, AnsweredVersionHolds
      <4>3. u.n \in Numbers(u.wf)
          BY <4>2 DEF Numbers
      <4>4. {y \in versions' : y.wf = u.wf /\ y.n = u.n}
                = {y \in versions : y.wf = u.wf /\ y.n = u.n}
          BY <4>3, <2>0, <2>1, <2>2
      <4> QED
          BY <4>1, <4>2, <4>4
    <3> QED
        BY <3>1, <3>2
  <2> QED
      BY <2>5, <2>6, <2>7, <2>8, <2>9 DEF SavesInv
<1> QED
    BY <1>1, <1>2

-----------------------------------------------------------------------------
\* The steps of a request that inserts nothing.
LEMMA ProceedStep == ASSUME SavesInv, NEW r \in Requests, Proceed(r) PROVE SavesInv'
<1> PICK s : s = req[r]
    OBVIOUS
<1>0. s \in Sendings /\ RequestInv(s) /\ (s.at \notin {"answer", "done"} => ~ s.ok)
    BY DEF SavesInv, TypeOK, RequestInv
<1>1. CASE CreateWorkflow(r)
  <2> PICK t : t = [s EXCEPT !.at = "body", !.wf = created + 1]
      OBVIOUS
  <2>1. /\ t.at = "body" /\ ~ t.ok
        /\ t \in [at : {"new", "workflow", "body", "find", "number", "insert",
                        "answer", "done"},
                  wf : 0..(created + 1), n : Nat, page : Nat, ok : BOOLEAN]
    <3>1. created + 1 \in 0..(created + 1) /\ s.at = "workflow"
        BY <1>1 DEF CreateWorkflow, SavesInv, TypeOK
    <3>2. t.at = "body" /\ ~ t.ok
        BY <1>0, <3>1 DEF Sendings
    <3>3. t \in [at : {"new", "workflow", "body", "find", "number", "insert",
                        "answer", "done"},
                  wf : 0..(created + 1), n : Nat, page : Nat, ok : BOOLEAN]
        BY <1>0, <3>1 DEF Sendings
    <3> QED
        BY <3>2, <3>3
  <2>2. /\ Goto(r, t) /\ created' = created + 1 /\ workflows' \subseteq 1..(created + 1)
        /\ stored' \in 0..(created + 1)
        /\ UNCHANGED <<versions, inserted, stored, savedVersion, page, changes, faults>>
      BY <1>1 DEF CreateWorkflow, SavesInv, TypeOK
  <2>3. RequestInv(t)
      BY <2>1 DEF RequestInv
  <2> QED
      BY <2>1, <2>2, <2>3, RequestStep DEF SavesInv, TypeOK
<1>2. CASE CheckBody(r) \/ FindWorkflow(r)
  <2>1. \E t \in Sendings :
            /\ t.at \in {"find", "number", "answer"} /\ ~ t.ok /\ Goto(r, t)
            /\ UNCHANGED <<workflows, created, versions, inserted, stored,
                           savedVersion, page, changes, faults>>
    <3>1. \A p \in {"find", "number", "answer"} : s.ok = FALSE =>
            [s EXCEPT !.at = p] \in Sendings /\ [s EXCEPT !.at = p].ok = FALSE
            /\ [s EXCEPT !.at = p].at = p
        BY <1>0 DEF Sendings
    <3>2. s.ok = FALSE
        BY <1>0, <1>2 DEF CheckBody, FindWorkflow, Sendings
    <3>3. /\ \E p \in {"find", "number", "answer"} : Goto(r, [s EXCEPT !.at = p])
          /\ UNCHANGED <<workflows, created, versions, inserted, stored,
                           savedVersion, page, changes, faults>>
        BY <1>2 DEF CheckBody, FindWorkflow
    <3> QED
        BY <3>1, <3>2, <3>3
  <2>2. PICK t \in Sendings :
            /\ t.at \in {"find", "number", "answer"} /\ ~ t.ok /\ Goto(r, t)
            /\ UNCHANGED <<workflows, created, versions, inserted, stored,
                           savedVersion, page, changes, faults>>
      BY <2>1
  <2>3. RequestInv(t)
      BY <2>2 DEF RequestInv
  <2> QED
      BY <2>2, <2>3, RequestStep DEF SavesInv, TypeOK, Sendings
<1>3. CASE ReadNumber(r)
  <2> PICK t : t = [s EXCEPT !.at = "insert", !.n = NextVersion(s.wf)]
      OBVIOUS
  <2>1. /\ NextVersion(s.wf) \in Nat \ {0}
        /\ NextVersion(s.wf) <= inserted + changes + 1
        /\ NextVersion(s.wf) = 1 \/ NextVersion(s.wf) - 1 \in Numbers(s.wf)
      BY NextVersionFacts
  <2>2. /\ t \in Sendings /\ t.at = "insert" /\ t.n = NextVersion(s.wf)
        /\ t.wf = s.wf /\ ~ t.ok
      BY <1>0, <1>3, <2>1 DEF ReadNumber, Sendings
  <2>3. /\ Goto(r, t)
        /\ UNCHANGED <<workflows, created, versions, inserted, stored, savedVersion,
                       page, changes, faults>>
      BY <1>3 DEF ReadNumber
  <2>4. RequestInv(t)
      BY <2>1, <2>2 DEF RequestInv
  <2> QED
      BY <2>2, <2>3, <2>4, RequestStep DEF SavesInv, TypeOK, Sendings
<1>4. CASE Insert(r)
    BY <1>4, InsertStep
<1>5. CASE Answer(r)
  <2> PICK t : t = [s EXCEPT !.at = "done"]
      OBVIOUS
  <2>1. t \in Sendings /\ t.at = "done" /\ t.ok = s.ok /\ t.wf = s.wf /\ t.n = s.n
      BY <1>0 DEF Sendings
  <2>2. /\ Goto(r, t) /\ stored' \in 0..created /\ savedVersion' \in Nat
        /\ UNCHANGED <<workflows, created, versions, inserted, page, changes, faults>>
      BY <1>0, <1>5 DEF Answer, SavesInv, TypeOK, Sendings
  <2>3. RequestInv(t)
      BY <2>1 DEF RequestInv
  <2> QED
      BY <2>1, <2>2, <2>3, RequestStep DEF SavesInv, TypeOK, Sendings
<1> QED
    BY <1>1, <1>2, <1>3, <1>4, <1>5 DEF Proceed

\* A request is sent, a call raises, or the page is loaded again.
LEMMA SendStep ==
    ASSUME SavesInv, NEW r \in Requests, Save(r) \/ Create(r) PROVE SavesInv'
<1>1. \E t \in Sendings :
        /\ t.at \in {"workflow", "body"} /\ ~ t.ok /\ Goto(r, t)
        /\ UNCHANGED <<workflows, created, versions, inserted, stored,
                       savedVersion, page, changes, faults>>
  <2>1. \A p \in {"workflow", "body"}, w \in 0..created, k \in Nat :
            [at |-> p, wf |-> w, n |-> 0, page |-> k, ok |-> FALSE] \in Sendings
      BY DEF Sendings
  <2>2. CASE Save(r)
    <3> PICK t : t = [NotSent EXCEPT
            !.at = IF stored = 0 THEN "workflow" ELSE "body", !.wf = stored, !.page = page]
        OBVIOUS
    <3>1. t \in Sendings /\ t.at \in {"workflow", "body"} /\ ~ t.ok
        BY DEF NotSent, Sendings, SavesInv, TypeOK
    <3> QED
        BY <2>2, <3>1 DEF Save
  <2>3. CASE Create(r)
    <3> PICK w \in 1..created : Goto(r, [NotSent EXCEPT !.at = "body", !.wf = w])
        BY <2>3 DEF Create
    <3> PICK t : t = [NotSent EXCEPT !.at = "body", !.wf = w]
        OBVIOUS
    <3>1. t = [at |-> "body", wf |-> w, n |-> 0, page |-> 0, ok |-> FALSE]
        BY DEF NotSent
    <3>2. w \in 0..created
        BY DEF SavesInv, TypeOK
    <3>3. t \in Sendings /\ t.at \in {"workflow", "body"} /\ ~ t.ok
      <4>1. [at |-> "body", wf |-> w, n |-> 0, page |-> 0, ok |-> FALSE] \in Sendings
          BY <2>1, <3>2
      <4>2. t.at = "body" /\ ~ t.ok
          BY DEF NotSent
      <4> QED
          BY <3>1, <4>1, <4>2
    <3> QED
        BY <2>3, <3>3 DEF Create
  <2> QED
      BY <2>2, <2>3
<1>2. PICK t \in Sendings :
        /\ t.at \in {"workflow", "body"} /\ ~ t.ok /\ Goto(r, t)
        /\ UNCHANGED <<workflows, created, versions, inserted, stored,
                       savedVersion, page, changes, faults>>
    BY <1>1
<1>3. RequestInv(t)
    BY <1>2 DEF RequestInv
<1> QED
    BY <1>2, <1>3, RequestStep DEF SavesInv, TypeOK, Sendings

LEMMA RaiseStep == ASSUME SavesInv, NEW r \in Requests, Raise(r) PROVE SavesInv'
<1> PICK t : t = [req[r] EXCEPT !.at = "answer", !.ok = FALSE]
    OBVIOUS
<1>1. t \in Sendings /\ t.at = "answer" /\ ~ t.ok
    BY DEF SavesInv, TypeOK, Sendings
<1>2. /\ Goto(r, t) /\ faults' \in Nat
      /\ UNCHANGED <<workflows, created, versions, inserted, stored, savedVersion,
                     page, changes>>
    BY DEF Raise, SavesInv, TypeOK
<1>3. RequestInv(t)
    BY <1>1 DEF RequestInv
<1> QED
    BY <1>1, <1>2, <1>3, RequestStep DEF SavesInv, TypeOK, Sendings

LEMMA ChangeVersionStep ==
    ASSUME SavesInv, NEW v \in versions, ChangeVersion(v) PROVE SavesInv'
<1>1. ASSUME NEW x \in versions'
      PROVE  /\ x = [id |-> x.id, wf |-> x.wf, n |-> x.n, graph |-> x.graph]
             /\ x.id \in 1..inserted /\ x.wf \in 1..created /\ x.n \in Nat \ {0}
             /\ x.graph \in Requests \cup {Kept}
             /\ x.n <= inserted + changes + 1
  <2>1. /\ v = [id |-> v.id, wf |-> v.wf, n |-> v.n, graph |-> v.graph]
        /\ v.id \in 1..inserted /\ v.wf \in 1..created /\ v.n \in Nat \ {0}
        /\ v.n <= inserted + changes /\ inserted \in Nat /\ changes \in Nat
      BY DEF SavesInv, TypeOK
  <2>2. CASE x \in versions
      BY <2>1, <2>2 DEF SavesInv, TypeOK
  <2>3. CASE x \notin versions
    <3>1. PICK n \in 1..(v.n + 1) : x = [v EXCEPT !.graph = Kept, !.n = n]
        BY <2>3, <1>1 DEF ChangeVersion
    <3>2. x = [id |-> v.id, wf |-> v.wf, n |-> n, graph |-> Kept]
        BY <2>1, <3>1
    <3> QED
        BY <2>1, <3>2
  <2> QED
      BY <2>2, <2>3
<1>2. /\ changes' = changes + 1
      /\ UNCHANGED <<workflows, created, inserted, req, stored, savedVersion, page, faults>>
    BY DEF ChangeVersion
<1>3. TypeOK'
  <2>1. Sendings' = Sendings
      BY <1>2 DEF Sendings
  <2>2. \A x \in versions' :
            /\ x = [id |-> x.id, wf |-> x.wf, n |-> x.n, graph |-> x.graph]
            /\ x.id \in 1..inserted' /\ x.wf \in 1..created' /\ x.n \in Nat \ {0}
            /\ x.graph \in Requests \cup {Kept}
      BY <1>1, <1>2
  <2> QED
      BY <1>2, <2>1, <2>2 DEF SavesInv, TypeOK
<1> QED
    BY <1>1, <1>2, <1>3, ChangeStep

\* What the versions promise is kept by every step.
THEOREM Inductive == SavesInv /\ [Next]_vars => SavesInv'
<1> SUFFICES ASSUME SavesInv, [Next]_vars PROVE SavesInv'
    OBVIOUS
<1>1. CASE UNCHANGED vars
    BY <1>1 DEF vars, SavesInv, TypeOK, Sendings, RequestInv, VersionsInOrder,
                AnsweredVersionHolds, Numbers
<1>2. ASSUME NEW r \in Saves, Save(r) PROVE SavesInv'
    BY <1>2, SendStep DEF Requests
<1>3. ASSUME NEW r \in Creates, Create(r) PROVE SavesInv'
    BY <1>3, SendStep DEF Requests
<1>4. ASSUME NEW r \in Requests, Proceed(r) \/ Raise(r) PROVE SavesInv'
    BY <1>4, ProceedStep, RaiseStep
<1>5. ASSUME NEW v \in versions, ChangeVersion(v) PROVE SavesInv'
    BY <1>5, ChangeVersionStep
<1>6. ASSUME NEW w \in workflows, RemoveWorkflow(w) PROVE SavesInv'
  <2>1. TypeOK'
      BY <1>6 DEF RemoveWorkflow, SavesInv, TypeOK, Sendings
  <2>2. \A v \in versions' : v.n <= inserted + changes + 1
      BY <1>6 DEF RemoveWorkflow, SavesInv, TypeOK
  <2> QED
      BY <1>6, <2>1, <2>2, ChangeStep DEF RemoveWorkflow
<1>7. CASE Reload
  <2>1. /\ UNCHANGED <<workflows, created, versions, inserted, req, stored, changes, faults>>
        /\ page' = page + 1 /\ savedVersion' = 0
      BY <1>7 DEF Reload
  <2>2. TypeOK'
      BY <2>1 DEF SavesInv, TypeOK, Sendings
  <2>3. (\A r \in Requests : RequestInv(req[r]))'
      BY <2>1 DEF SavesInv, RequestInv, Numbers
  <2>4. VersionsInOrder' /\ AnsweredVersionHolds'
      BY <2>1 DEF SavesInv, VersionsInOrder, AnsweredVersionHolds, Numbers
  <2> QED
      BY <2>1, <2>2, <2>3, <2>4 DEF SavesInv
<1> QED
    BY <1>1, <1>2, <1>3, <1>4, <1>5, <1>6, <1>7 DEF Next

\* The inductive invariant holds in every state.
THEOREM Invariant == Spec => []SavesInv
BY Initially, Inductive, PTL DEF Spec

\* Type correctness of workflows, versions and requests.
THEOREM TypeCorrect == Spec => []TypeOK
<1>1. SavesInv => TypeOK
    BY DEF SavesInv
<1> QED
    BY <1>1, Invariant, PTL

\* However creations overlap and whatever raises, the versions of a workflow are
\* numbered 1, 2, ... in the order of their insertion (findMaxVersion and save).
THEOREM VersionsInOrderHolds == Spec => []VersionsInOrder
<1>1. SavesInv => VersionsInOrder
    BY DEF SavesInv
<1> QED
    BY <1>1, Invariant, PTL

\* A number that was answered stands for the graph that was sent.
THEOREM AnsweredVersionKept == Spec => []AnsweredVersionHolds
<1>1. SavesInv => AnsweredVersionHolds
    BY DEF SavesInv
<1> QED
    BY <1>1, Invariant, PTL
=============================================================================
