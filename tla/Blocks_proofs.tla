----------------------------- MODULE Blocks_proofs -----------------------------
(***************************************************************************)
(* Proofs about pipelines, for any datasets (whatever their profiles say), *)
(* column names, texts, selections and number of blocks: contracts         *)
(* describe the values, the rules guard the executors, and no rule over    *)
(* column names refuses what would have run.                               *)
(*                                                                         *)
(* Sound(w) is the inductive part: beside describing the value, a contract *)
(* that is not in doubt knows at least one column, a target comes with a   *)
(* task, and the worker's target is one of its columns.  Each block has a  *)
(* lemma: the wire that it returns is sound if the wires it takes are.     *)
(***************************************************************************)
EXTENDS Blocks, TLAPS

Contracts ==
    [columns : (SUBSET Column(Identities)) \cup {Unknown}, target : Names \cup {None},
     role : Roles, task : Tasks \cup {None}]

Frames == UNION {[D -> ColumnTypes] : D \in SUBSET Names}

Values ==
    [frame : Frames, target : Names \cup {None}, task : Tasks \cup {None}, role : Roles]

Doubts == {"reread", "expanded", "unprofiled", "mistyped", "gappy", "outer", "retargeted"}

Wires == [api : Contracts, run : Values, doubts : SUBSET Doubts]

Sure(w) == NamesKnown(w.doubts)

\* A column of a contract is true of a column of a frame, but for the doubts.
Fits(col, type, doubts) ==
    /\ {"mistyped", "outer"} \cap doubts = {} /\ col.semantic = "numeric" => type.dtype = "number"
    /\ {"gappy", "outer"} \cap doubts = {} /\ ~ col.nullable => type.missing = {}

Tells(columns, frame, doubts) == \A col \in columns : Fits(col, frame[col.name], doubts)

Sound(w) ==
    /\ w \in Wires
    /\ w.api.columns = Unknown => "unprofiled" \in w.doubts
    /\ Sure(w) => ColumnsOf(w.api) # {}
    /\ w.api.target # None => w.api.task # None
    /\ w.run.target # None => w.run.target \in ColumnNames(w.run)
    /\ Describes(w)

\* What the model remembers of the columns is true of the contract it was
\* trained on, and so of every dataset with the same columns.
SoundModel(m) ==
    /\ m.api.task = m.run.task
    /\ Sure(m) =>
         /\ m.api.features \in SUBSET Column(Identities)
         /\ m.run.features \subseteq NamesIn(m.api.features)
         /\ m.run.task # "clustering" => m.run.target \in NamesIn(m.api.features)

BenchInv ==
    /\ bench \in [Ends -> Wires \cup {None}]
    /\ \A e \in Ends : Open(e) => Sound(bench[e])
    /\ model # None => SoundModel(model)
    /\ GuardedNeverFails
    /\ SchemaRefusalsAreReal
-----------------------------------------------------------------------------
(* Facts about contracts and values.                                       *)

LEMMA Whens == \A p \in BOOLEAN : \A c : (When(p, c) = {} <=> ~ p) /\ (p => When(p, c) = {c})
BY DEF When

LEMMA NamesInFacts ==
    ASSUME NEW S
    PROVE  /\ \A col \in S : col.name \in NamesIn(S)
           /\ \A n \in NamesIn(S) : \E col \in S : n = col.name
BY DEF NamesIn

LEMMA NoneIsApart ==
    None \notin Names /\ None \notin Tasks /\ None \notin Roles /\ None \notin Column(Identities)
    /\ None # TRUE /\ None # FALSE /\ None # "number" /\ None # "numeric"
BY TextsAssumption, BlocksAssumption

LEMMA ListsAreKnown == \A S \in SUBSET Column(Identities) : S # Unknown
BY NoneIsApart DEF Unknown

\* How the worker reads a name.
LEMMA ReadFacts ==
    /\ \A n \in Names \cup {None} : Read(n) \in Names \cup {None}
    /\ Read(None) = None
    /\ \A n \in Identifiers : Read(n) = n /\ n \in Names
    /\ "" \in Names => Read("") = None
BY TextsAssumption DEF Read

LEMMA ColumnFields ==
    ASSUME NEW col \in Column(Identities)
    PROVE  /\ col.name \in Names /\ col.primitive \in {"number", "boolean", "string"}
           /\ col.semantic \in {"numeric", "categorical", "text"} /\ col.nullable \in BOOLEAN
           /\ col.id \in Identities
BY DEF Column

LEMMA FrameFacts ==
    ASSUME NEW frame
    PROVE  frame \in Frames <=> /\ DOMAIN frame \subseteq Names
                                /\ frame \in [DOMAIN frame -> ColumnTypes]
BY DEF Frames

\* A doubt is never taken back, but for the one about the target.
LEMMA KnownBefore ==
    ASSUME NEW D, NEW E, D \ {"retargeted"} \subseteq E, NamesKnown(E)
    PROVE  NamesKnown(D)
BY DEF NamesKnown

LEMMA FitsAfter ==
    ASSUME NEW D, NEW E, D \ {"retargeted"} \subseteq E, NEW col, NEW type, Fits(col, type, D)
    PROVE  Fits(col, type, E)
BY DEF Fits

\* The columns of a contract that is in no doubt are those of the value.
LEMMA SureColumns ==
    ASSUME NEW w, Sound(w), Sure(w)
    PROVE  /\ w.api.columns \in SUBSET Column(Identities)
           /\ ColumnsOf(w.api) = w.api.columns
           /\ ColumnsOf(w.api) # {}
           /\ NamesOf(w.api) = ColumnNames(w.run)
<1>1. w.api.columns \in SUBSET Column(Identities)
    BY DEF Sound, Sure, NamesKnown, Wires, Contracts
<1> QED
    BY <1>1, ListsAreKnown DEF Sound, Sure, Describes, ColumnsOf

\* What a block has to keep: the rest of Sound(w) follows from the names and
\* kinds of the columns.
LEMMA SoundIf ==
    ASSUME NEW api \in Contracts, NEW run \in Values, NEW doubts \in SUBSET Doubts,
           api.columns = Unknown => "unprofiled" \in doubts,
           api.target # None => api.task # None,
           run.target # None => run.target \in DOMAIN run.frame,
           api.role = run.role, api.task = run.task,
           "retargeted" \notin doubts => api.target = run.target,
           NamesKnown(doubts) =>
             /\ api.columns # {}
             /\ NamesIn(api.columns) = DOMAIN run.frame
             /\ Tells(api.columns, run.frame, doubts)
    PROVE  Sound(Wire(api, run, doubts))
<1> PICK w : w = Wire(api, run, doubts)
    OBVIOUS
<1>1. w.api = api /\ w.run = run /\ w.doubts = doubts /\ w \in Wires
    BY DEF Wire, Wires
<1>2. Sure(w) => ColumnsOf(api) = api.columns
    BY <1>1 DEF Sure, NamesKnown, ColumnsOf
<1>3. Describes(w)
    <2>1. ASSUME Sure(w)
          PROVE  /\ NamesOf(w.api) = ColumnNames(w.run)
                 /\ {"mistyped", "outer"} \cap w.doubts = {} =>
                      \A n \in Numeric(w) : w.run.frame[n].dtype = "number"
                 /\ {"gappy", "outer"} \cap w.doubts = {} =>
                      \A n \in Complete(w) : w.run.frame[n].missing = {}
        BY <1>1, <1>2, <2>1 DEF Sure, NamesOf, NamesIn, ColumnNames, Numeric, Complete, Tells, Fits
    <2> QED
        BY <1>1, <2>1 DEF Describes, Sure
<1>4. Sure(w) => ColumnsOf(w.api) # {}
    BY <1>1, <1>2 DEF Sure
<1> QED
    BY <1>1, <1>3, <1>4 DEF Sound, ColumnNames

\* Conversely, what a sound wire gives to the block that takes it.
LEMMA SoundGives ==
    ASSUME NEW w, Sound(w)
    PROVE  /\ w.api \in Contracts /\ w.run \in Values /\ w.doubts \in SUBSET Doubts
           /\ w.api.columns = Unknown => "unprofiled" \in w.doubts
           /\ w.api.target # None => w.api.task # None
           /\ w.run.target # None => w.run.target \in DOMAIN w.run.frame
           /\ w.api.role = w.run.role /\ w.api.task = w.run.task
           /\ "retargeted" \notin w.doubts => w.api.target = w.run.target
           /\ Sure(w) =>
                /\ w.api.columns \in SUBSET Column(Identities)
                /\ w.api.columns # {}
                /\ NamesIn(w.api.columns) = DOMAIN w.run.frame
                /\ Tells(w.api.columns, w.run.frame, w.doubts)
<1>1. w \in Wires
    BY DEF Sound
<1>2. w.api \in Contracts /\ w.run \in Values /\ w.doubts \in SUBSET Doubts
    BY <1>1 DEF Wires
<1>3. /\ w.api.columns = Unknown => "unprofiled" \in w.doubts
      /\ w.api.target # None => w.api.task # None
      /\ w.run.target # None => w.run.target \in DOMAIN w.run.frame
    BY DEF Sound, ColumnNames
<1>4. /\ w.api.role = w.run.role /\ w.api.task = w.run.task
      /\ "retargeted" \notin w.doubts => w.api.target = w.run.target
    BY DEF Sound, Describes
<1>5. ASSUME Sure(w)
      PROVE  /\ w.api.columns \in SUBSET Column(Identities)
             /\ w.api.columns # {}
             /\ NamesIn(w.api.columns) = DOMAIN w.run.frame
    BY <1>5, SureColumns DEF NamesOf, ColumnNames
<1>6. ASSUME Sure(w), NEW col \in w.api.columns
      PROVE  Fits(col, w.run.frame[col.name], w.doubts)
    <2>1. ColumnsOf(w.api) = w.api.columns
        BY <1>6, SureColumns
    <2>2. /\ {"mistyped", "outer"} \cap w.doubts = {} =>
               \A n \in Numeric(w) : w.run.frame[n].dtype = "number"
          /\ {"gappy", "outer"} \cap w.doubts = {} =>
               \A n \in Complete(w) : w.run.frame[n].missing = {}
        BY <1>6 DEF Sound, Describes, Sure
    <2> QED
        BY <1>6, <2>1, <2>2 DEF Numeric, Complete, NamesIn, Fits
<1> QED
    BY <1>2, <1>3, <1>4, <1>5, <1>6 DEF Tells

-----------------------------------------------------------------------------
(* The blocks with one input.                                              *)

\* columnUpdates changes fields, never names.
UpdateOf(c, names, u, d) ==
    /\ d \in Contracts
    /\ d.target = c.target /\ d.role = c.role /\ d.task = c.task
    /\ c.columns = Unknown <=> d.columns = Unknown
    /\ c.columns \in SUBSET Column(Identities) =>
         /\ d.columns \in SUBSET Column(Identities)
         /\ c.columns # {} => d.columns # {}
         /\ NamesIn(d.columns) = NamesIn(c.columns)
         /\ \A k \in d.columns : \E col \in c.columns :
              /\ k.name = col.name
              /\ col.name \notin names => k = col
              /\ col.name \in names => k.semantic = Or(u.semantic, col.semantic)

LEMMA UpdatedFacts ==
    ASSUME NEW c \in Contracts, NEW names, NEW id \in Identities, NEW u,
           u.primitive \in {None, "number"}, u.semantic \in {None, "numeric"},
           u.nullable \in {None} \cup BOOLEAN,
           NEW d, d = Updated(c, names, u, id)
    PROVE  UpdateOf(c, names, u, d)
<1> DEFINE New(col) == IF col.name \notin names THEN col ELSE
            [col EXCEPT !.primitive = Or(u.primitive, @), !.semantic = Or(u.semantic, @),
                        !.nullable = Or(u.nullable, @), !.id = id]
<1>1. d = [c EXCEPT !.columns = IF @ = Unknown THEN @ ELSE {New(col) : col \in @}]
    BY DEF Updated
<1>2. ASSUME NEW col \in Column(Identities)
      PROVE  /\ New(col) \in Column(Identities)
             /\ New(col).name = col.name
             /\ col.name \notin names => New(col) = col
             /\ col.name \in names => New(col).semantic = Or(u.semantic, col.semantic)
    BY DEF Column, Or
<1>3. /\ d.target = c.target /\ d.role = c.role /\ d.task = c.task
      /\ d.columns = IF c.columns = Unknown THEN c.columns ELSE {New(col) : col \in c.columns}
    BY <1>1 DEF Contracts
<1> HIDE DEF New
<1>4. ASSUME c.columns \in SUBSET Column(Identities)
      PROVE  /\ d.columns \in SUBSET Column(Identities)
             /\ c.columns # {} => d.columns # {}
             /\ NamesIn(d.columns) = NamesIn(c.columns)
             /\ \A k \in d.columns : \E col \in c.columns :
                  /\ k.name = col.name
                  /\ col.name \notin names => k = col
                  /\ col.name \in names => k.semantic = Or(u.semantic, col.semantic)
    <2>1. d.columns = {New(col) : col \in c.columns}
        BY <1>3, <1>4, ListsAreKnown
    <2>2. \A k \in d.columns : \E col \in c.columns : k = New(col)
        BY <2>1
    <2>3. \A col \in c.columns : New(col) \in d.columns /\ col \in Column(Identities)
        BY <2>1, <1>4
    <2>4. \A col \in c.columns : New(col).name = col.name
        BY <1>2, <1>4
    <2>5. NamesIn(d.columns) = NamesIn(c.columns)
        BY <2>2, <2>3, <2>4 DEF NamesIn
    <2> QED
        BY <1>2, <2>2, <2>3, <2>5
<1>5. d \in Contracts
    BY <1>1, <1>3, <1>4 DEF Contracts
<1>6. c.columns = Unknown <=> d.columns = Unknown
    BY <1>3, <1>4, ListsAreKnown DEF Contracts
<1> QED
    BY <1>3, <1>4, <1>5, <1>6 DEF UpdateOf

\* Replacing columns of a frame.
LEMMA WithColumnsFacts ==
    ASSUME NEW v \in Values, NEW S, NEW type \in ColumnTypes
    PROVE  /\ WithColumns(v, S, type) \in Values
           /\ WithColumns(v, S, type).target = v.target
           /\ WithColumns(v, S, type).task = v.task
           /\ WithColumns(v, S, type).role = v.role
           /\ WithColumns(v, S, type).frame = [n \in DOMAIN v.frame |-> IF n \in S THEN type ELSE v.frame[n]]
<1> PICK r : r = WithColumns(v, S, type)
    OBVIOUS
<1>1. /\ r.target = v.target /\ r.task = v.task /\ r.role = v.role
      /\ r.frame = [n \in DOMAIN v.frame |-> IF n \in S THEN type ELSE v.frame[n]]
    BY DEF Values, WithColumns
<1>2. v.frame \in [DOMAIN v.frame -> ColumnTypes] /\ DOMAIN v.frame \subseteq Names
    BY FrameFacts DEF Values
<1>3. r.frame \in [DOMAIN v.frame -> ColumnTypes] /\ DOMAIN r.frame = DOMAIN v.frame
    BY <1>1, <1>2
<1>4. r.frame \in Frames
    BY <1>2, <1>3, FrameFacts
<1>5. r \in Values
    BY <1>1, <1>4 DEF Values, WithColumns
<1> QED
    BY <1>1, <1>5

LEMMA NumberType == Number \in ColumnTypes /\ Number.dtype = "number" /\ Number.missing = {}
BY DEF Number, ColumnTypes

\* The doubts of a block that reads the columns S.
LEMMA RereadFacts ==
    ASSUME NEW S
    PROVE  Reread(S) \in SUBSET Doubts /\ Misread(S) \in SUBSET Doubts
           /\ ("reread" \notin Reread(S) => S.names = S.parsed /\ Reread(S) = {})
           /\ ("reread" \notin Misread(S) => S.items = S.parsed /\ Misread(S) = {})
           /\ "retargeted" \notin Reread(S)
BY DEF Reread, Misread, When, Doubts

\* A block that updates the columns S of the contract and the frame.
LEMMA UpdateSound ==
    ASSUME NEW w, Sound(w), NEW S, NEW u, NEW id \in Identities, NEW run \in Values,
           NEW doubts \in SUBSET Doubts, w.doubts \subseteq doubts,
           "reread" \notin doubts => S.names = S.parsed,
           "retargeted" \in doubts => "retargeted" \in w.doubts,
           u.primitive \in {None, "number"}, u.semantic \in {None, "numeric"},
           u.nullable \in {None} \cup BOOLEAN,
           run.target = w.run.target, run.task = w.run.task, run.role = w.run.role,
           DOMAIN run.frame = DOMAIN w.run.frame,
           \A n \in DOMAIN w.run.frame : n \notin S.parsed => run.frame[n] = w.run.frame[n],
           \A n \in DOMAIN w.run.frame : n \in S.parsed =>
               /\ "gappy" \notin doubts => run.frame[n].missing = {}
               /\ \/ run.frame[n].dtype = "number"
                  \/ run.frame[n].dtype = w.run.frame[n].dtype /\ u.semantic = None
    PROVE  Sound(Wire(Updated(w.api, S.names, u, id), run, doubts))
<1> PICK api : api = Updated(w.api, S.names, u, id)
    OBVIOUS
<1>1. /\ w.api \in Contracts /\ w.run \in Values /\ w.doubts \in SUBSET Doubts
      /\ w.api.columns = Unknown => "unprofiled" \in w.doubts
      /\ w.api.target # None => w.api.task # None
      /\ w.run.target # None => w.run.target \in DOMAIN w.run.frame
      /\ w.api.role = w.run.role /\ w.api.task = w.run.task
      /\ "retargeted" \notin w.doubts => w.api.target = w.run.target
    BY SoundGives
<1>0. UpdateOf(w.api, S.names, u, api)
    BY <1>1, UpdatedFacts
<1>2. /\ api \in Contracts
      /\ api.target = w.api.target /\ api.role = w.api.role /\ api.task = w.api.task
      /\ w.api.columns = Unknown <=> api.columns = Unknown
    BY <1>0 DEF UpdateOf
<1>3. w.doubts \ {"retargeted"} \subseteq doubts
    OBVIOUS
<1>4. ASSUME NamesKnown(doubts)
      PROVE  /\ api.columns # {}
             /\ NamesIn(api.columns) = DOMAIN run.frame
             /\ Tells(api.columns, run.frame, doubts)
    <2>1. Sure(w) /\ S.names = S.parsed
        BY <1>3, <1>4, KnownBefore DEF Sure, NamesKnown
    <2>2. /\ w.api.columns \in SUBSET Column(Identities)
          /\ w.api.columns # {}
          /\ NamesIn(w.api.columns) = DOMAIN w.run.frame
          /\ Tells(w.api.columns, w.run.frame, w.doubts)
        BY <2>1, SoundGives
    <2>3. /\ api.columns # {}
          /\ NamesIn(api.columns) = NamesIn(w.api.columns)
          /\ \A k \in api.columns : \E col \in w.api.columns :
               /\ k.name = col.name
               /\ col.name \notin S.names => k = col
               /\ col.name \in S.names => k.semantic = Or(u.semantic, col.semantic)
        BY <1>0, <2>2 DEF UpdateOf
    <2>4. ASSUME NEW k \in api.columns
          PROVE  Fits(k, run.frame[k.name], doubts)
        <3>1. PICK col \in w.api.columns :
                 /\ k.name = col.name
                 /\ col.name \notin S.parsed => k = col
                 /\ col.name \in S.parsed => k.semantic = Or(u.semantic, col.semantic)
            BY <2>1, <2>3, <2>4
        <3>2. col.name \in DOMAIN w.run.frame
            BY <2>2, NamesInFacts
        <3>3. Fits(col, w.run.frame[col.name], doubts)
            BY <1>3, <2>2, FitsAfter DEF Tells
        <3>4. CASE col.name \notin S.parsed
            BY <3>1, <3>2, <3>3, <3>4
        <3>5. CASE col.name \in S.parsed
            BY <3>1, <3>2, <3>3, <3>5 DEF Or, Fits
        <3> QED
            BY <3>4, <3>5
    <2> QED
        BY <2>2, <2>3, <2>4 DEF Tells
<1> QED
    BY <1>1, <1>2, <1>4, SoundIf

\* Normalize Columns leaves numbers without gaps.
LEMMA NormalizeSound ==
    ASSUME NEW w, Sound(w), NEW S, NEW id \in Identities
    PROVE  Sound(Wire(Updated(w.api, S.names, [NoUpdate EXCEPT !.primitive = "number"], id),
                      Normalized(w.run, S.parsed), w.doubts \cup Reread(S)))
<1> PICK u : u = [NoUpdate EXCEPT !.primitive = "number"]
    OBVIOUS
<1>1. u.primitive = "number" /\ u.semantic = None /\ u.nullable = None
    BY DEF NoUpdate
<1>2. w.run \in Values /\ w.doubts \in SUBSET Doubts
    BY SoundGives
<1> PICK run : run = Normalized(w.run, S.parsed)
    OBVIOUS
<1>3. /\ run \in Values /\ run.target = w.run.target /\ run.task = w.run.task
      /\ run.role = w.run.role
      /\ run.frame = [n \in DOMAIN w.run.frame |-> IF n \in S.parsed THEN Number ELSE w.run.frame[n]]
    BY <1>2, NumberType, WithColumnsFacts DEF Normalized
<1>4. /\ DOMAIN run.frame = DOMAIN w.run.frame
      /\ \A n \in DOMAIN w.run.frame : n \notin S.parsed => run.frame[n] = w.run.frame[n]
      /\ \A n \in DOMAIN w.run.frame : n \in S.parsed => run.frame[n] = Number
    BY <1>3
<1> PICK doubts : doubts = w.doubts \cup Reread(S)
    OBVIOUS
<1>5. /\ doubts \in SUBSET Doubts /\ w.doubts \subseteq doubts
      /\ "reread" \notin doubts => S.names = S.parsed
      /\ "retargeted" \in doubts => "retargeted" \in w.doubts
    BY <1>2, RereadFacts
<1> QED
    BY <1>1, <1>3, <1>4, <1>5, NumberType, UpdateSound

\* Label encoding too.
LEMMA LabelSound ==
    ASSUME NEW w, Sound(w), NEW S, NEW id \in Identities
    PROVE  Sound(Wire(Updated(w.api, S.names, [NoUpdate EXCEPT !.primitive = "number", !.semantic = "numeric"], id),
                      WithColumns(w.run, S.parsed, Number), w.doubts \cup Reread(S)))
<1> PICK u : u = [NoUpdate EXCEPT !.primitive = "number", !.semantic = "numeric"]
    OBVIOUS
<1>1. u.primitive = "number" /\ u.semantic = "numeric" /\ u.nullable = None
    BY DEF NoUpdate
<1>2. w.run \in Values /\ w.doubts \in SUBSET Doubts
    BY SoundGives
<1> PICK run : run = WithColumns(w.run, S.parsed, Number)
    OBVIOUS
<1>3. /\ run \in Values /\ run.target = w.run.target /\ run.task = w.run.task
      /\ run.role = w.run.role
      /\ run.frame = [n \in DOMAIN w.run.frame |-> IF n \in S.parsed THEN Number ELSE w.run.frame[n]]
    BY <1>2, NumberType, WithColumnsFacts
<1>4. /\ DOMAIN run.frame = DOMAIN w.run.frame
      /\ \A n \in DOMAIN w.run.frame : n \notin S.parsed => run.frame[n] = w.run.frame[n]
      /\ \A n \in DOMAIN w.run.frame : n \in S.parsed => run.frame[n] = Number
    BY <1>3
<1> PICK doubts : doubts = w.doubts \cup Reread(S)
    OBVIOUS
<1>5. /\ doubts \in SUBSET Doubts /\ w.doubts \subseteq doubts
      /\ "reread" \notin doubts => S.names = S.parsed
      /\ "retargeted" \in doubts => "retargeted" \in w.doubts
    BY <1>2, RereadFacts
<1> QED
    BY <1>1, <1>3, <1>4, <1>5, NumberType, UpdateSound

\* Impute fills the gaps of NaN; a gap of None leaves the contract in doubt.
LEMMA ImputeSound ==
    ASSUME NEW w, Sound(w), NEW S, NEW id \in Identities, NEW strategy, NEW doubts,
           doubts = w.doubts \cup Reread(S) \cup
                    When(\E n \in S.parsed \cap ColumnNames(w.run) :
                           "None" \in w.run.frame[n].missing, "gappy")
    PROVE  Sound(Wire(Updated(w.api, S.names, [NoUpdate EXCEPT !.nullable = FALSE], id),
                      Imputed(w.run, S.parsed, strategy), doubts))
<1> PICK u : u = [NoUpdate EXCEPT !.nullable = FALSE]
    OBVIOUS
<1>1. u.primitive = None /\ u.semantic = None /\ u.nullable = FALSE
    BY DEF NoUpdate
<1>2. w.run \in Values /\ w.doubts \in SUBSET Doubts
    BY SoundGives
<1>3. w.run.frame \in [DOMAIN w.run.frame -> ColumnTypes] /\ DOMAIN w.run.frame \subseteq Names
    BY <1>2, FrameFacts DEF Values
<1> DEFINE Filled(t) == [dtype |-> IF strategy \in {"Mean", "Median"} THEN "number" ELSE t.dtype,
                         missing |-> t.missing \ {"NaN"}]
<1> PICK run : run = Imputed(w.run, S.parsed, strategy)
    OBVIOUS
<1>4. run = [w.run EXCEPT !.frame = [n \in DOMAIN w.run.frame |->
                 IF n \in S.parsed THEN Filled(w.run.frame[n]) ELSE w.run.frame[n]]]
    BY DEF Imputed
<1>5. \A t \in ColumnTypes : /\ Filled(t) \in ColumnTypes
                             /\ Filled(t).dtype \in {"number", t.dtype}
                             /\ "None" \notin t.missing => Filled(t).missing = {}
    BY DEF ColumnTypes
<1> HIDE DEF Filled
<1>6. /\ run.target = w.run.target /\ run.task = w.run.task /\ run.role = w.run.role
      /\ run.frame = [n \in DOMAIN w.run.frame |->
                        IF n \in S.parsed THEN Filled(w.run.frame[n]) ELSE w.run.frame[n]]
    BY <1>2, <1>4 DEF Values
<1>7. /\ DOMAIN run.frame = DOMAIN w.run.frame
      /\ run.frame \in [DOMAIN w.run.frame -> ColumnTypes]
      /\ \A n \in DOMAIN w.run.frame :
           /\ n \notin S.parsed => run.frame[n] = w.run.frame[n]
           /\ n \in S.parsed => run.frame[n] = Filled(w.run.frame[n])
    BY <1>3, <1>5, <1>6
<1>8. run \in Values
    <2>1. run.frame \in Frames
        BY <1>3, <1>7, FrameFacts
    <2> QED
        BY <1>2, <1>4, <1>6, <2>1 DEF Values
<1>9. /\ doubts \in SUBSET Doubts /\ w.doubts \subseteq doubts
      /\ "reread" \notin doubts => S.names = S.parsed
      /\ "retargeted" \in doubts => "retargeted" \in w.doubts
    BY <1>2, RereadFacts DEF When, Doubts
<1>10. ASSUME NEW n \in DOMAIN w.run.frame, n \in S.parsed
       PROVE  /\ "gappy" \notin doubts => run.frame[n].missing = {}
              /\ run.frame[n].dtype \in {"number", w.run.frame[n].dtype}
    <2>1. w.run.frame[n] \in ColumnTypes /\ run.frame[n] = Filled(w.run.frame[n])
        BY <1>3, <1>7, <1>10
    <2>2. "gappy" \notin doubts => "None" \notin w.run.frame[n].missing
        BY <1>10 DEF When, ColumnNames
    <2> QED
        BY <1>5, <2>1, <2>2
<1> QED
    BY <1>1, <1>6, <1>7, <1>8, <1>9, <1>10, UpdateSound

\* One-hot encoding keeps the target, and leaves the contract in doubt.
LEMMA OneHotSound ==
    ASSUME NEW w, Sound(w), NEW S, NEW id \in Identities,
           UnmetEncode(w.run, S.parsed, "OneHot") = {}, NEW doubts,
           doubts = w.doubts \cup Reread(S) \cup {"expanded"}
    PROVE  Sound(Wire(Updated(w.api, S.names, [NoUpdate EXCEPT !.primitive = "number", !.semantic = "numeric"], id),
                      Encoded(w.run, S.parsed, "OneHot"), doubts))
<1>0. PICK u : u = [NoUpdate EXCEPT !.primitive = "number", !.semantic = "numeric"]
    OBVIOUS
<1>1. /\ u.primitive \in {None, "number"} /\ u.semantic \in {None, "numeric"}
      /\ u.nullable \in {None} \cup BOOLEAN
    BY <1>0 DEF NoUpdate
<1>2. /\ w.api \in Contracts /\ w.run \in Values /\ w.doubts \in SUBSET Doubts
      /\ w.api.columns = Unknown => "unprofiled" \in w.doubts
      /\ w.api.target # None => w.api.task # None
      /\ w.run.target # None => w.run.target \in DOMAIN w.run.frame
      /\ w.api.role = w.run.role /\ w.api.task = w.run.task
      /\ "retargeted" \notin w.doubts => w.api.target = w.run.target
    BY SoundGives
<1> PICK api : api = Updated(w.api, S.names, u, id)
    OBVIOUS
<1>3. UpdateOf(w.api, S.names, u, api)
    BY <1>1, <1>2, UpdatedFacts
<1>4. /\ doubts \in SUBSET Doubts /\ ~ NamesKnown(doubts) /\ w.doubts \subseteq doubts
      /\ "retargeted" \in doubts <=> "retargeted" \in w.doubts
    BY <1>2, RereadFacts DEF Doubts, NamesKnown
<1>5. w.run.frame \in [DOMAIN w.run.frame -> ColumnTypes] /\ DOMAIN w.run.frame \subseteq Names
    BY <1>2, FrameFacts DEF Values
<1> PICK P : P = S.parsed
    OBVIOUS
<1>6. P \subseteq DOMAIN w.run.frame /\ w.run.target \notin P
    BY DEF UnmetEncode, RequireNoNulls, RequireColumns, ColumnNames, When
<1>7. HotNames(P) \subseteq Names
    BY <1>5, <1>6, BlocksAssumption DEF HotNames
<1> PICK run : run = Encoded(w.run, P, "OneHot")
    OBVIOUS
<1>8. /\ run.target = w.run.target /\ run.task = w.run.task /\ run.role = w.run.role
      /\ run.frame = [n \in (DOMAIN w.run.frame \ P) \cup HotNames(P) |->
                        IF n \in HotNames(P) THEN Number ELSE w.run.frame[n]]
    BY <1>2 DEF Encoded, Values
<1>9. /\ DOMAIN run.frame = (DOMAIN w.run.frame \ P) \cup HotNames(P)
      /\ run.frame \in [DOMAIN run.frame -> ColumnTypes]
    BY <1>5, <1>8, NumberType
<1>10. run.frame \in Frames
    BY <1>5, <1>7, <1>9, FrameFacts
<1>11. run \in Values
    BY <1>2, <1>10 DEF Encoded, Values
<1>12. run.target # None => run.target \in DOMAIN run.frame
    BY <1>2, <1>6, <1>8, <1>9
<1>13. /\ api \in Contracts
       /\ api.target = w.api.target /\ api.role = w.api.role /\ api.task = w.api.task
       /\ api.columns = Unknown => "unprofiled" \in doubts
    BY <1>2, <1>3, <1>4 DEF UpdateOf
<1> QED
    BY <1>0, <1>2, <1>4, <1>8, <1>11, <1>12, <1>13, SoundIf

LEMMA EncodeSound ==
    ASSUME NEW w, Sound(w), NEW S, NEW id \in Identities, NEW strategy \in {"Label", "OneHot"},
           UnmetEncode(w.run, S.parsed, strategy) = {}
    PROVE  Sound(Wire(Updated(w.api, S.names, [NoUpdate EXCEPT !.primitive = "number", !.semantic = "numeric"], id),
                      Encoded(w.run, S.parsed, strategy),
                      w.doubts \cup Reread(S) \cup When(strategy = "OneHot", "expanded")))
<1> PICK doubts : doubts = w.doubts \cup Reread(S) \cup When(strategy = "OneHot", "expanded")
    OBVIOUS
<1>1. CASE strategy = "OneHot"
    <2>1. doubts = w.doubts \cup Reread(S) \cup {"expanded"}
        BY <1>1 DEF When
    <2> QED
        BY <1>1, <2>1, OneHotSound
<1>2. CASE strategy = "Label"
    <2>1. Encoded(w.run, S.parsed, strategy) = WithColumns(w.run, S.parsed, Number)
        BY <1>2 DEF Encoded
    <2>2. doubts = w.doubts \cup Reread(S)
        BY <1>2 DEF When
    <2> QED
        BY <2>1, <2>2, LabelSound
<1> QED
    BY <1>1, <1>2

\* Feature Select requires the columns it keeps, at least one, and the target.
LEMMA SelectSound ==
    ASSUME NEW w, Sound(w), NEW S, UnmetSelect(w.run, S.parsed) = {}
    PROVE  Sound(Wire(Kept(w.api, S.names), Selected(w.run, S.parsed), w.doubts \cup Reread(S)))
<1>1. /\ w.api \in Contracts /\ w.run \in Values /\ w.doubts \in SUBSET Doubts
      /\ w.api.columns = Unknown => "unprofiled" \in w.doubts
      /\ w.api.target # None => w.api.task # None
      /\ w.run.target # None => w.run.target \in DOMAIN w.run.frame
      /\ w.api.role = w.run.role /\ w.api.task = w.run.task
      /\ "retargeted" \notin w.doubts => w.api.target = w.run.target
    BY SoundGives
<1> PICK P : P = S.parsed
    OBVIOUS
<1>2. P # {} /\ P \subseteq DOMAIN w.run.frame /\ (w.run.target # None => w.run.target \in P)
    BY DEF UnmetSelect, RequireNames, RequireColumns, ColumnNames, When
<1>3. w.run.frame \in [DOMAIN w.run.frame -> ColumnTypes] /\ DOMAIN w.run.frame \subseteq Names
    BY <1>1, FrameFacts DEF Values
<1> PICK run : run = Selected(w.run, P)
    OBVIOUS
<1>4. /\ run.target = w.run.target /\ run.task = w.run.task /\ run.role = w.run.role
      /\ run.frame = [n \in P |-> w.run.frame[n]]
    BY <1>1 DEF Selected, Values
<1>5. DOMAIN run.frame = P /\ run.frame \in [DOMAIN run.frame -> ColumnTypes]
    BY <1>2, <1>3, <1>4
<1>6. run \in Values
    <2>1. run.frame \in Frames
        BY <1>2, <1>3, <1>5, FrameFacts
    <2> QED
        BY <1>1, <2>1 DEF Selected, Values
<1> PICK api : api = Kept(w.api, S.names)
    OBVIOUS
<1>7. /\ api.target = w.api.target /\ api.role = w.api.role /\ api.task = w.api.task
      /\ api.columns = IF w.api.columns = Unknown THEN Unknown
                       ELSE {col \in w.api.columns : col.name \in S.names}
    BY <1>1 DEF Kept, Contracts
<1>8. api \in Contracts
    BY <1>1, <1>7 DEF Kept, Contracts
<1>9. api.columns = Unknown => w.api.columns = Unknown
    BY <1>1, <1>7, ListsAreKnown DEF Contracts
<1> PICK doubts : doubts = w.doubts \cup Reread(S)
    OBVIOUS
<1>10. /\ doubts \in SUBSET Doubts /\ w.doubts \subseteq doubts
       /\ w.doubts \ {"retargeted"} \subseteq doubts
       /\ "reread" \notin doubts => S.names = P
    BY <1>1, RereadFacts
<1>11. ASSUME NamesKnown(doubts)
       PROVE  /\ api.columns # {}
              /\ NamesIn(api.columns) = DOMAIN run.frame
              /\ Tells(api.columns, run.frame, doubts)
    <2>1. Sure(w) /\ S.names = P
        BY <1>10, <1>11, KnownBefore DEF Sure, NamesKnown
    <2>2. /\ w.api.columns \in SUBSET Column(Identities)
          /\ NamesIn(w.api.columns) = DOMAIN w.run.frame
          /\ Tells(w.api.columns, w.run.frame, w.doubts)
        BY <2>1, SoundGives
    <2>3. api.columns = {col \in w.api.columns : col.name \in P}
        BY <1>7, <2>1, <2>2, ListsAreKnown
    <2>4. \A n \in P : \E col \in w.api.columns : n = col.name
        BY <1>2, <2>2, NamesInFacts
    <2>5. NamesIn(api.columns) = P
        BY <2>3, <2>4 DEF NamesIn
    <2>6. api.columns # {}
        BY <1>2, <2>3, <2>4
    <2>7. ASSUME NEW col \in api.columns PROVE Fits(col, run.frame[col.name], doubts)
        <3>1. col \in w.api.columns /\ run.frame[col.name] = w.run.frame[col.name]
            BY <1>4, <2>3
        <3> QED
            BY <1>10, <2>2, <3>1, FitsAfter DEF Tells
    <2> QED
        BY <1>5, <2>5, <2>6, <2>7 DEF Tells
<1> QED
    BY <1>1, <1>2, <1>4, <1>5, <1>6, <1>7, <1>8, <1>9, <1>10, <1>11, SoundIf

LEMMA WithFieldsFacts ==
    ASSUME NEW c \in Contracts, NEW target \in Names \cup {None}, NEW role \in Roles \cup {None},
           NEW task \in Tasks \cup {None}, NEW d, d = WithFields(c, target, role, task)
    PROVE  /\ d \in Contracts
           /\ d.columns = c.columns /\ d.target = Or(target, c.target)
           /\ d.role = Or(role, c.role) /\ d.task = Or(task, c.task)
BY DEF WithFields, Contracts, Or

\* Select Target requires the column that a supervised task predicts.
LEMMA TargetSound ==
    ASSUME NEW w, Sound(w), NEW task \in Tasks, NEW target \in Names \cup {None},
           UnmetTarget(w.run, task, Read(target)) = {},
           NEW api, api = WithFields(w.api, target, None, task),
           NEW run, run = Targeted(w.run, task, Read(target))
    PROVE  Sound(Wire(api, run, (w.doubts \ {"retargeted"}) \cup
                                When(api.target # run.target, "retargeted")))
<1>1. /\ w.api \in Contracts /\ w.run \in Values /\ w.doubts \in SUBSET Doubts
      /\ w.api.columns = Unknown => "unprofiled" \in w.doubts
      /\ w.api.role = w.run.role
    BY SoundGives
<1>2. /\ api \in Contracts /\ api.columns = w.api.columns
      /\ api.role = w.api.role /\ api.task = task /\ task # None
    BY <1>1, WithFieldsFacts, NoneIsApart DEF Or
<1>3. /\ run \in Values /\ run.frame = w.run.frame /\ run.role = w.run.role /\ run.task = task
      /\ run.target = IF task = "clustering" THEN None ELSE Read(target)
    BY <1>1, ReadFacts DEF Targeted, Values
<1>4. run.target # None => run.target \in DOMAIN run.frame
    BY <1>3 DEF UnmetTarget, Tasks, ColumnNames, When
<1>5. PICK doubts : doubts = (w.doubts \ {"retargeted"}) \cup
                             When(api.target # run.target, "retargeted")
    OBVIOUS
<1>6. /\ doubts \in SUBSET Doubts /\ w.doubts \ {"retargeted"} \subseteq doubts
      /\ "retargeted" \notin doubts => api.target = run.target
    BY <1>1, <1>5 DEF Doubts, When
<1>7. ASSUME NamesKnown(doubts)
      PROVE  /\ api.columns # {}
             /\ NamesIn(api.columns) = DOMAIN run.frame
             /\ Tells(api.columns, run.frame, doubts)
    <2>1. Sure(w)
        BY <1>6, <1>7, KnownBefore DEF Sure
    <2>2. /\ api.columns # {} /\ NamesIn(api.columns) = DOMAIN run.frame
          /\ Tells(api.columns, run.frame, w.doubts)
        BY <1>2, <1>3, <2>1, SoundGives
    <2> QED
        BY <1>6, <2>2, FitsAfter DEF Tells
<1>8. api.columns = Unknown => "unprofiled" \in doubts
    BY <1>1, <1>2, <1>6
<1> QED
    BY <1>1, <1>2, <1>3, <1>4, <1>5, <1>6, <1>7, <1>8, SoundIf

\* Rename Column gives the column, and the worker's target, a name that is free.
LEMMA RenameSound ==
    ASSUME NEW w, Sound(w), NEW from \in Names, NEW to \in Names, NEW id \in Identities,
           UnmetRename(w.run, Read(from), Read(to)) = {}
    PROVE  Sound(Wire(RenamedColumns(w.api, from, to, id), RenamedFrame(w.run, Read(from), Read(to)),
                      w.doubts \cup MisreadName(from) \cup MisreadName(to) \cup
                      When(Read(from) = w.run.target, "retargeted")))
<1>1. /\ w.api \in Contracts /\ w.run \in Values /\ w.doubts \in SUBSET Doubts
      /\ w.api.columns = Unknown => "unprofiled" \in w.doubts
      /\ w.api.target # None => w.api.task # None
      /\ w.run.target # None => w.run.target \in DOMAIN w.run.frame
      /\ w.api.role = w.run.role /\ w.api.task = w.run.task
      /\ "retargeted" \notin w.doubts => w.api.target = w.run.target
    BY SoundGives
<1> PICK old : old = Read(from)
    OBVIOUS
<1> PICK new : new = Read(to)
    OBVIOUS
<1>2. old \in DOMAIN w.run.frame /\ new \notin DOMAIN w.run.frame \ {old} /\ new \in Names
    <2>1. old # None /\ new # None
        BY DEF UnmetRename, When
    <2> QED
        BY <2>1, ReadFacts DEF UnmetRename, RequireColumns, ColumnNames, When
<1>3. w.run.frame \in [DOMAIN w.run.frame -> ColumnTypes] /\ DOMAIN w.run.frame \subseteq Names
    BY <1>1, FrameFacts DEF Values
<1>4. PICK run : run = RenamedFrame(w.run, old, new)
    OBVIOUS
<1>5. /\ run.task = w.run.task /\ run.role = w.run.role
      /\ run.target = IF w.run.target = old THEN new ELSE w.run.target
      /\ run.frame = [n \in (DOMAIN w.run.frame \ {old}) \cup {new} |->
                        IF n = new THEN w.run.frame[old] ELSE w.run.frame[n]]
    BY <1>1, <1>4 DEF RenamedFrame, Values
<1>6. /\ DOMAIN run.frame = (DOMAIN w.run.frame \ {old}) \cup {new}
      /\ run.frame \in [DOMAIN run.frame -> ColumnTypes]
    BY <1>2, <1>3, <1>5
<1>7. run \in Values
    <2>1. run.frame \in Frames
        BY <1>2, <1>3, <1>6, FrameFacts
    <2> QED
        BY <1>1, <1>2, <1>4, <2>1 DEF RenamedFrame, Values
<1>8. run.target # None => run.target \in DOMAIN run.frame
    BY <1>1, <1>5, <1>6
<1> DEFINE New(col) == [col EXCEPT !.name = IF @ = from THEN to ELSE @, !.id = id]
<1>9. PICK api : api = RenamedColumns(w.api, from, to, id)
    OBVIOUS
<1>10. /\ api.target = w.api.target /\ api.role = w.api.role /\ api.task = w.api.task
       /\ api.columns = IF w.api.columns = Unknown THEN Unknown
                        ELSE {New(col) : col \in w.api.columns}
    BY <1>1, <1>9 DEF RenamedColumns, Contracts
<1>11. ASSUME NEW col \in Column(Identities)
       PROVE  /\ New(col) \in Column(Identities)
              /\ New(col).name = IF col.name = from THEN to ELSE col.name
              /\ New(col).semantic = col.semantic
              /\ New(col).nullable = col.nullable
    BY DEF Column
<1> HIDE DEF New
<1>12. ASSUME w.api.columns \in SUBSET Column(Identities)
       PROVE  /\ api.columns = {New(col) : col \in w.api.columns}
              /\ api.columns \in SUBSET Column(Identities)
    BY <1>10, <1>11, <1>12, ListsAreKnown
<1>13. api \in Contracts
    <2>1. api.columns \in (SUBSET Column(Identities)) \cup {Unknown}
        BY <1>1, <1>10, <1>12 DEF Contracts
    <2> QED
        BY <1>1, <1>9, <2>1 DEF RenamedColumns, Contracts
<1>14. api.columns = Unknown => w.api.columns = Unknown
    BY <1>1, <1>12, ListsAreKnown DEF Contracts
<1>15. PICK doubts : doubts = w.doubts \cup MisreadName(from) \cup MisreadName(to) \cup
                              When(old = w.run.target, "retargeted")
    OBVIOUS
<1>16. /\ doubts \in SUBSET Doubts /\ w.doubts \subseteq doubts
       /\ w.doubts \ {"retargeted"} \subseteq doubts
       /\ "reread" \notin doubts => old = from /\ new = to
       /\ "retargeted" \notin doubts => old # w.run.target
    BY <1>1, <1>15 DEF Doubts, MisreadName, When
<1>17. ASSUME NamesKnown(doubts)
       PROVE  /\ api.columns # {}
              /\ NamesIn(api.columns) = DOMAIN run.frame
              /\ Tells(api.columns, run.frame, doubts)
    <2>1. Sure(w) /\ old = from /\ new = to
        BY <1>16, <1>17, KnownBefore DEF Sure, NamesKnown
    <2>2. /\ w.api.columns \in SUBSET Column(Identities)
          /\ w.api.columns # {}
          /\ NamesIn(w.api.columns) = DOMAIN w.run.frame
          /\ Tells(w.api.columns, w.run.frame, w.doubts)
        BY <2>1, SoundGives
    <2>3. /\ \A k \in api.columns : \E col \in w.api.columns : k = New(col)
          /\ \A col \in w.api.columns : New(col) \in api.columns
        BY <1>12, <2>2
    <2>4. \A col \in w.api.columns : New(col).name = IF col.name = old THEN new ELSE col.name
        BY <1>11, <2>1, <2>2
    <2>5. api.columns # {}
        BY <2>2, <2>3
    <2>6. NamesIn(api.columns) = DOMAIN run.frame
        <3>1. ASSUME NEW n \in NamesIn(api.columns) PROVE n \in DOMAIN run.frame
            <4>1. PICK col \in w.api.columns : n = New(col).name
                BY <2>3, <3>1, NamesInFacts
            <4>2. col.name \in DOMAIN w.run.frame
                BY <2>2, NamesInFacts
            <4> QED
                BY <1>6, <2>4, <4>1, <4>2
        <3>2. ASSUME NEW n \in DOMAIN run.frame PROVE n \in NamesIn(api.columns)
            <4>1. PICK o \in DOMAIN w.run.frame : n = IF o = old THEN new ELSE o
                BY <1>2, <1>6
            <4>2. PICK col \in w.api.columns : o = col.name
                BY <2>2, NamesInFacts
            <4>3. New(col) \in api.columns /\ New(col).name = n
                BY <2>3, <2>4, <4>1, <4>2
            <4> QED
                BY <4>3, NamesInFacts
        <3> QED
            BY <3>1, <3>2
    <2>7. ASSUME NEW k \in api.columns
          PROVE  Fits(k, run.frame[k.name], doubts)
        <3>1. PICK col \in w.api.columns : k = New(col)
            BY <2>3
        <3>2. /\ k.name = IF col.name = old THEN new ELSE col.name
              /\ k.semantic = col.semantic /\ k.nullable = col.nullable
            BY <1>11, <2>2, <2>4, <3>1
        <3>3. col.name \in DOMAIN w.run.frame
            BY <2>2, NamesInFacts
        <3>4. run.frame[k.name] = w.run.frame[col.name]
            BY <1>2, <1>5, <3>2, <3>3
        <3>5. Fits(col, run.frame[k.name], doubts)
            BY <1>16, <2>2, <3>4, FitsAfter DEF Tells
        <3> QED
            BY <3>2, <3>5 DEF Fits
    <2> QED
        BY <2>5, <2>6, <2>7 DEF Tells
<1>18. api.columns = Unknown => "unprofiled" \in doubts
    BY <1>1, <1>14, <1>16
<1>19. "retargeted" \notin doubts => api.target = run.target
    BY <1>1, <1>5, <1>10, <1>16
<1> QED
    BY <1>1, <1>4, <1>5, <1>7, <1>8, <1>9, <1>10, <1>13, <1>15, <1>16, <1>17, <1>18, <1>19, SoundIf

\* Filter Rows drops rows, and with them gaps.
LEMMA FilterSound ==
    ASSUME NEW w, Sound(w), NEW n, NEW op, NEW invert, UnmetFilter(w.run, n, op) = {}
    PROVE  Sound(Wire(w.api, Filtered(w.run, n, op, invert), w.doubts))
<1>1. /\ w.api \in Contracts /\ w.run \in Values /\ w.doubts \in SUBSET Doubts
      /\ w.api.columns = Unknown => "unprofiled" \in w.doubts
      /\ w.api.target # None => w.api.task # None
      /\ w.run.target # None => w.run.target \in DOMAIN w.run.frame
      /\ w.api.role = w.run.role /\ w.api.task = w.run.task
      /\ "retargeted" \notin w.doubts => w.api.target = w.run.target
    BY SoundGives
<1>2. n \in DOMAIN w.run.frame
    BY DEF UnmetFilter, RequireColumns, ColumnNames, When
<1>3. w.run.frame \in [DOMAIN w.run.frame -> ColumnTypes] /\ DOMAIN w.run.frame \subseteq Names
    BY <1>1, FrameFacts DEF Values
<1>4. PICK run : run = Filtered(w.run, n, op, invert)
    OBVIOUS
<1>5. /\ run.target = w.run.target /\ run.task = w.run.task /\ run.role = w.run.role
      /\ DOMAIN run.frame = DOMAIN w.run.frame
      /\ \A o \in DOMAIN w.run.frame :
           /\ run.frame[o].dtype = w.run.frame[o].dtype
           /\ w.run.frame[o].missing = {} => run.frame[o].missing = {}
      /\ run \in Values
    <2>1. CASE run = w.run
        BY <1>1, <1>3, <2>1
    <2>2. CASE run # w.run
        <3>1. run = [w.run EXCEPT !.frame[n].missing = {}]
            BY <1>4, <2>2 DEF Filtered
        <3>2. /\ run.target = w.run.target /\ run.task = w.run.task /\ run.role = w.run.role
              /\ run.frame = [w.run.frame EXCEPT ![n].missing = {}]
            BY <1>1, <3>1 DEF Values
        <3>3. w.run.frame[n] \in ColumnTypes
            BY <1>2, <1>3
        <3>4. PICK t : t = [w.run.frame[n] EXCEPT !.missing = {}]
            OBVIOUS
        <3>5. t \in ColumnTypes /\ t.dtype = w.run.frame[n].dtype /\ t.missing = {}
            BY <3>3, <3>4 DEF ColumnTypes
        <3>6. run.frame = [w.run.frame EXCEPT ![n] = t]
            BY <3>2, <3>4
        <3>7. /\ DOMAIN run.frame = DOMAIN w.run.frame
              /\ run.frame \in [DOMAIN run.frame -> ColumnTypes]
              /\ \A o \in DOMAIN w.run.frame :
                   run.frame[o] = IF o = n THEN t ELSE w.run.frame[o]
            BY <1>2, <1>3, <3>5, <3>6
        <3>8. \A o \in DOMAIN w.run.frame :
                 /\ run.frame[o].dtype = w.run.frame[o].dtype
                 /\ w.run.frame[o].missing = {} => run.frame[o].missing = {}
            BY <3>5, <3>7
        <3>9. run.frame \in Frames
            BY <1>3, <3>7, FrameFacts
        <3>10. run \in Values
            BY <1>1, <3>1, <3>9 DEF Values
        <3> QED
            BY <3>2, <3>7, <3>8, <3>10
    <2> QED
        BY <2>1, <2>2
<1>6. ASSUME NamesKnown(w.doubts)
      PROVE  /\ w.api.columns # {}
             /\ NamesIn(w.api.columns) = DOMAIN run.frame
             /\ Tells(w.api.columns, run.frame, w.doubts)
    <2>1. Sure(w)
        BY <1>6 DEF Sure
    <2>2. /\ w.api.columns # {}
          /\ NamesIn(w.api.columns) = DOMAIN w.run.frame
          /\ Tells(w.api.columns, w.run.frame, w.doubts)
        BY <2>1, SoundGives
    <2>3. \A col \in w.api.columns : col.name \in DOMAIN w.run.frame
        BY <2>2, NamesInFacts
    <2> QED
        BY <1>5, <2>2, <2>3 DEF Tells, Fits
<1> QED
    BY <1>1, <1>4, <1>5, <1>6, SoundIf

\* addColumns: one more column, if its name is free.
AdditionTo(c, output, type, d) ==
    c.columns \in SUBSET Column(Identities) /\ output \notin NamesIn(c.columns) =>
        /\ NamesIn(d.columns) = NamesIn(c.columns) \cup {output}
        /\ \A k \in d.columns : \/ k \in c.columns
                                \/ /\ k.name = output /\ k.nullable
                                   /\ k.semantic = "numeric" => type = "number"

\* What addColumns takes for the name of a column.
Written == Names \ {""}

LEMMA AddedColumnFacts ==
    ASSUME NEW c \in Contracts, NEW output \in Written,
           NEW type \in {"number", "boolean"},
           NEW id \in Identities, NEW d, d = AddedColumn(c, output, type, id)
    PROVE  /\ d \in Contracts
           /\ d.target = c.target /\ d.role = c.role /\ d.task = c.task
           /\ d.columns = Unknown => c.columns = Unknown
           /\ AdditionTo(c, output, type, d)
<1>0. PICK new : new = [name |-> output, primitive |-> type, nullable |-> TRUE, id |-> id,
                        semantic |-> IF type = "boolean" THEN "categorical" ELSE "numeric"]
    OBVIOUS
<1>1. new \in Column(Identities) /\ new.name = output /\ new.nullable
      /\ (new.semantic = "numeric" => type = "number")
    BY <1>0 DEF Column, Written
<1>2. d = [c EXCEPT !.columns =
              IF @ = Unknown \/ output \in NamesOf(c) \cup {""} THEN @ ELSE @ \cup {new}]
    BY <1>0 DEF AddedColumn
<1>3. /\ d.target = c.target /\ d.role = c.role /\ d.task = c.task
      /\ d.columns = IF c.columns = Unknown \/ output \in NamesOf(c) THEN c.columns
                     ELSE c.columns \cup {new}
    BY <1>2 DEF Contracts, Written
<1>4. d.columns \in (SUBSET Column(Identities)) \cup {Unknown}
    BY <1>1, <1>3 DEF Contracts
<1>5. d \in Contracts
    BY <1>2, <1>4 DEF Contracts
<1>6. d.columns = Unknown => c.columns = Unknown
    BY <1>1, <1>3, ListsAreKnown DEF Contracts
<1>7. ASSUME c.columns \in SUBSET Column(Identities), output \notin NamesIn(c.columns)
      PROVE  /\ NamesIn(d.columns) = NamesIn(c.columns) \cup {output}
             /\ \A k \in d.columns : \/ k \in c.columns
                                     \/ /\ k.name = output /\ k.nullable
                                        /\ k.semantic = "numeric" => type = "number"
    <2>1. d.columns = c.columns \cup {new}
        BY <1>3, <1>7, ListsAreKnown DEF NamesOf, ColumnsOf
    <2>2. NamesIn(d.columns) = NamesIn(c.columns) \cup {output}
        BY <1>1, <2>1 DEF NamesIn
    <2> QED
        BY <1>1, <2>1, <2>2
<1> QED
    BY <1>3, <1>5, <1>6, <1>7 DEF AdditionTo

\* The output of a formula that is admitted and runs is a name that a formula
\* can write, which both sides read the same.
LEMMA OutputFacts ==
    ASSUME NEW c, NEW v, NEW output \in Names, NEW uses,
           Expression(c, output, uses) = {}, UnmetFormula(v, Read(output), uses) = {}
    PROVE  Read(output) = output /\ output \in Written
<1>1. output \in Identifiers \cup {""}
    BY DEF Expression, When
<1>2. Read(output) # None
    BY DEF UnmetFormula, When
<1> QED
    BY <1>1, <1>2, ReadFacts, TextsAssumption DEF Written

\* Column Formula requires that the output is a new column.
LEMMA FormulaSound ==
    ASSUME NEW w, Sound(w), NEW output \in Written, NEW uses,
           NEW type \in {"number", "boolean"}, NEW id \in Identities, UnmetFormula(w.run, output, uses) = {}
    PROVE  Sound(Wire(AddedColumn(w.api, output, type, id),
                      WithFormula(w.run, output, uses, type), w.doubts))
<1>1. /\ w.api \in Contracts /\ w.run \in Values /\ w.doubts \in SUBSET Doubts
      /\ w.api.columns = Unknown => "unprofiled" \in w.doubts
      /\ w.api.target # None => w.api.task # None
      /\ w.run.target # None => w.run.target \in DOMAIN w.run.frame
      /\ w.api.role = w.run.role /\ w.api.task = w.run.task
      /\ "retargeted" \notin w.doubts => w.api.target = w.run.target
    BY SoundGives
<1>2. output \notin DOMAIN w.run.frame
    BY DEF UnmetFormula, ColumnNames, When
<1>3. w.run.frame \in [DOMAIN w.run.frame -> ColumnTypes] /\ DOMAIN w.run.frame \subseteq Names
    BY <1>1, FrameFacts DEF Values
<1>4. PICK new : new = [dtype |-> type,
                        missing |-> IF type # "boolean" /\ \E n \in uses : w.run.frame[n].missing # {}
                                    THEN {"NaN"} ELSE {}]
    OBVIOUS
<1>5. new.dtype = type /\ new \in ColumnTypes
    BY <1>4 DEF ColumnTypes
<1>6. PICK run : run = WithFormula(w.run, output, uses, type)
    OBVIOUS
<1>7. run = [w.run EXCEPT !.frame = [n \in DOMAIN @ \cup {output} |-> IF n = output THEN new ELSE @[n]]]
    BY <1>4, <1>6 DEF WithFormula
<1>8. /\ run.target = w.run.target /\ run.task = w.run.task /\ run.role = w.run.role
      /\ run.frame = [n \in DOMAIN w.run.frame \cup {output} |->
                        IF n = output THEN new ELSE w.run.frame[n]]
    BY <1>1, <1>7 DEF Values
<1>9. /\ DOMAIN run.frame = DOMAIN w.run.frame \cup {output}
      /\ run.frame \in [DOMAIN run.frame -> ColumnTypes]
      /\ run.frame[output] = new
      /\ \A n \in DOMAIN w.run.frame : run.frame[n] = w.run.frame[n]
    BY <1>2, <1>3, <1>5, <1>8
<1>10. run \in Values
    <2>1. run.frame \in Frames
        BY <1>3, <1>9, FrameFacts DEF Written
    <2> QED
        BY <1>1, <1>7, <2>1 DEF Values
<1>11. PICK api : api = AddedColumn(w.api, output, type, id)
    OBVIOUS
<1>12. /\ api \in Contracts
       /\ api.target = w.api.target /\ api.role = w.api.role /\ api.task = w.api.task
       /\ api.columns = Unknown => w.api.columns = Unknown
       /\ AdditionTo(w.api, output, type, api)
    <2>1. PICK c : c = w.api
        OBVIOUS
    <2>2. c \in Contracts /\ api = AddedColumn(c, output, type, id)
        BY <1>1, <1>11, <2>1
    <2>3. /\ api \in Contracts
          /\ api.target = c.target /\ api.role = c.role /\ api.task = c.task
          /\ api.columns = Unknown => c.columns = Unknown
          /\ AdditionTo(c, output, type, api)
        BY <2>2, AddedColumnFacts
    <2> QED
        BY <2>1, <2>3
<1>13. ASSUME NamesKnown(w.doubts)
       PROVE  /\ api.columns # {}
              /\ NamesIn(api.columns) = DOMAIN run.frame
              /\ Tells(api.columns, run.frame, w.doubts)
    <2>1. Sure(w)
        BY <1>13 DEF Sure
    <2>2. /\ w.api.columns \in SUBSET Column(Identities)
          /\ NamesIn(w.api.columns) = DOMAIN w.run.frame
          /\ Tells(w.api.columns, w.run.frame, w.doubts)
        BY <2>1, SoundGives
    <2>3. output \notin NamesIn(w.api.columns)
        BY <1>2, <2>2
    <2>4. /\ NamesIn(api.columns) = NamesIn(w.api.columns) \cup {output}
          /\ \A k \in api.columns : \/ k \in w.api.columns
                                    \/ /\ k.name = output /\ k.nullable
                                       /\ k.semantic = "numeric" => type = "number"
        BY <1>12, <2>2, <2>3 DEF AdditionTo
    <2>5. api.columns # {}
        BY <2>4 DEF NamesIn
    <2>6. ASSUME NEW k \in api.columns
          PROVE  Fits(k, run.frame[k.name], w.doubts)
        <3>1. CASE k \in w.api.columns
            <4>1. k.name \in DOMAIN w.run.frame
                BY <2>2, <3>1, NamesInFacts
            <4> QED
                BY <1>9, <2>2, <3>1, <4>1 DEF Tells
        <3>2. CASE k \notin w.api.columns
            BY <1>5, <1>9, <2>4, <2>6, <3>2 DEF Fits
        <3> QED
            BY <3>1, <3>2
    <2> QED
        BY <1>9, <2>2, <2>4, <2>5, <2>6 DEF Tells
<1> QED
    BY <1>1, <1>6, <1>8, <1>9, <1>10, <1>11, <1>12, <1>13, SoundIf

-----------------------------------------------------------------------------
(* Loading, splitting, and the blocks with two inputs.                     *)

\* What ProfileDoubts leaves out is true of the profile.
LEMMA ProfileDoubtsFacts ==
    ASSUME NEW s
    PROVE  /\ ProfileDoubts(s) \in SUBSET Doubts
           /\ s.profile = {} => "unprofiled" \in ProfileDoubts(s)
           /\ NamesKnown(ProfileDoubts(s)) =>
                /\ s.profile # {} /\ NamesIn(s.profile) = DOMAIN s.frame
                /\ Tells(s.profile, s.frame, ProfileDoubts(s))
           /\ "retargeted" \notin ProfileDoubts(s)
BY DEF ProfileDoubts, Doubts, NamesKnown, Tells, Fits, When

LEMMA LoadSound ==
    ASSUME NEW s \in Sources, NEW id \in Identities
    PROVE  Sound(Wire(SourceContract(s.profile, id), Loaded(s.frame), ProfileDoubts(s)))
<1>2. PICK frame : frame = s.frame
    OBVIOUS
<1>3. PICK profile : profile = s.profile
    OBVIOUS
<1>4. /\ DOMAIN frame \subseteq Names /\ frame \in [DOMAIN frame -> ColumnTypes]
      /\ profile \subseteq Column({"file"})
    BY <1>2, <1>3, BlocksAssumption
<1>5. PICK run : run = Loaded(frame)
    OBVIOUS
<1>6. /\ run \in Values
      /\ run.frame = frame /\ run.target = None /\ run.task = None /\ run.role = "full"
    <2>1. frame \in Frames
        BY <1>4, FrameFacts
    <2> QED
        BY <1>5, <2>1 DEF Loaded, Values, Roles
<1> DEFINE New(col) == [col EXCEPT !.id = id]
<1>7. ASSUME NEW col \in profile
      PROVE  /\ New(col) \in Column(Identities)
             /\ New(col).name = col.name /\ New(col).semantic = col.semantic
             /\ New(col).nullable = col.nullable
    <2>1. col \in Column({"file"})
        BY <1>4
    <2> QED
        BY <2>1 DEF Column
<1> HIDE DEF New
<1>8. PICK columns : columns = {New(col) : col \in profile}
    OBVIOUS
<1>9. columns \in SUBSET Column(Identities)
    BY <1>7, <1>8
<1>10. PICK api : api = SourceContract(profile, id)
    OBVIOUS
<1>11. api = [columns |-> IF profile = {} THEN Unknown ELSE columns,
              target |-> None, role |-> "full", task |-> None]
    BY <1>8, <1>10 DEF SourceContract, New
<1>12. /\ api \in Contracts
       /\ api.columns = IF profile = {} THEN Unknown ELSE columns
       /\ api.target = None /\ api.role = "full" /\ api.task = None
    BY <1>9, <1>11 DEF Contracts, Roles
<1>13. PICK doubts : doubts = ProfileDoubts(s)
    OBVIOUS
<1>14. /\ doubts \in SUBSET Doubts /\ (profile = {} => "unprofiled" \in doubts)
       /\ NamesKnown(doubts) => /\ profile # {} /\ NamesIn(profile) = DOMAIN frame
                                /\ Tells(profile, frame, doubts)
    BY <1>2, <1>3, <1>13, ProfileDoubtsFacts
<1>15. api.columns = Unknown => "unprofiled" \in doubts
    BY <1>9, <1>12, <1>14, ListsAreKnown
<1>16. ASSUME NamesKnown(doubts)
       PROVE  /\ api.columns # {}
              /\ NamesIn(api.columns) = DOMAIN run.frame
              /\ Tells(api.columns, run.frame, doubts)
    <2>1. profile # {} /\ api.columns = columns /\ NamesIn(profile) = DOMAIN frame
        BY <1>12, <1>14, <1>16
    <2>2. NamesIn(columns) = NamesIn(profile)
        BY <1>7, <1>8 DEF NamesIn
    <2>3. ASSUME NEW k \in columns PROVE Fits(k, frame[k.name], doubts)
        <3>1. PICK col \in profile : k = New(col)
            BY <1>8, <2>3
        <3>2. Fits(col, frame[col.name], doubts)
            BY <1>14, <1>16 DEF Tells
        <3> QED
            BY <1>7, <3>1, <3>2 DEF Fits
    <2> QED
        BY <1>6, <1>8, <2>1, <2>2, <2>3 DEF Tells
<1>17. Sound(Wire(api, run, doubts))
    BY <1>6, <1>12, <1>14, <1>15, <1>16, NoneIsApart, SoundIf
<1> QED
    BY <1>2, <1>3, <1>5, <1>10, <1>13, <1>17

\* Train Test Split gives both parts the contract, but for the role.
LEMMA SplitSound ==
    ASSUME NEW w, Sound(w), NEW role \in Roles
    PROVE  Sound(Wire(WithFields(w.api, None, role, None), [w.run EXCEPT !.role = role], w.doubts))
<1>1. /\ w.api \in Contracts /\ w.run \in Values /\ w.doubts \in SUBSET Doubts
      /\ w.api.columns = Unknown => "unprofiled" \in w.doubts
      /\ w.api.target # None => w.api.task # None
      /\ w.run.target # None => w.run.target \in DOMAIN w.run.frame
      /\ w.api.role = w.run.role /\ w.api.task = w.run.task
      /\ "retargeted" \notin w.doubts => w.api.target = w.run.target
    BY SoundGives
<1>2. PICK api : api = WithFields(w.api, None, role, None)
    OBVIOUS
<1>3. /\ api \in Contracts /\ api.columns = w.api.columns /\ api.target = w.api.target
      /\ api.role = role /\ api.task = w.api.task
    <2>1. role # None
        BY NoneIsApart
    <2> QED
        BY <1>1, <1>2, <2>1, WithFieldsFacts DEF Or
<1>4. PICK run : run = [w.run EXCEPT !.role = role]
    OBVIOUS
<1>5. /\ run \in Values /\ run.frame = w.run.frame /\ run.target = w.run.target
      /\ run.role = role /\ run.task = w.run.task
    BY <1>1, <1>4 DEF Values
<1>6. NamesKnown(w.doubts) =>
        /\ w.api.columns # {}
        /\ NamesIn(w.api.columns) = DOMAIN w.run.frame
        /\ Tells(w.api.columns, w.run.frame, w.doubts)
    BY SoundGives DEF Sure
<1> QED
    BY <1>1, <1>2, <1>3, <1>4, <1>5, <1>6, SoundIf

\* Columns of two wires describe a frame made of both, unless an outer join
\* loosened the frame.
Merges(v, w, columns, frame, doubts) ==
    v.doubts \cup w.doubts \subseteq doubts =>
        /\ columns \in SUBSET Column(Identities) /\ columns # {}
        /\ NamesIn(columns) = DOMAIN frame
        /\ Tells(columns, frame, doubts)

\* Two contracts put together describe two frames put together, if the columns
\* that the right one adds are those that the left one does not have.
LEMMA MergeSound ==
    ASSUME NEW v, NEW w, Sound(v), Sound(w), Sure(v), Sure(w),
           NEW R \in SUBSET w.api.columns,
           \A col \in R : col.name \notin DOMAIN v.run.frame,
           \A col \in w.api.columns : col \in R \/ col.name \in DOMAIN v.run.frame,
           NEW doubts,
           NEW frame, DOMAIN frame = DOMAIN v.run.frame \cup DOMAIN w.run.frame,
           \/ "outer" \in doubts
           \/ /\ \A n \in DOMAIN v.run.frame : frame[n] = v.run.frame[n]
              /\ \A n \in DOMAIN w.run.frame \ DOMAIN v.run.frame : frame[n] = w.run.frame[n],
           NEW columns, columns = v.api.columns \cup R
    PROVE  Merges(v, w, columns, frame, doubts)
<1>1. /\ v.api.columns \in SUBSET Column(Identities) /\ v.api.columns # {}
      /\ NamesIn(v.api.columns) = DOMAIN v.run.frame
      /\ Tells(v.api.columns, v.run.frame, v.doubts)
    BY SoundGives
<1>2. /\ w.api.columns \in SUBSET Column(Identities)
      /\ NamesIn(w.api.columns) = DOMAIN w.run.frame
      /\ Tells(w.api.columns, w.run.frame, w.doubts)
    BY SoundGives
<1>3. columns \in SUBSET Column(Identities) /\ columns # {}
    BY <1>1, <1>2
<1>4. /\ \A col \in v.api.columns : col.name \in DOMAIN v.run.frame
      /\ \A col \in R : col.name \in DOMAIN w.run.frame
    BY <1>1, <1>2, NamesInFacts
<1>5. NamesIn(columns) = DOMAIN frame
    <2>1. ASSUME NEW n \in NamesIn(columns) PROVE n \in DOMAIN frame
        BY <1>4, <2>1, NamesInFacts
    <2>2. ASSUME NEW n \in DOMAIN frame PROVE n \in NamesIn(columns)
        <3>1. CASE n \in DOMAIN v.run.frame
            BY <1>1, <3>1, NamesInFacts
        <3>2. CASE n \notin DOMAIN v.run.frame
            <4>1. PICK col \in w.api.columns : n = col.name
                BY <1>2, <2>2, <3>2, NamesInFacts
            <4>2. col \in columns
                BY <3>2, <4>1
            <4> QED
                BY <4>1, <4>2, NamesInFacts
        <3> QED
            BY <3>1, <3>2
    <2> QED
        BY <2>1, <2>2
<1>6. ASSUME v.doubts \cup w.doubts \subseteq doubts, NEW col \in columns
      PROVE  Fits(col, frame[col.name], doubts)
    <2>1. CASE "outer" \in doubts
        BY <2>1 DEF Fits
    <2>2. CASE "outer" \notin doubts /\ col \in v.api.columns
        <3>1. frame[col.name] = v.run.frame[col.name]
            BY <1>4, <2>2
        <3>2. Fits(col, frame[col.name], v.doubts)
            BY <1>1, <2>2, <3>1 DEF Tells
        <3> QED
            BY <1>6, <3>2, FitsAfter
    <2>3. CASE "outer" \notin doubts /\ col \in R
        <3>1. frame[col.name] = w.run.frame[col.name]
            BY <1>4, <2>3
        <3>2. Fits(col, frame[col.name], w.doubts)
            BY <1>2, <2>3, <3>1 DEF Tells
        <3> QED
            BY <1>6, <3>2, FitsAfter
    <2> QED
        BY <2>1, <2>2, <2>3
<1> QED
    BY <1>3, <1>5, <1>6 DEF Merges, Tells

\* Join Datasets keeps the left input's fields; a loosened column is in doubt.
LEMMA JoinSound ==
    ASSUME NEW v, NEW w, Sound(v), Sound(w), NEW S,
           NEW strategy \in {"inner", "left", "right", "full"}, NEW unmatched \in BOOLEAN,
           UnmetJoin(v.run, w.run, S.parsed, strategy) = {}
    PROVE  Sound(Wire(Joined(v.api, w.api, S.items),
                      JoinedFrame(v.run, w.run, S.parsed, strategy, unmatched),
                      v.doubts \cup w.doubts \cup Misread(S) \cup When(strategy # "inner", "outer")))
<1>1. /\ v.api \in Contracts /\ v.run \in Values /\ v.doubts \in SUBSET Doubts
      /\ v.api.columns = Unknown => "unprofiled" \in v.doubts
      /\ v.api.target # None => v.api.task # None
      /\ v.run.target # None => v.run.target \in DOMAIN v.run.frame
      /\ v.api.role = v.run.role /\ v.api.task = v.run.task
      /\ "retargeted" \notin v.doubts => v.api.target = v.run.target
    BY SoundGives
<1>2. /\ w.api \in Contracts /\ w.run \in Values /\ w.doubts \in SUBSET Doubts
      /\ w.api.columns = Unknown => "unprofiled" \in w.doubts
    BY SoundGives
<1>3. /\ v.run.frame \in [DOMAIN v.run.frame -> ColumnTypes] /\ DOMAIN v.run.frame \subseteq Names
      /\ w.run.frame \in [DOMAIN w.run.frame -> ColumnTypes] /\ DOMAIN w.run.frame \subseteq Names
    BY <1>1, <1>2, FrameFacts DEF Values
<1> PICK keys : keys = S.parsed
    OBVIOUS
<1>4. /\ keys \subseteq DOMAIN v.run.frame /\ keys \subseteq DOMAIN w.run.frame
      /\ (DOMAIN v.run.frame \ keys) \cap DOMAIN w.run.frame = {}
    BY DEF UnmetJoin, ColumnNames, When
<1> DEFINE Loose(t) == [dtype |-> IF t.dtype = "boolean" THEN "object" ELSE t.dtype,
                        missing |-> t.missing \cup {"NaN"}]
           Side(t, side) == IF unmatched /\ strategy = side THEN Loose(t) ELSE t
           Merged(n) == IF n \in keys THEN IF strategy = "right" THEN w.run.frame[n] ELSE v.run.frame[n]
                        ELSE IF n \in DOMAIN v.run.frame THEN Side(v.run.frame[n], "right")
                        ELSE Side(w.run.frame[n], "left")
<1>5. \A t \in ColumnTypes : Loose(t) \in ColumnTypes
    BY DEF ColumnTypes
<1>6. \A t \in ColumnTypes : \A side \in {"left", "right"} :
          Side(t, side) \in ColumnTypes /\ (strategy = "inner" => Side(t, side) = t)
    <2> HIDE DEF Loose
    <2> QED
        BY <1>5
<1> HIDE DEF Side
<1>7. \A n \in DOMAIN v.run.frame \cup DOMAIN w.run.frame :
         /\ Merged(n) \in ColumnTypes
         /\ strategy = "inner" =>
              Merged(n) = IF n \in DOMAIN v.run.frame THEN v.run.frame[n] ELSE w.run.frame[n]
    BY <1>3, <1>4, <1>6
<1> HIDE DEF Merged
<1>8. PICK run : run = JoinedFrame(v.run, w.run, keys, strategy, unmatched)
    OBVIOUS
<1>9. run = [v.run EXCEPT !.frame = [n \in DOMAIN v.run.frame \cup DOMAIN w.run.frame |-> Merged(n)]]
    BY <1>8 DEF JoinedFrame, Merged, Side, Loose, ColumnNames
<1>10. /\ run.target = v.run.target /\ run.task = v.run.task /\ run.role = v.run.role
       /\ run.frame = [n \in DOMAIN v.run.frame \cup DOMAIN w.run.frame |-> Merged(n)]
    BY <1>1, <1>9 DEF Values
<1>11. /\ DOMAIN run.frame = DOMAIN v.run.frame \cup DOMAIN w.run.frame
       /\ run.frame \in [DOMAIN run.frame -> ColumnTypes]
       /\ strategy = "inner" => \A n \in DOMAIN run.frame :
            run.frame[n] = IF n \in DOMAIN v.run.frame THEN v.run.frame[n] ELSE w.run.frame[n]
    BY <1>7, <1>10
<1>12. run \in Values
    <2>1. run.frame \in Frames
        BY <1>3, <1>11, FrameFacts
    <2> QED
        BY <1>1, <1>9, <2>1 DEF Values
<1>13. PICK R : R = AddedRight(w.api, S.items)
    OBVIOUS
<1>14. PICK api : api = Joined(v.api, w.api, S.items)
    OBVIOUS
<1>15. /\ api.target = v.api.target /\ api.role = v.api.role /\ api.task = v.api.task
       /\ api.columns = IF Unknown \in {v.api.columns, w.api.columns} THEN Unknown
                        ELSE v.api.columns \cup R
    BY <1>1, <1>13, <1>14 DEF Joined, Contracts
<1>16. w.api.columns # Unknown => R = {col \in w.api.columns : col.name \notin S.items}
    BY <1>13 DEF AddedRight, ColumnsOf
<1>17. api.columns \in (SUBSET Column(Identities)) \cup {Unknown}
    BY <1>1, <1>2, <1>15, <1>16 DEF Contracts
<1>18. api \in Contracts
    BY <1>1, <1>14, <1>17 DEF Joined, Contracts
<1>19. api.columns = Unknown => Unknown \in {v.api.columns, w.api.columns}
    BY <1>1, <1>2, <1>15, <1>16, ListsAreKnown DEF Contracts
<1>20. PICK doubts : doubts = v.doubts \cup w.doubts \cup Misread(S) \cup
                              When(strategy # "inner", "outer")
    OBVIOUS
<1>21. /\ doubts \in SUBSET Doubts
       /\ v.doubts \subseteq doubts /\ w.doubts \subseteq doubts
       /\ v.doubts \ {"retargeted"} \subseteq doubts /\ w.doubts \ {"retargeted"} \subseteq doubts
       /\ "outer" \notin doubts => strategy = "inner"
       /\ "reread" \notin doubts => S.items = keys
    <2>1. When(strategy # "inner", "outer") \in SUBSET Doubts
          /\ (strategy # "inner" => "outer" \in When(strategy # "inner", "outer"))
        BY DEF When, Doubts
    <2> QED
        BY <1>1, <1>2, <1>20, <2>1, RereadFacts
<1>22. ASSUME NamesKnown(doubts)
       PROVE  /\ api.columns # {}
              /\ NamesIn(api.columns) = DOMAIN run.frame
              /\ Tells(api.columns, run.frame, doubts)
    <2>1. Sure(v) /\ Sure(w) /\ S.items = keys
        BY <1>21, <1>22, KnownBefore DEF Sure, NamesKnown
    <2>2. /\ v.api.columns \in SUBSET Column(Identities) /\ w.api.columns \in SUBSET Column(Identities)
          /\ NamesIn(w.api.columns) = DOMAIN w.run.frame
        BY <2>1, SoundGives
    <2>3. v.api.columns # Unknown /\ w.api.columns # Unknown
        BY <2>2, ListsAreKnown
    <2>4. api.columns = v.api.columns \cup R /\ R = {col \in w.api.columns : col.name \notin keys}
        BY <1>15, <1>16, <2>1, <2>3
    <2>5. \A col \in w.api.columns : col.name \in DOMAIN w.run.frame
        BY <2>2, NamesInFacts
    <2>6. /\ R \in SUBSET w.api.columns
          /\ \A col \in R : col.name \notin DOMAIN v.run.frame
          /\ \A col \in w.api.columns : col \in R \/ col.name \in DOMAIN v.run.frame
        BY <1>4, <2>4, <2>5
    <2>7. \/ "outer" \in doubts
          \/ /\ \A n \in DOMAIN v.run.frame : run.frame[n] = v.run.frame[n]
             /\ \A n \in DOMAIN w.run.frame \ DOMAIN v.run.frame : run.frame[n] = w.run.frame[n]
        BY <1>11, <1>21
    <2>8. Merges(v, w, api.columns, run.frame, doubts)
        BY <1>11, <2>1, <2>4, <2>6, <2>7, MergeSound
    <2> QED
        BY <1>21, <2>8 DEF Merges
<1>23. run.target # None => run.target \in DOMAIN run.frame
    BY <1>1, <1>10, <1>11
<1>24. api.columns = Unknown => "unprofiled" \in doubts
    BY <1>1, <1>2, <1>19, <1>21
<1>25. "retargeted" \notin doubts => api.target = run.target
    BY <1>1, <1>10, <1>15, <1>21
<1> QED
    BY <1>1, <1>8, <1>10, <1>12, <1>14, <1>15, <1>18, <1>20, <1>21, <1>22, <1>23, <1>24, <1>25, SoundIf

\* Feature Union takes the left input's columns first, on either side.
LEMMA UnionSound ==
    ASSUME NEW v, NEW w, Sound(v), Sound(w)
    PROVE  Sound(Wire(Concatenated(v.api, w.api), United(v.run, w.run), v.doubts \cup w.doubts))
<1>1. /\ v.api \in Contracts /\ v.run \in Values /\ v.doubts \in SUBSET Doubts
      /\ v.api.columns = Unknown => "unprofiled" \in v.doubts
      /\ v.api.target # None => v.api.task # None
      /\ v.run.target # None => v.run.target \in DOMAIN v.run.frame
      /\ v.api.role = v.run.role /\ v.api.task = v.run.task
      /\ "retargeted" \notin v.doubts => v.api.target = v.run.target
    BY SoundGives
<1>2. /\ w.api \in Contracts /\ w.run \in Values /\ w.doubts \in SUBSET Doubts
      /\ w.api.columns = Unknown => "unprofiled" \in w.doubts
      /\ w.api.target # None => w.api.task # None
      /\ w.run.target # None => w.run.target \in DOMAIN w.run.frame
      /\ w.api.task = w.run.task
      /\ "retargeted" \notin w.doubts => w.api.target = w.run.target
    BY SoundGives
<1>3. /\ v.run.frame \in [DOMAIN v.run.frame -> ColumnTypes] /\ DOMAIN v.run.frame \subseteq Names
      /\ w.run.frame \in [DOMAIN w.run.frame -> ColumnTypes] /\ DOMAIN w.run.frame \subseteq Names
    BY <1>1, <1>2, FrameFacts DEF Values
<1>4. PICK run : run = United(v.run, w.run)
    OBVIOUS
<1>5. /\ run.target = Or(v.run.target, w.run.target) /\ run.task = Or(v.run.task, w.run.task)
      /\ run.role = v.run.role
      /\ run.frame = [n \in DOMAIN v.run.frame \cup DOMAIN w.run.frame |->
                        IF n \in DOMAIN v.run.frame THEN v.run.frame[n] ELSE w.run.frame[n]]
    BY <1>4 DEF United, ColumnNames
<1>6. /\ DOMAIN run.frame = DOMAIN v.run.frame \cup DOMAIN w.run.frame
      /\ run.frame \in [DOMAIN run.frame -> ColumnTypes]
      /\ \A n \in DOMAIN v.run.frame : run.frame[n] = v.run.frame[n]
      /\ \A n \in DOMAIN w.run.frame \ DOMAIN v.run.frame : run.frame[n] = w.run.frame[n]
    BY <1>3, <1>5
<1>7. run \in Values
    <2>1. run.frame \in Frames
        BY <1>3, <1>6, FrameFacts
    <2> QED
        BY <1>1, <1>2, <1>4, <1>5, <2>1 DEF United, Values, Or
<1>8. PICK R : R = {col \in w.api.columns : col.name \notin NamesOf(v.api)}
    OBVIOUS
<1>9. PICK api : api = Concatenated(v.api, w.api)
    OBVIOUS
<1>10. /\ api.target = Or(v.api.target, w.api.target) /\ api.role = v.api.role
       /\ api.task = Or(v.api.task, w.api.task)
       /\ api.columns = IF Unknown \in {v.api.columns, w.api.columns} THEN Unknown
                        ELSE v.api.columns \cup R
    BY <1>8, <1>9 DEF Concatenated
<1>11. api.columns \in (SUBSET Column(Identities)) \cup {Unknown}
    BY <1>1, <1>2, <1>8, <1>10 DEF Contracts
<1>12. api \in Contracts
    BY <1>1, <1>2, <1>9, <1>10, <1>11 DEF Concatenated, Contracts, Or
<1>13. api.columns = Unknown => Unknown \in {v.api.columns, w.api.columns}
    BY <1>1, <1>2, <1>8, <1>10, ListsAreKnown DEF Contracts
<1>14. PICK doubts : doubts = v.doubts \cup w.doubts
    OBVIOUS
<1>15. /\ doubts \in SUBSET Doubts /\ v.doubts \subseteq doubts /\ w.doubts \subseteq doubts
       /\ v.doubts \ {"retargeted"} \subseteq doubts /\ w.doubts \ {"retargeted"} \subseteq doubts
    BY <1>1, <1>2, <1>14
<1>16. ASSUME NamesKnown(doubts)
       PROVE  /\ api.columns # {}
              /\ NamesIn(api.columns) = DOMAIN run.frame
              /\ Tells(api.columns, run.frame, doubts)
    <2>1. Sure(v) /\ Sure(w)
        BY <1>15, <1>16, KnownBefore DEF Sure
    <2>2. /\ v.api.columns \in SUBSET Column(Identities) /\ w.api.columns \in SUBSET Column(Identities)
          /\ NamesIn(v.api.columns) = DOMAIN v.run.frame
        BY <2>1, SoundGives
    <2>3. v.api.columns # Unknown /\ w.api.columns # Unknown
        BY <2>2, ListsAreKnown
    <2>4. api.columns = v.api.columns \cup R /\ NamesOf(v.api) = DOMAIN v.run.frame
        BY <1>10, <2>2, <2>3 DEF NamesOf, ColumnsOf
    <2>5. /\ R \in SUBSET w.api.columns
          /\ \A col \in R : col.name \notin DOMAIN v.run.frame
          /\ \A col \in w.api.columns : col \in R \/ col.name \in DOMAIN v.run.frame
        BY <1>8, <2>4
    <2>6. Merges(v, w, api.columns, run.frame, doubts)
        BY <1>6, <2>1, <2>4, <2>5, MergeSound
    <2> QED
        BY <1>15, <2>6 DEF Merges
<1>17. run.target # None => run.target \in DOMAIN run.frame
    BY <1>1, <1>2, <1>5, <1>6 DEF Or
<1>18. api.columns = Unknown => "unprofiled" \in doubts
    BY <1>1, <1>2, <1>13, <1>15
<1>19. "retargeted" \notin doubts => api.target = run.target
    BY <1>1, <1>2, <1>5, <1>10, <1>15
<1>20. api.target # None => api.task # None
    BY <1>1, <1>2, <1>10 DEF Or
<1>21. api.role = run.role /\ api.task = run.task
    BY <1>1, <1>2, <1>5, <1>10
<1> QED
    BY <1>4, <1>7, <1>9, <1>12, <1>14, <1>15, <1>16, <1>17, <1>18, <1>19, <1>20, <1>21, SoundIf

-----------------------------------------------------------------------------
(* What is refused and what fails.                                         *)

\* The part of the two properties that a single block answers for.
Fair(block, codes, unmet, doubts) ==
    /\ doubts \subseteq {"gappy"} /\ codes = {} /\ block \in DOMAIN Guarded =>
         unmet \cap Guarded[block] = {}
    /\ /\ NamesKnown(doubts)
       /\ \/ codes \cap SchemaCodes # {}
          \/ block = "select" /\ "NOT_SUBSET" \in codes /\ "retargeted" \notin doubts
       => unmet # {}

LEMMA PlaceFair ==
    ASSUME NEW block, NEW codes, NEW unmet, NEW doubts, NEW wires, NEW made,
           Fair(block, codes, unmet, doubts), Place(block, codes, unmet, doubts, wires, made)
    PROVE  GuardedNeverFails' /\ SchemaRefusalsAreReal'
<1>1. CASE verdict' = None
    BY <1>1 DEF GuardedNeverFails, SchemaRefusalsAreReal
<1>2. CASE verdict' = [block |-> block, codes |-> codes, unmet |-> unmet, doubts |-> doubts]
    <2>1. /\ verdict'.block = block /\ verdict'.codes = codes
          /\ verdict'.unmet = unmet /\ verdict'.doubts = doubts
        BY <1>2
    <2>2. GuardedNeverFails'
        BY <2>1 DEF GuardedNeverFails, Fair
    <2>3. SchemaRefusalsAreReal'
        BY <2>1 DEF SchemaRefusalsAreReal, RefusedForNames, Fair
    <2> QED
        BY <2>2, <2>3
<1> QED
    BY <1>1, <1>2 DEF Place

LEMMA GuardedFacts ==
    /\ Guarded["target"] = {"columns", "target"} /\ Guarded["select"] = {"target"}
    /\ Guarded["filter"] = {"columns"} /\ Guarded["formula"] = {"columns", "kind", "collision"}
    /\ Guarded["join"] = {"columns", "collision"} /\ Guarded["split"] = {"task", "target"}
    /\ Guarded["train"] = {"role", "task", "target"} /\ Guarded["cluster"] = {"task"}
    /\ Guarded["evaluate"] = {"role", "task", "columns", "target"}
    /\ DOMAIN Guarded = {"target", "select", "filter", "formula", "join", "split", "train",
                         "cluster", "evaluate"}
BY DEF Guarded

\* Blocks without a rule that the catalogue states over columns.
LEMMA UnguardedFair ==
    ASSUME NEW block \in {"load", "normalize", "encode", "impute", "rename", "union", "save"},
           NEW codes \in SUBSET {"REQUIRED_FIELD_MISSING"}, NEW unmet, NEW doubts
    PROVE  Fair(block, codes, unmet, doubts)
BY GuardedFacts DEF Fair, SchemaCodes

LEMMA NoGaps ==
    ASSUME NEW D, D \subseteq {"gappy"}
    PROVE  NamesKnown(D) /\ "retargeted" \notin D /\ {"mistyped", "outer"} \cap D = {}
BY DEF NamesKnown

\* What a wire whose names are known tells the rules.
LEMMA NamesTold ==
    ASSUME NEW w, Sound(w), NamesKnown(w.doubts)
    PROVE  /\ ColumnsOf(w.api) # {} /\ NamesOf(w.api) = DOMAIN w.run.frame
           /\ {"mistyped", "outer"} \cap w.doubts = {} =>
                \A col \in ColumnsOf(w.api) : col.semantic = "numeric" =>
                   w.run.frame[col.name].dtype = "number"
<1>1. Sure(w)
    BY DEF Sure
<1>2. ColumnsOf(w.api) = w.api.columns /\ ColumnsOf(w.api) # {} /\ NamesOf(w.api) = DOMAIN w.run.frame
    BY <1>1, SureColumns DEF ColumnNames
<1> QED
    BY <1>1, <1>2, SoundGives DEF Tells, Fits

\* A name that no column of the contract has.
LEMMA NotFound ==
    ASSUME NEW c, NEW n
    PROVE  {col \in ColumnsOf(c) : col.name = n} = {} <=> n \notin NamesOf(c)
BY DEF NamesOf, NamesIn

\* The doubts of a block whose own configuration is in no doubt either.
LEMMA KnownParts ==
    ASSUME NEW D, NEW E, NamesKnown(D \cup E)
    PROVE  NamesKnown(D) /\ NamesKnown(E) /\ "reread" \notin E
BY DEF NamesKnown

LEMMA MisreadNameFacts ==
    ASSUME NEW n, NamesKnown(MisreadName(n))
    PROVE  Read(n) = n
BY DEF NamesKnown, MisreadName, When

LEMMA MisreadFacts ==
    ASSUME NEW S, NamesKnown(Misread(S))
    PROVE  S.items = S.parsed
BY DEF NamesKnown, Misread, When

LEMMA TargetFair ==
    ASSUME NEW w, Sound(w), NEW task \in Tasks, NEW target \in Names \cup {None}
    PROVE  Fair("target",
                (IF task \in {"classification", "regression"} THEN Exists(target) ELSE {}) \cup
                (IF task = "classification" THEN Semantic(w.api, target, "categorical") ELSE {}) \cup
                (IF task = "regression" THEN Semantic(w.api, target, "numeric") ELSE {}),
                UnmetTarget(w.run, task, Read(target)), w.doubts \cup MisreadName(target))
<1>1. PICK codes : codes =
         (IF task \in {"classification", "regression"} THEN Exists(target) ELSE {}) \cup
         (IF task = "classification" THEN Semantic(w.api, target, "categorical") ELSE {}) \cup
         (IF task = "regression" THEN Semantic(w.api, target, "numeric") ELSE {})
    OBVIOUS
<1>2. PICK unmet : unmet = UnmetTarget(w.run, task, Read(target))
    OBVIOUS
<1> SUFFICES ASSUME NamesKnown(w.doubts \cup MisreadName(target))
             PROVE  /\ codes = {} => unmet \cap {"columns", "target"} = {}
                    /\ codes \cap SchemaCodes # {} => unmet # {}
    BY <1>1, <1>2, GuardedFacts, NoGaps DEF Fair
<1>3. NamesOf(w.api) = DOMAIN w.run.frame /\ Read(target) = target
    BY KnownParts, NamesTold, MisreadNameFacts
<1>4. task # None
    BY NoneIsApart
<1>5. CASE task = "clustering"
    BY <1>1, <1>2, <1>4, <1>5 DEF UnmetTarget, When
<1>6. CASE task \in {"classification", "regression"}
    <2>1. PICK semantic : codes = Exists(target) \cup Semantic(w.api, target, semantic)
        BY <1>1, <1>6
    <2>2. unmet = When(target = None, "target") \cup
                  When(target # None /\ target \notin DOMAIN w.run.frame, "columns")
        BY <1>2, <1>3, <1>4, <1>6 DEF UnmetTarget, ColumnNames, When
    <2>3. CASE target = None
        BY <2>1, <2>2, <2>3 DEF Exists, When
    <2>4. CASE target # None
        <3>1. Semantic(w.api, target, semantic) =
                 When(target \notin DOMAIN w.run.frame, "COLUMN_NOT_FOUND") \cup
                 When(target \in DOMAIN w.run.frame /\
                      \A col \in {k \in ColumnsOf(w.api) : k.name = target} : col.semantic # semantic,
                      "SEMANTIC_MISMATCH")
            BY <1>3, <2>4, NotFound DEF Semantic
        <3>2. CASE target \in DOMAIN w.run.frame
            BY <2>1, <2>2, <2>4, <3>1, <3>2 DEF Exists, When, SchemaCodes
        <3>3. CASE target \notin DOMAIN w.run.frame
            BY <2>1, <2>2, <2>4, <3>1, <3>3 DEF When
        <3> QED
            BY <3>2, <3>3
    <2> QED
        BY <2>3, <2>4
<1> QED
    BY <1>5, <1>6 DEF Tasks

LEMMA SelectFair ==
    ASSUME NEW w, Sound(w), NEW S
    PROVE  Fair("select", IF w.api.target = None THEN {} ELSE SubsetOf({w.api.target}, S.items),
                UnmetSelect(w.run, S.parsed), w.doubts \cup Misread(S))
<1>1. PICK codes : codes = IF w.api.target = None THEN {} ELSE SubsetOf({w.api.target}, S.items)
    OBVIOUS
<1>2. codes \cap SchemaCodes = {}
    BY <1>1 DEF SubsetOf, When, SchemaCodes
<1> SUFFICES ASSUME NamesKnown(w.doubts \cup Misread(S)), "retargeted" \notin w.doubts
             PROVE  /\ codes = {} => UnmetSelect(w.run, S.parsed) \cap {"target"} = {}
                    /\ codes # {} => UnmetSelect(w.run, S.parsed) # {}
    BY <1>1, <1>2, GuardedFacts, NoGaps DEF Fair
<1>3. w.api.target = w.run.target /\ S.items = S.parsed
    BY KnownParts, MisreadFacts, SoundGives
<1> QED
    BY <1>1, <1>3 DEF SubsetOf, UnmetSelect, RequireNames, RequireColumns, When

LEMMA FilterFair ==
    ASSUME NEW w, Sound(w), NEW n, NEW op
    PROVE  Fair("filter", Condition(w.api, n, op), UnmetFilter(w.run, Read(n), op),
                w.doubts \cup MisreadName(n))
<1>1. PICK codes : codes = Condition(w.api, n, op)
    OBVIOUS
<1>2. PICK unmet : unmet = UnmetFilter(w.run, Read(n), op)
    OBVIOUS
<1> SUFFICES ASSUME NamesKnown(w.doubts \cup MisreadName(n))
             PROVE  /\ codes = {} => "columns" \notin unmet
                    /\ codes \cap SchemaCodes # {} => unmet # {}
    BY <1>1, <1>2, GuardedFacts, NoGaps DEF Fair
<1>3. NamesOf(w.api) = DOMAIN w.run.frame /\ ColumnsOf(w.api) # {} /\ Read(n) = n
    BY KnownParts, NamesTold, MisreadNameFacts
<1>4. PICK mismatch \in SUBSET {"CONDITION_VALUE_TYPE_MISMATCH"} :
         /\ codes = When(n \notin DOMAIN w.run.frame /\ n # "", "CONDITION_COLUMN_NOT_FOUND") \cup mismatch
         /\ n = "" => mismatch # {}
    BY <1>1, <1>3, NotFound DEF Condition, When
<1>5. /\ n \in DOMAIN w.run.frame => "columns" \notin unmet
      /\ n \notin DOMAIN w.run.frame => unmet # {}
    BY <1>2, <1>3 DEF UnmetFilter, RequireColumns, ColumnNames, When
<1> QED
    BY <1>4, <1>5 DEF When, SchemaCodes

LEMMA FormulaFair ==
    ASSUME NEW w, Sound(w), NEW output \in Names, NEW uses
    PROVE  Fair("formula", Expression(w.api, output, uses) \cup AddedCollision(w.api, output),
                UnmetFormula(w.run, Read(output), uses), w.doubts \cup MisreadName(output))
<1>1. PICK codes : codes = Expression(w.api, output, uses) \cup AddedCollision(w.api, output)
    OBVIOUS
<1>2. PICK unmet : unmet = UnmetFormula(w.run, Read(output), uses)
    OBVIOUS
<1> PICK doubts : doubts = w.doubts \cup MisreadName(output)
    OBVIOUS
<1> SUFFICES ASSUME NamesKnown(doubts)
             PROVE  /\ {"mistyped", "outer"} \cap doubts = {} /\ codes = {} =>
                         unmet \cap {"columns", "kind", "collision"} = {}
                    /\ codes \cap SchemaCodes # {} => unmet # {}
    BY <1>1, <1>2, GuardedFacts, NoGaps DEF Fair
<1>3. /\ NamesOf(w.api) = DOMAIN w.run.frame /\ ColumnsOf(w.api) # {}
      /\ Read(output) = output
      /\ {"mistyped", "outer"} \cap doubts = {} =>
           \A col \in ColumnsOf(w.api) : col.semantic = "numeric" =>
              w.run.frame[col.name].dtype = "number"
    BY KnownParts, NamesTold, MisreadNameFacts
<1>4. output \in Written
    BY <1>3, ReadFacts, NoneIsApart DEF Written
<1>5. PICK others \in SUBSET {"EXPRESSION_NON_NUMERIC_COLUMN", "EXPRESSION_OUTPUT_INVALID",
                               "EXPRESSION_OUTPUT_COLLISION"} :
         /\ codes = When(~ uses \subseteq DOMAIN w.run.frame, "EXPRESSION_UNKNOWN_COLUMN") \cup others \cup
                    When(output \in DOMAIN w.run.frame, "COLUMN_COLLISION")
         /\ others = {} => \A col \in ColumnsOf(w.api) : col.name \in uses => col.semantic = "numeric"
         /\ "EXPRESSION_OUTPUT_COLLISION" \in others => output \in DOMAIN w.run.frame
    <2>1. PICK expression : expression = Expression(w.api, output, uses)
        OBVIOUS
    <2>2. AddedCollision(w.api, output) = When(output \in DOMAIN w.run.frame, "COLUMN_COLLISION")
        <3>1. output \in NamesOf(w.api) \ {""} <=> output \in DOMAIN w.run.frame
            BY <1>3, <1>4 DEF Written
        <3> QED
            BY <3>1 DEF AddedCollision, When
    <2>3. PICK others : others = expression \ {"EXPRESSION_UNKNOWN_COLUMN"}
        OBVIOUS
    <2>4. others \in SUBSET {"EXPRESSION_NON_NUMERIC_COLUMN", "EXPRESSION_OUTPUT_INVALID",
                             "EXPRESSION_OUTPUT_COLLISION"}
        BY <2>1, <2>3 DEF Expression, When
    <2>5. expression = When(~ uses \subseteq DOMAIN w.run.frame, "EXPRESSION_UNKNOWN_COLUMN") \cup others
        BY <1>3, <2>1, <2>3 DEF Expression, When
    <2>6. others = {} => \A col \in ColumnsOf(w.api) : col.name \in uses => col.semantic = "numeric"
        <3>1. (\E col \in ColumnsOf(w.api) : col.name \in uses /\ col.semantic # "numeric") =>
                 "EXPRESSION_NON_NUMERIC_COLUMN" \in expression
            BY <2>1 DEF Expression, When
        <3> QED
            BY <2>3, <3>1
    <2>7. "EXPRESSION_OUTPUT_COLLISION" \in others => output \in DOMAIN w.run.frame
        BY <1>3, <2>1, <2>3 DEF Expression, When
    <2> QED
        BY <1>1, <2>1, <2>2, <2>4, <2>5, <2>6, <2>7
<1>6. /\ "columns" \in unmet <=> ~ uses \subseteq DOMAIN w.run.frame
      /\ "collision" \in unmet <=> output \in DOMAIN w.run.frame
      /\ "kind" \in unmet <=> \E n \in uses \cap DOMAIN w.run.frame :
                                 w.run.frame[n].dtype \notin {"number", "boolean"}
    BY <1>2, <1>3 DEF UnmetFormula, RequireNumeric, RequireColumns, ColumnNames, IsNumeric, When
<1>7. ASSUME others = {}, {"mistyped", "outer"} \cap doubts = {} PROVE "kind" \notin unmet
    <2> SUFFICES ASSUME NEW n \in uses \cap DOMAIN w.run.frame
                 PROVE  w.run.frame[n].dtype \in {"number", "boolean"}
        BY <1>6
    <2>1. PICK col \in ColumnsOf(w.api) : n = col.name
        BY <1>3 DEF NamesOf, NamesIn
    <2> QED
        BY <1>3, <1>5, <1>7, <2>1
<1>8. {"mistyped", "outer"} \cap doubts = {} /\ codes = {} =>
          unmet \cap {"columns", "kind", "collision"} = {}
    BY <1>5, <1>6, <1>7 DEF When
<1>9. codes \cap SchemaCodes # {} => unmet # {}
    BY <1>5, <1>6 DEF When, SchemaCodes
<1> QED
    BY <1>8, <1>9

LEMMA JoinFair ==
    ASSUME NEW v, NEW w, Sound(v), Sound(w), NEW S, NEW strategy
    PROVE  Fair("join",
                Given(S) \cup ColumnsExist(S.items, v.api) \cup ColumnsExist(S.items, w.api) \cup
                Disjoint(v.api, w.api, S.items) \cup JoinCollision(v.api, w.api, S.items),
                UnmetJoin(v.run, w.run, S.parsed, strategy), v.doubts \cup w.doubts \cup Misread(S))
<1> PICK keys : keys = S.items
    OBVIOUS
<1>0. PICK schema : schema = ColumnsExist(keys, v.api) \cup ColumnsExist(keys, w.api) \cup
                            Disjoint(v.api, w.api, keys) \cup JoinCollision(v.api, w.api, keys)
    OBVIOUS
<1>1. PICK codes : codes = Given(S) \cup ColumnsExist(S.items, v.api) \cup
                           ColumnsExist(S.items, w.api) \cup
                           Disjoint(v.api, w.api, S.items) \cup JoinCollision(v.api, w.api, S.items)
    OBVIOUS
<1>2. PICK unmet : unmet = UnmetJoin(v.run, w.run, S.parsed, strategy)
    OBVIOUS
<1> SUFFICES ASSUME NamesKnown(v.doubts \cup w.doubts \cup Misread(S))
             PROVE  /\ codes = {} => unmet \cap {"columns", "collision"} = {}
                    /\ codes \cap SchemaCodes # {} => unmet # {}
    BY <1>1, <1>2, GuardedFacts, NoGaps DEF Fair
<1>3. NamesKnown(v.doubts) /\ NamesKnown(w.doubts) /\ NamesKnown(Misread(S))
    BY DEF NamesKnown
<1>4. /\ NamesOf(v.api) = DOMAIN v.run.frame /\ ColumnsOf(v.api) # {}
      /\ NamesOf(w.api) = DOMAIN w.run.frame /\ ColumnsOf(w.api) # {}
      /\ S.parsed = keys
    BY <1>3, NamesTold, MisreadFacts
<1>5. /\ ColumnsExist(keys, v.api) = When(~ keys \subseteq DOMAIN v.run.frame, "KEYS_NOT_FOUND")
      /\ ColumnsExist(keys, w.api) = When(~ keys \subseteq DOMAIN w.run.frame, "KEYS_NOT_FOUND")
      /\ Disjoint(v.api, w.api, keys) =
            When((DOMAIN v.run.frame \cap DOMAIN w.run.frame) \ keys # {}, "COLUMNS_NOT_DISJOINT")
    BY <1>4 DEF ColumnsExist, Disjoint
<1>6. /\ "columns" \in unmet <=> ~ keys \subseteq DOMAIN v.run.frame \cap DOMAIN w.run.frame
      /\ "collision" \in unmet <=> (DOMAIN v.run.frame \ keys) \cap DOMAIN w.run.frame # {}
    BY <1>2, <1>4 DEF UnmetJoin, RequireNames, ColumnNames, When
<1>7. JoinCollision(v.api, w.api, keys) # {} => "collision" \in unmet
    <2> SUFFICES ASSUME NEW col \in AddedRight(w.api, keys), col.name \in NamesOf(v.api)
                 PROVE  "collision" \in unmet
        BY DEF JoinCollision, When
    <2>1. col \in ColumnsOf(w.api) /\ col.name \notin keys
        BY DEF AddedRight
    <2>2. col.name \in DOMAIN w.run.frame
        BY <1>4, <2>1 DEF NamesOf, NamesIn
    <2> QED
        BY <1>4, <1>6, <2>1, <2>2
<1>8. schema # {} => unmet # {}
    BY <1>0, <1>5, <1>6, <1>7 DEF When
<1>9. codes = Given(S) \cup schema /\ Given(S) \cap SchemaCodes = {}
    BY <1>0, <1>1 DEF Given, When, SchemaCodes
<1>10. schema = {} => unmet \cap {"columns", "collision"} = {}
    BY <1>0, <1>5, <1>6 DEF When
<1> QED
    BY <1>8, <1>9, <1>10

LEMMA SplitFair ==
    ASSUME NEW w, Sound(w), NEW stratify \in BOOLEAN
    PROVE  Fair("split", Exists(w.api.target), UnmetSplit(w.run, stratify), w.doubts)
<1>1. Exists(w.api.target) \cap SchemaCodes = {}
    BY DEF Exists, When, SchemaCodes
<1> SUFFICES ASSUME w.doubts \subseteq {"gappy"}, Exists(w.api.target) = {}
             PROVE  UnmetSplit(w.run, stratify) \cap {"task", "target"} = {}
    BY <1>1, GuardedFacts DEF Fair
<1>2. /\ w.api.target = w.run.target /\ w.api.task = w.run.task
      /\ w.run.target # None => w.run.target \in DOMAIN w.run.frame
      /\ w.api.target # None => w.api.task # None
    BY NoGaps, SoundGives
<1>3. w.api.target # None
    BY DEF Exists, When
<1> QED
    BY <1>2, <1>3 DEF UnmetSplit, ColumnNames, When

\* The rules of training, over the task, the role and the target.
LEMMA TrainingFair ==
    ASSUME NEW w, Sound(w), NEW algorithm \in Algorithms, NEW clusters
    PROVE  Fair(IF algorithm = "KMeans" THEN "cluster" ELSE "train",
                TrainingCodes(w.api, algorithm, clusters), UnmetTraining(w.run, algorithm), w.doubts)
<1>1. PICK codes : codes = TrainingCodes(w.api, algorithm, clusters)
    OBVIOUS
<1>2. PICK unmet : unmet = UnmetTraining(w.run, algorithm)
    OBVIOUS
<1>3. codes \cap SchemaCodes = {}
    BY <1>1 DEF TrainingCodes, Eq, Lte, Exists, When, SchemaCodes
<1> SUFFICES ASSUME w.doubts \subseteq {"gappy"}, codes = {}
             PROVE  unmet \cap (IF algorithm = "KMeans" THEN {"task"}
                                ELSE {"role", "task", "target"}) = {}
    BY <1>1, <1>2, <1>3, GuardedFacts DEF Fair
<1>4. /\ w.api.target = w.run.target /\ w.api.task = w.run.task /\ w.api.role = w.run.role
      /\ w.run.target # None => w.run.target \in DOMAIN w.run.frame
    BY NoGaps, SoundGives
<1>5. w.run.task \in Supports(algorithm)
    BY <1>1, <1>4 DEF TrainingCodes, Eq, When
<1>6. CASE algorithm = "KMeans"
    BY <1>2, <1>5, <1>6 DEF UnmetTraining, UnmetKMeans, Supports, RequireNumeric, RequireNoNulls,
                            RequireColumns, When
<1>7. CASE algorithm # "KMeans"
    <2>1. w.run.role = "train" /\ w.run.target \in DOMAIN w.run.frame
        BY <1>1, <1>4, <1>7 DEF TrainingCodes, Exists, Eq, When
    <2> QED
        BY <1>2, <1>5, <1>7, <2>1 DEF UnmetTraining, UnmetTrainingData, RequireNumeric,
                RequireNoNulls, RequireColumns, ColumnNames, When
<1> QED
    BY <1>6, <1>7

\* A model remembers columns that it was trained on.
LEMMA TrainSound ==
    ASSUME NEW w, Sound(w), NEW algorithm \in Algorithms, NEW clusters,
           TrainingCodes(w.api, algorithm, clusters) = {}, UnmetTraining(w.run, algorithm) = {}
    PROVE  SoundModel(Wire(ModelContract(w.api, algorithm), Trained(w.run, algorithm), w.doubts))
<1>1. w.api.task = w.run.task
    BY SoundGives
<1>2. w.api.task \in Supports(algorithm)
    BY DEF TrainingCodes, Eq, When
<1>3. w.api.task # None
    BY <1>2, NoneIsApart DEF Supports, Tasks
<1>4. PICK m : m = Wire(ModelContract(w.api, algorithm), Trained(w.run, algorithm), w.doubts)
    OBVIOUS
<1>5. /\ m.api.task = Or(w.api.task, "classification") /\ m.api.features = w.api.columns
      /\ m.run.task = w.run.task /\ m.run.features = Features(w.run) /\ m.run.target = w.run.target
      /\ m.doubts = w.doubts
    BY <1>4 DEF Wire, ModelContract, Trained
<1>6. ASSUME Sure(m)
      PROVE  /\ m.api.features \in SUBSET Column(Identities)
             /\ m.run.features \subseteq NamesIn(m.api.features)
             /\ m.run.task # "clustering" => m.run.target \in NamesIn(m.api.features)
    <2>1. Sure(w)
        BY <1>5, <1>6 DEF Sure
    <2>2. w.api.columns \in SUBSET Column(Identities) /\ NamesIn(w.api.columns) = DOMAIN w.run.frame
        BY <2>1, SoundGives
    <2>3. ASSUME w.run.task # "clustering" PROVE w.run.target \in DOMAIN w.run.frame
        <3>1. algorithm # "KMeans"
            BY <1>1, <1>2, <2>3 DEF Supports
        <3> QED
            BY <3>1 DEF UnmetTraining, UnmetTrainingData, ColumnNames
    <2> QED
        BY <1>5, <2>2, <2>3 DEF Features, ColumnNames
<1> QED
    BY <1>1, <1>3, <1>4, <1>5, <1>6 DEF SoundModel, Or

\* The rules of evaluation compare the model's columns with the test set's.
LEMMA EvaluateFair ==
    ASSUME NEW w, NEW m, Sound(w), SoundModel(m)
    PROVE  Fair("evaluate", EvaluationCodes(m.api, w.api), UnmetEvaluate(m.run, w.run),
                w.doubts \cup m.doubts)
<1>1. PICK codes : codes = EvaluationCodes(m.api, w.api)
    OBVIOUS
<1>2. PICK unmet : unmet = UnmetEvaluate(m.run, w.run)
    OBVIOUS
<1>3. codes \cap SchemaCodes = {}
    BY <1>1 DEF EvaluationCodes, Eq, FeatureSubset, SubsetOf, When, SchemaCodes
<1> SUFFICES ASSUME w.doubts \subseteq {"gappy"}, m.doubts \subseteq {"gappy"}, codes = {}
             PROVE  unmet \cap {"role", "task", "columns", "target"} = {}
    BY <1>1, <1>2, <1>3, GuardedFacts DEF Fair
<1>4. Sure(w) /\ Sure(m)
    BY NoGaps DEF Sure
<1>5. /\ w.api.role = w.run.role /\ w.api.task = w.run.task
      /\ NamesIn(w.api.columns) = DOMAIN w.run.frame
    BY <1>4, SoundGives
<1>6. /\ m.api.task = m.run.task
      /\ m.run.features \subseteq NamesIn(m.api.features)
      /\ m.run.task # "clustering" => m.run.target \in NamesIn(m.api.features)
    BY <1>4 DEF SoundModel
<1>7. w.api.role = "test" /\ m.api.task = w.api.task /\ m.api.features \subseteq w.api.columns
    BY <1>1 DEF EvaluationCodes, Eq, FeatureSubset, SubsetOf, When
<1>8. NamesIn(m.api.features) \subseteq DOMAIN w.run.frame
    BY <1>5, <1>7 DEF NamesIn
<1>9. /\ w.run.role = "test" /\ m.run.task = w.run.task
      /\ m.run.features \subseteq DOMAIN w.run.frame
      /\ m.run.task # "clustering" => m.run.target \in DOMAIN w.run.frame
    BY <1>5, <1>6, <1>7, <1>8
<1> QED
    BY <1>2, <1>9 DEF UnmetEvaluate, RequireNumeric, RequireNoNulls, RequireColumns, ColumnNames, When

LEMMA SaveFair ==
    ASSUME NEW named \in BOOLEAN, NEW unmet, NEW doubts
    PROVE  Fair("save", When(~ named, "REQUIRED_FIELD_MISSING"), unmet, doubts)
<1>1. When(~ named, "REQUIRED_FIELD_MISSING") \in SUBSET {"REQUIRED_FIELD_MISSING"}
    BY DEF When
<1> QED
    BY <1>1, UnguardedFair

-----------------------------------------------------------------------------
(* The invariant.                                                          *)

LEMMA InitBench == Init => BenchInv
BY DEF Init, BenchInv, Cleared, Open, GuardedNeverFails, SchemaRefusalsAreReal

\* Nothing is open after a pipeline is refused or fails.
LEMMA ClearedBench ==
    /\ Cleared \in [Ends -> Wires \cup {None}]
    /\ \A e \in Ends : Cleared[e] = None
BY DEF Cleared

LEMMA RunsFacts ==
    ASSUME NEW codes, NEW unmet
    PROVE  Runs(codes, unmet) <=> codes = {} /\ unmet = {}
BY DEF Runs

LEMMA FreshIdentity ==
    ASSUME NEW e, Unheld(e) # {}
    PROVE  Fresh(e) \in Identities
BY DEF Fresh, Unheld, Identities

\* What a block leaves open, if it runs.
GoodWires(wires) ==
    /\ wires \in [Ends -> Wires \cup {None}]
    /\ \A e \in Ends : wires[e] # None => Sound(wires[e])

LEMMA PlaceStep ==
    ASSUME BenchInv, NEW block, NEW codes, NEW unmet, NEW doubts, NEW wires, NEW made,
           Place(block, codes, unmet, doubts, wires, made), Fair(block, codes, unmet, doubts),
           codes = {} /\ unmet = {} => GoodWires(wires) /\ (made # None => SoundModel(made))
    PROVE  BenchInv'
<1>1. GuardedNeverFails' /\ SchemaRefusalsAreReal'
    BY PlaceFair
<1>2. CASE Runs(codes, unmet)
    <2>1. bench' = wires /\ model' = made /\ codes = {} /\ unmet = {}
        BY <1>2, RunsFacts DEF Place
    <2> QED
        BY <1>1, <2>1 DEF BenchInv, GoodWires, Open
<1>3. CASE ~ Runs(codes, unmet)
    <2>1. bench' = Cleared /\ model' = None
        BY <1>3 DEF Place
    <2> QED
        BY <1>1, <2>1, ClearedBench DEF BenchInv, Open
<1> QED
    BY <1>2, <1>3

LEMMA UnaryStep ==
    ASSUME BenchInv, NEW e \in Ends, NEW block, NEW codes, NEW unmet, NEW api, NEW run,
           NEW own, NEW doubts,
           Unary(e, block, codes, unmet, api, run, own, doubts),
           Fair(block, codes, unmet, bench[e].doubts \cup own),
           codes = {} /\ unmet = {} => Sound(Wire(api, run, doubts))
    PROVE  BenchInv'
<1>1. PICK w : w = Wire(api, run, doubts)
    OBVIOUS
<1>2. PICK wires : wires = [bench EXCEPT ![e] = w]
    OBVIOUS
<1>3. Place(block, codes, unmet, bench[e].doubts \cup own, wires, model)
    BY <1>1, <1>2 DEF Unary
<1>4. codes = {} /\ unmet = {} => GoodWires(wires)
    <2> SUFFICES ASSUME codes = {}, unmet = {} PROVE GoodWires(wires)
        OBVIOUS
    <2>1. Sound(w) /\ w \in Wires
        BY <1>1 DEF Sound
    <2> QED
        BY <1>2, <2>1 DEF GoodWires, BenchInv, Open
<1>5. model # None => SoundModel(model)
    BY DEF BenchInv
<1> QED
    BY <1>3, <1>4, <1>5, PlaceStep

LEMMA UnaryBlockStep ==
    ASSUME BenchInv, NEW e \in Ends, UnaryBlock(e)
    PROVE  BenchInv'
<1>1. Open(e) /\ Unheld(e) # {}
    BY DEF UnaryBlock, Normalize, FeatureSelect, Encode, Impute, SelectTarget, Rename,
           FilterRows, Formula, Unary
<1>2. PICK w : w = bench[e]
    OBVIOUS
<1>3. Sound(w)
    BY <1>1, <1>2 DEF BenchInv
<1>4. PICK id : id = Fresh(e)
    OBVIOUS
<1>5. id \in Identities
    BY <1>1, <1>4, FreshIdentity
<1>6. ASSUME NEW S \in Picks, Normalize(e, S) PROVE BenchInv'
    <2>1. Fair("normalize", {}, UnmetNormalize(w.run, S.parsed), w.doubts \cup {})
        BY UnguardedFair
    <2>2. Unary(e, "normalize", {}, UnmetNormalize(w.run, S.parsed),
                Updated(w.api, S.names, [NoUpdate EXCEPT !.primitive = "number"], id),
                Normalized(w.run, S.parsed), {}, w.doubts \cup Reread(S))
        BY <1>2, <1>4, <1>6 DEF Normalize
    <2> QED
        BY <1>2, <1>3, <1>5, <2>1, <2>2, NormalizeSound, UnaryStep
<1>7. ASSUME NEW S \in Picks, FeatureSelect(e, S) PROVE BenchInv'
    <2>1. Unary(e, "select", IF w.api.target = None THEN {} ELSE SubsetOf({w.api.target}, S.items),
                UnmetSelect(w.run, S.parsed), Kept(w.api, S.names), Selected(w.run, S.parsed),
                Misread(S), w.doubts \cup Reread(S))
        BY <1>2, <1>7 DEF FeatureSelect
    <2> QED
        BY <1>2, <1>3, <2>1, SelectFair, SelectSound, UnaryStep
<1>8. ASSUME NEW S \in Picks, NEW strategy \in {"Label", "OneHot"}, Encode(e, S, strategy)
      PROVE  BenchInv'
    <2>1. Fair("encode", {}, UnmetEncode(w.run, S.parsed, strategy), w.doubts \cup {})
        BY UnguardedFair
    <2>2. Unary(e, "encode", {}, UnmetEncode(w.run, S.parsed, strategy),
                Updated(w.api, S.names, [NoUpdate EXCEPT !.primitive = "number", !.semantic = "numeric"], id),
                Encoded(w.run, S.parsed, strategy), {},
                w.doubts \cup Reread(S) \cup When(strategy = "OneHot", "expanded"))
        BY <1>2, <1>4, <1>8 DEF Encode
    <2> QED
        BY <1>2, <1>3, <1>5, <2>1, <2>2, EncodeSound, UnaryStep
<1>9. ASSUME NEW S \in Picks, NEW strategy \in {"Mean", "Mode"}, Impute(e, S, strategy)
      PROVE  BenchInv'
    <2>1. PICK doubts : doubts = w.doubts \cup Reread(S) \cup
                                 When(\E n \in S.parsed \cap ColumnNames(w.run) :
                                        "None" \in w.run.frame[n].missing, "gappy")
        OBVIOUS
    <2>2. Fair("impute", {}, UnmetImpute(w.run, S.parsed, strategy), w.doubts \cup {})
        BY UnguardedFair
    <2>3. Unary(e, "impute", {}, UnmetImpute(w.run, S.parsed, strategy),
                Updated(w.api, S.names, [NoUpdate EXCEPT !.nullable = FALSE], id),
                Imputed(w.run, S.parsed, strategy), {}, doubts)
        BY <1>2, <1>4, <1>9, <2>1 DEF Impute
    <2>4. Sound(Wire(Updated(w.api, S.names, [NoUpdate EXCEPT !.nullable = FALSE], id),
                     Imputed(w.run, S.parsed, strategy), doubts))
        BY <1>3, <1>5, <2>1, ImputeSound
    <2> QED
        BY <1>2, <2>2, <2>3, <2>4, UnaryStep
<1>10. ASSUME NEW task \in Tasks, NEW target \in Fields \cup {None}, SelectTarget(e, task, target)
       PROVE  BenchInv'
    <2>0. target \in Names \cup {None}
        BY BlocksAssumption
    <2>1. PICK api : api = WithFields(w.api, target, None, task)
        OBVIOUS
    <2>2. PICK run : run = Targeted(w.run, task, Read(target))
        OBVIOUS
    <2>3. PICK codes : codes =
             (IF task \in {"classification", "regression"} THEN Exists(target) ELSE {}) \cup
             (IF task = "classification" THEN Semantic(w.api, target, "categorical") ELSE {}) \cup
             (IF task = "regression" THEN Semantic(w.api, target, "numeric") ELSE {})
        OBVIOUS
    <2>4. PICK doubts : doubts = (w.doubts \ {"retargeted"}) \cup
                                 When(api.target # run.target, "retargeted")
        OBVIOUS
    <2>5. Unary(e, "target", codes, UnmetTarget(w.run, task, Read(target)), api, run,
                MisreadName(target), doubts)
        BY <1>2, <1>10, <2>1, <2>2, <2>3, <2>4 DEF SelectTarget
    <2>6. Fair("target", codes, UnmetTarget(w.run, task, Read(target)),
               w.doubts \cup MisreadName(target))
        BY <1>3, <2>0, <2>3, TargetFair
    <2>7. UnmetTarget(w.run, task, Read(target)) = {} => Sound(Wire(api, run, doubts))
        BY <1>3, <2>0, <2>1, <2>2, <2>4, TargetSound
    <2> QED
        BY <1>2, <2>5, <2>6, <2>7, UnaryStep
<1>11. ASSUME NEW from \in Fields, NEW to \in Fields, Rename(e, from, to) PROVE BenchInv'
    <2>0. from \in Names /\ to \in Names
        BY BlocksAssumption
    <2>1. Fair("rename", {}, UnmetRename(w.run, Read(from), Read(to)), w.doubts \cup {})
        BY UnguardedFair
    <2>2. Unary(e, "rename", {}, UnmetRename(w.run, Read(from), Read(to)),
                RenamedColumns(w.api, from, to, id), RenamedFrame(w.run, Read(from), Read(to)), {},
                w.doubts \cup MisreadName(from) \cup MisreadName(to) \cup
                When(Read(from) = w.run.target, "retargeted"))
        BY <1>2, <1>4, <1>11 DEF Rename
    <2> QED
        BY <1>2, <1>3, <1>5, <2>0, <2>1, <2>2, RenameSound, UnaryStep
<1>12. ASSUME NEW n, NEW op, NEW invert, FilterRows(e, n, op, invert) PROVE BenchInv'
    <2>1. Unary(e, "filter", Condition(w.api, n, op), UnmetFilter(w.run, Read(n), op),
                w.api, Filtered(w.run, Read(n), op, invert), MisreadName(n), w.doubts)
        BY <1>2, <1>12 DEF FilterRows
    <2> QED
        BY <1>2, <1>3, <2>1, FilterFair, FilterSound, UnaryStep
<1>13. ASSUME NEW output \in Fields, NEW uses, NEW type \in {"number", "boolean"},
              Formula(e, output, uses, type)
       PROVE  BenchInv'
    <2>0. output \in Names
        BY BlocksAssumption
    <2>1. PICK codes : codes = Expression(w.api, output, uses) \cup AddedCollision(w.api, output)
        OBVIOUS
    <2>2. PICK unmet : unmet = UnmetFormula(w.run, Read(output), uses)
        OBVIOUS
    <2>3. PICK api : api = AddedColumn(w.api, output, type, id)
        OBVIOUS
    <2>4. PICK run : run = WithFormula(w.run, Read(output), uses, type)
        OBVIOUS
    <2>5. Unary(e, "formula", codes, unmet, api, run, MisreadName(output), w.doubts)
        BY <1>2, <1>4, <1>13, <2>1, <2>2, <2>3, <2>4 DEF Formula
    <2>6. Fair("formula", codes, unmet, w.doubts \cup MisreadName(output))
        BY <1>3, <2>0, <2>1, <2>2, FormulaFair
    <2>7. ASSUME codes = {}, unmet = {} PROVE Sound(Wire(api, run, w.doubts))
        <3>1. Expression(w.api, output, uses) = {}
            BY <2>1, <2>7
        <3>2. Read(output) = output /\ output \in Written
            BY <2>0, <2>2, <2>7, <3>1, OutputFacts
        <3>3. UnmetFormula(w.run, output, uses) = {} /\ run = WithFormula(w.run, output, uses, type)
            BY <2>2, <2>4, <2>7, <3>2
        <3> QED
            BY <1>3, <1>5, <2>3, <3>2, <3>3, FormulaSound
    <2> QED
        BY <1>2, <2>5, <2>6, <2>7, UnaryStep
<1> QED
    BY <1>6, <1>7, <1>8, <1>9, <1>10, <1>11, <1>12, <1>13 DEF UnaryBlock

LEMMA LoadStep ==
    ASSUME BenchInv, NEW e \in Ends, NEW s \in Sources, Load(e, s)
    PROVE  BenchInv'
<1>1. PICK w : w = Wire(SourceContract(s.profile, Fresh(e)), Loaded(s.frame), ProfileDoubts(s))
    OBVIOUS
<1>2. Sound(w) /\ w \in Wires
    <2>1. Sound(w)
        BY <1>1, FreshIdentity, LoadSound DEF Load
    <2> QED
        BY <2>1 DEF Sound
<1>3. PICK wires : wires = [bench EXCEPT ![e] = w]
    OBVIOUS
<1>4. Place("load", {}, {}, {}, wires, model)
    BY <1>1, <1>3 DEF Load
<1>5. Fair("load", {}, {}, {})
    BY UnguardedFair
<1>6. GoodWires(wires)
    BY <1>2, <1>3 DEF GoodWires, BenchInv, Open
<1>7. model # None => SoundModel(model)
    BY DEF BenchInv
<1> QED
    BY <1>4, <1>5, <1>6, <1>7, PlaceStep

LEMMA BranchStep == BenchInv /\ Branch => BenchInv'
<1> SUFFICES ASSUME BenchInv, Branch PROVE BenchInv'
    OBVIOUS
<1>1. "a" \in Ends /\ "b" \in Ends
    BY DEF Ends
<1>2. GuardedNeverFails' /\ SchemaRefusalsAreReal'
    BY DEF BenchInv, Branch, GuardedNeverFails, SchemaRefusalsAreReal
<1> QED
    BY <1>1, <1>2 DEF BenchInv, Branch, Open

LEMMA SplitStep ==
    ASSUME BenchInv, NEW stratify \in BOOLEAN, Split(stratify)
    PROVE  BenchInv'
<1>1. PICK w : w = bench["a"]
    OBVIOUS
<1>2. Sound(w)
    BY <1>1 DEF Split, BenchInv, Ends
<1>3. PICK train : train = Wire(WithFields(w.api, None, "train", None),
                                [w.run EXCEPT !.role = "train"], w.doubts)
    OBVIOUS
<1>4. PICK test : test = Wire(WithFields(w.api, None, "test", None),
                              [w.run EXCEPT !.role = "test"], w.doubts)
    OBVIOUS
<1>5. Sound(train) /\ Sound(test)
    BY <1>2, <1>3, <1>4, SplitSound DEF Roles
<1>6. train \in Wires /\ test \in Wires
    BY <1>5 DEF Sound
<1>7. PICK wires : wires = [a |-> train, b |-> test]
    OBVIOUS
<1>8. Place("split", Exists(w.api.target), UnmetSplit(w.run, stratify), w.doubts, wires, model)
    BY <1>1, <1>3, <1>4, <1>7 DEF Split
<1>9. GoodWires(wires)
    BY <1>5, <1>6, <1>7 DEF GoodWires, Ends
<1>10. model # None => SoundModel(model)
    BY DEF BenchInv
<1> QED
    BY <1>2, <1>8, <1>9, <1>10, SplitFair, PlaceStep

LEMMA BinaryStep ==
    ASSUME BenchInv, NEW block, NEW codes, NEW unmet, NEW api, NEW run, NEW own, NEW doubts,
           Binary(block, codes, unmet, api, run, own, doubts),
           Fair(block, codes, unmet, bench["a"].doubts \cup bench["b"].doubts \cup own),
           codes = {} /\ unmet = {} => Sound(Wire(api, run, doubts))
    PROVE  BenchInv'
<1>1. PICK w : w = Wire(api, run, doubts)
    OBVIOUS
<1>2. PICK wires : wires = [a |-> w, b |-> None]
    OBVIOUS
<1>3. Place(block, codes, unmet, bench["a"].doubts \cup bench["b"].doubts \cup own, wires, model)
    BY <1>1, <1>2 DEF Binary
<1>4. codes = {} /\ unmet = {} => GoodWires(wires)
    <2> SUFFICES ASSUME codes = {}, unmet = {} PROVE GoodWires(wires)
        OBVIOUS
    <2>1. Sound(w) /\ w \in Wires
        BY <1>1 DEF Sound
    <2> QED
        BY <1>2, <2>1 DEF GoodWires, Ends
<1>5. model # None => SoundModel(model)
    BY DEF BenchInv
<1> QED
    BY <1>3, <1>4, <1>5, PlaceStep

LEMMA BinaryBlockStep == BenchInv /\ BinaryBlock => BenchInv'
<1> SUFFICES ASSUME BenchInv, BinaryBlock PROVE BenchInv'
    OBVIOUS
<1>1. PICK v : v = bench["a"]
    OBVIOUS
<1>2. PICK w : w = bench["b"]
    OBVIOUS
<1>3. Sound(v) /\ Sound(w)
    BY <1>1, <1>2 DEF BinaryBlock, Join, FeatureUnion, Binary, BenchInv, Ends
<1>4. ASSUME NEW S \in Picks, NEW strategy \in {"inner", "left", "right", "full"},
             NEW unmatched \in BOOLEAN, Join(S, strategy, unmatched)
      PROVE  BenchInv'
    <2>1. PICK codes : codes =
             Given(S) \cup ColumnsExist(S.items, v.api) \cup ColumnsExist(S.items, w.api) \cup
             Disjoint(v.api, w.api, S.items) \cup JoinCollision(v.api, w.api, S.items)
        OBVIOUS
    <2>2. PICK doubts : doubts = v.doubts \cup w.doubts \cup Misread(S) \cup
                                 When(strategy # "inner", "outer")
        OBVIOUS
    <2>3. Binary("join", codes, UnmetJoin(v.run, w.run, S.parsed, strategy),
                 Joined(v.api, w.api, S.items),
                 JoinedFrame(v.run, w.run, S.parsed, strategy, unmatched), Misread(S), doubts)
        BY <1>1, <1>2, <1>4, <2>1, <2>2 DEF Join
    <2>4. Fair("join", codes, UnmetJoin(v.run, w.run, S.parsed, strategy),
               v.doubts \cup w.doubts \cup Misread(S))
        BY <1>3, <2>1, JoinFair
    <2>5. UnmetJoin(v.run, w.run, S.parsed, strategy) = {} =>
             Sound(Wire(Joined(v.api, w.api, S.items),
                        JoinedFrame(v.run, w.run, S.parsed, strategy, unmatched), doubts))
        BY <1>3, <2>2, JoinSound
    <2> QED
        BY <1>1, <1>2, <2>3, <2>4, <2>5, BinaryStep
<1>5. ASSUME NEW aligned \in BOOLEAN, FeatureUnion(aligned) PROVE BenchInv'
    <2>1. Binary("union", {}, UnmetUnion(aligned), Concatenated(v.api, w.api),
                 United(v.run, w.run), {}, v.doubts \cup w.doubts)
        BY <1>1, <1>2, <1>5 DEF FeatureUnion
    <2>2. Fair("union", {}, UnmetUnion(aligned), v.doubts \cup w.doubts \cup {})
        BY UnguardedFair
    <2>3. Sound(Wire(Concatenated(v.api, w.api), United(v.run, w.run), v.doubts \cup w.doubts))
        BY <1>3, UnionSound
    <2> QED
        BY <1>1, <1>2, <2>1, <2>2, <2>3, BinaryStep
<1> QED
    BY <1>4, <1>5 DEF BinaryBlock

LEMMA ModelBlockStep == BenchInv /\ ModelBlock => BenchInv'
<1> SUFFICES ASSUME BenchInv, ModelBlock PROVE BenchInv'
    OBVIOUS
<1>0. GoodWires(bench) /\ (model # None => SoundModel(model))
    BY DEF GoodWires, BenchInv, Open
<1>1. ASSUME NEW e \in Ends, NEW algorithm \in Algorithms, NEW clusters, Train(e, algorithm, clusters)
      PROVE  BenchInv'
    <2>1. PICK w : w = bench[e]
        OBVIOUS
    <2>2. Sound(w)
        BY <1>1, <2>1 DEF Train, BenchInv
    <2>3. PICK codes : codes = TrainingCodes(w.api, algorithm, clusters)
        OBVIOUS
    <2>4. PICK unmet : unmet = UnmetTraining(w.run, algorithm)
        OBVIOUS
    <2>5. PICK m : m = Wire(ModelContract(w.api, algorithm), Trained(w.run, algorithm), w.doubts)
        OBVIOUS
    <2>6. PICK block : block = IF algorithm = "KMeans" THEN "cluster" ELSE "train"
        OBVIOUS
    <2>7. Place(block, codes, unmet, w.doubts, bench, m)
        BY <1>1, <2>1, <2>3, <2>4, <2>5, <2>6 DEF Train
    <2>8. Fair(block, codes, unmet, w.doubts)
        BY <2>2, <2>3, <2>4, <2>6, TrainingFair
    <2>9. codes = {} /\ unmet = {} => SoundModel(m)
        BY <2>2, <2>3, <2>4, <2>5, TrainSound
    <2> QED
        BY <1>0, <2>7, <2>8, <2>9, PlaceStep
<1>2. ASSUME NEW e \in Ends, Evaluate(e) PROVE BenchInv'
    <2>1. PICK w : w = bench[e]
        OBVIOUS
    <2>2. Sound(w) /\ SoundModel(model)
        BY <1>2, <2>1 DEF Evaluate, BenchInv
    <2>3. PICK wires : wires = [bench EXCEPT ![e] = None]
        OBVIOUS
    <2>4. Place("evaluate", EvaluationCodes(model.api, w.api), UnmetEvaluate(model.run, w.run),
                w.doubts \cup model.doubts, wires, model)
        BY <1>2, <2>1, <2>3 DEF Evaluate
    <2>5. GoodWires(wires)
        BY <1>0, <2>3 DEF GoodWires
    <2> QED
        BY <1>0, <2>2, <2>4, <2>5, EvaluateFair, PlaceStep
<1>3. ASSUME NEW format \in {"joblib", "onnx"}, NEW named \in BOOLEAN, SaveModel(format, named)
      PROVE  BenchInv'
    <2>1. PICK codes : codes = When(~ named, "REQUIRED_FIELD_MISSING")
        OBVIOUS
    <2>2. PICK unmet : unmet = UnmetSave(model.run, format, named)
        OBVIOUS
    <2>3. Place("save", codes, unmet, model.doubts, bench, None)
        BY <1>3, <2>1, <2>2 DEF SaveModel
    <2>4. Fair("save", codes, unmet, model.doubts)
        BY <2>1, SaveFair
    <2> QED
        BY <1>0, <2>3, <2>4, PlaceStep
<1> QED
    BY <1>1, <1>2, <1>3 DEF ModelBlock

LEMMA BenchStep == BenchInv /\ [Next]_vars => BenchInv'
<1> SUFFICES ASSUME BenchInv, [Next]_vars PROVE BenchInv'
    OBVIOUS
<1>1. CASE UNCHANGED vars
    BY <1>1 DEF vars, BenchInv, Open, GuardedNeverFails, SchemaRefusalsAreReal
<1>2. CASE Next
    BY <1>2, LoadStep, UnaryBlockStep, BranchStep, SplitStep, BinaryBlockStep, ModelBlockStep DEF Next
<1> QED
    BY <1>1, <1>2

\* Whatever blocks a pipeline is made of, the wires stay sound and the last
\* block is one that the rules guard.
THEOREM Invariant == Spec => []BenchInv
<1>1. Init => BenchInv
    BY InitBench
<1>2. BenchInv /\ [Next]_vars => BenchInv'
    BY BenchStep
<1> QED
    BY <1>1, <1>2, PTL DEF Spec

\* The contract that the engine computes for a wire describes the value that
\* the worker computes, for any columns, datasets and blocks before it.
THEOREM ContractsDescribeHolds == Spec => []ContractsDescribe
<1>1. BenchInv => ContractsDescribe
    BY DEF BenchInv, ContractsDescribe, Sound
<1> QED
    BY <1>1, Invariant, PTL

\* What a rule of the catalogue is there to check does not fail in the worker
\* after the API has admitted the pipeline.
THEOREM GuardedNeverFailsHolds == Spec => []GuardedNeverFails
<1>1. BenchInv => GuardedNeverFails
    BY DEF BenchInv
<1> QED
    BY <1>1, Invariant, PTL

\* The API refuses no pipeline over column names that would have run.
THEOREM SchemaRefusalsAreRealHolds == Spec => []SchemaRefusalsAreReal
<1>1. BenchInv => SchemaRefusalsAreReal
    BY DEF BenchInv
<1> QED
    BY <1>1, Invariant, PTL
=============================================================================
