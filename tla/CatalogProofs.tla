--------------------------- MODULE CatalogProofs ---------------------------
(***************************************************************************)
(* Proofs about the catalogue, for any numbers of rows, names, callers and *)
(* page sizes.  Every step does one of two things to the rows: it replaces *)
(* each by one that keeps its identity (Revised), or it adds one under an  *)
(* id and a slug not taken (Inserted).  The invariants are proved against  *)
(* these two shapes.                                                       *)
(***************************************************************************)
EXTENDS Catalog, FiniteSetTheorems, TLAPS

Revised ==
  \E f \in [rows -> Row] :
    /\ \A row \in rows : KeepsRow(row, f[row])
    /\ rows' = {f[row] : row \in rows}

Inserted ==
  \E new \in Row :
    /\ new.id \notin Taken /\ SlugFree(new.table, new.slug)
    /\ \/ new.refs = {}
       \/ \E c \in Clients : /\ Creating(c) /\ call[c].table = new.table
                             /\ call[c].refs = new.refs
    /\ rows' = rows \cup {new}

----------------------------------------------------------------------------
(* Types.                                                                  *)

LEMMA InsertShape ==
  ASSUME TypeOK, NEW table \in Tables, NEW refs \in SUBSET Refs,
         \/ refs = {}
         \/ \E c \in Clients : /\ Creating(c) /\ call[c].table = table
                               /\ call[c].refs = refs,
         Insert(table, refs)
  PROVE  Inserted
<1>1. PICK id \in Ids \ Taken, slug \in Known :
        /\ SlugFree(table, slug)
        /\ rows' = rows \cup {[table |-> table, id |-> id, slug |-> slug,
                               name |-> "given", refs |-> refs,
                               gone |-> FALSE]}
  BY DEF Insert
<1> DEFINE new == [table |-> table, id |-> id, slug |-> slug,
                   name |-> "given", refs |-> refs, gone |-> FALSE]
<1>2. slug \in Ids \cup Slugs
  BY DEF Known, Taken, TypeOK, Row
<1>3. new \in Row
  BY <1>2 DEF Row
<1>4. /\ new.id = id /\ new.table = table /\ new.slug = slug
      /\ new.refs = refs
  OBVIOUS
<1> HIDE DEF new
<1>5. QED
  BY <1>1, <1>3, <1>4 DEF new, Inserted

LEMMA CreateShape ==
  ASSUME TypeOK, NEW c \in Clients, CreateEnd(c)
  PROVE  Inserted
<1>1. call[c] \in Request
  BY DEF CreateEnd, Creating, TypeOK, Walk, Idle
<1>2. call[c].table \in Tables /\ call[c].refs \in SUBSET Refs
  BY <1>1 DEF Request, Linking, Tables
<1>3. QED
  BY <1>2, InsertShape DEF CreateEnd

LEMMA ArchiveShape == ASSUME TypeOK, Archive PROVE Revised
<1>1. PICK table \in Tables, name \in Known :
        LET hit == {row \in Found(table, name) : ~row.gone}
        IN  rows' = (rows \ hit) \cup {Archived(row) : row \in hit}
  BY DEF Archive
<1> DEFINE hit == {row \in Found(table, name) : ~row.gone}
           f == [row \in rows |-> IF row \in hit THEN Archived(row) ELSE row]
<1>2. hit \subseteq rows
  BY DEF Found, InTable
<1>3. \A row \in rows : Archived(row) \in Row /\ KeepsRow(row, Archived(row))
  BY DEF TypeOK, Row, Archived, KeepsRow
<1>4. \A row \in rows : row \in Row /\ KeepsRow(row, row)
  BY DEF TypeOK, KeepsRow
<1>5. rows' = (rows \ hit) \cup {Archived(row) : row \in hit}
  BY <1>1
<1> HIDE DEF hit
<1>6. f \in [rows -> Row]
  BY <1>3, <1>4
<1>7. \A row \in rows : KeepsRow(row, f[row])
  BY <1>3, <1>4
<1>8. rows' = {f[row] : row \in rows}
  BY <1>2, <1>5
<1>9. QED
  BY <1>6, <1>7, <1>8 DEF Revised

LEMMA UpdateShape == ASSUME TypeOK, UpdateCustomer PROVE Revised
<1>1. PICK name \in Known :
        LET hit == Renamable(name)
        IN  rows' = (rows \ hit) \cup {Renamed(row) : row \in hit}
  BY DEF UpdateCustomer
<1> DEFINE hit == Renamable(name)
           f == [row \in rows |-> IF row \in hit THEN Renamed(row) ELSE row]
<1>2. hit \subseteq rows
  BY DEF Renamable, Found, InTable
<1>3. \A row \in hit : row.table = "customers" /\ ~row.gone
  BY DEF Renamable, Found, InTable
<1>4. \A row \in hit : Renamed(row) \in Row /\ KeepsRow(row, Renamed(row))
  BY <1>2, <1>3 DEF TypeOK, Row, Renamed, KeepsRow
<1>5. \A row \in rows : row \in Row /\ KeepsRow(row, row)
  BY DEF TypeOK, KeepsRow
<1>6. rows' = (rows \ hit) \cup {Renamed(row) : row \in hit}
  BY <1>1
<1> HIDE DEF hit
<1>7. f \in [rows -> Row]
  BY <1>4, <1>5
<1>8. \A row \in rows : KeepsRow(row, f[row])
  BY <1>4, <1>5
<1>9. rows' = {f[row] : row \in rows}
  BY <1>2, <1>6
<1>10. QED
  BY <1>7, <1>8, <1>9 DEF Revised

LEMMA StepShape ==
  ASSUME TypeOK, [Next]_vars
  PROVE  Revised \/ Inserted
<1>1. CASE UNCHANGED rows
  <2>1. [row \in rows |-> row] \in [rows -> Row]
    BY DEF TypeOK
  <2>2. QED
    BY <1>1, <2>1 DEF Revised, KeepsRow
<1>2. CASE CreateCustomer \/ CreateMeter
  BY <1>2, InsertShape DEF CreateCustomer, CreateMeter, Tables
<1>3. CASE Archive
  BY <1>3, ArchiveShape
<1>4. CASE UpdateCustomer
  BY <1>4, UpdateShape
<1>5. ASSUME NEW c \in Clients, CreateEnd(c) PROVE Inserted
  BY <1>5, CreateShape
<1>6. QED
  BY <1>1, <1>2, <1>3, <1>4, <1>5
  DEF Next, vars, CreateBegin, Lookup, CreateFails, WalkBegin, WalkPage,
      WalkEnd

LEMMA RowsTyped ==
  ASSUME TypeOK, Revised \/ Inserted
  PROVE  (rows \subseteq Row)'
BY DEF TypeOK, Revised, Inserted

LEMMA ListedIds ==
  ASSUME TypeOK, NEW table, NEW all
  PROVE  Listed(table, all) \subseteq Ids
BY DEF Listed, InTable, TypeOK, Row

LEMMA CallsTyped ==
  ASSUME TypeOK, [Next]_vars
  PROVE  (call \in [Clients -> Request \cup Walk \cup {Idle}])'
<1> USE CatalogAssumption
<1> DEFINE Call == Request \cup Walk \cup {Idle}
<1>1. CASE UNCHANGED call
  BY <1>1 DEF TypeOK
<1>2. CASE CreateCustomer \/ CreateMeter \/ Archive \/ UpdateCustomer
  BY <1>1, <1>2 DEF CreateCustomer, CreateMeter, Archive, UpdateCustomer
<1>3. ASSUME NEW c \in Clients, NEW new \in Call,
             call' = [call EXCEPT ![c] = new]
      PROVE  call' \in [Clients -> Call]
  BY <1>3 DEF TypeOK
<1>4. ASSUME NEW c \in Clients, CreateBegin(c)
      PROVE  \E new \in Call : call' = [call EXCEPT ![c] = new]
  <2>1. PICK table \in Linking, named \in SUBSET Known :
          call' = [call EXCEPT ![c] = [op |-> "create", table |-> table,
                                       named |-> named, refs |-> {}]]
    BY <1>4 DEF CreateBegin
  <2>2. named \in SUBSET (Ids \cup Slugs)
    BY DEF Known, Taken, TypeOK, Row
  <2>3. [op |-> "create", table |-> table, named |-> named, refs |-> {}]
          \in Request
    BY <2>2 DEF Request
  <2>4. QED
    BY <2>1, <2>3
<1>5. ASSUME NEW c \in Clients, Lookup(c)
      PROVE  \E new \in Call : call' = [call EXCEPT ![c] = new]
  <2>1. call[c] \in Request
    BY <1>5 DEF Lookup, Creating, TypeOK, Walk, Idle
  <2> DEFINE Picks(name, row) ==
               LET stored == IF call[c].table = "features" THEN row.id ELSE name
                   ref == [name |-> stored, id |-> row.id]
               IN  call' = [call EXCEPT ![c].named = @ \ {name},
                                        ![c].refs = @ \cup {ref}]
  <2>a. PICK name \in call[c].named :
          \E row \in Found(Referenced(call[c].table), name) : Picks(name, row)
    BY <1>5 DEF Lookup
  <2>2. PICK row \in Found(Referenced(call[c].table), name) : Picks(name, row)
    BY <2>a
  <2> DEFINE stored == IF call[c].table = "features" THEN row.id ELSE name
             ref == [name |-> stored, id |-> row.id]
             new == [call[c] EXCEPT !.named = @ \ {name},
                                    !.refs = @ \cup {ref}]
  <2>3. row \in Row
    BY DEF Found, InTable, TypeOK
  <2>4. row.id \in Ids /\ name \in Ids \cup Slugs
    BY <2>1, <2>3 DEF Row, Request
  <2>5. ref \in Refs
    BY <2>4 DEF Refs
  <2>6. call' = [call EXCEPT ![c] = new]
    BY <2>2 DEF TypeOK
  <2> HIDE DEF ref
  <2>7. new \in Request
    BY <2>1, <2>5 DEF Request
  <2>8. QED
    BY <2>6, <2>7
<1>6. ASSUME NEW c \in Clients, CreateEnd(c) \/ CreateFails(c) \/ WalkEnd(c)
      PROVE  \E new \in Call : call' = [call EXCEPT ![c] = new]
  BY <1>6 DEF CreateEnd, CreateFails, WalkEnd
<1>7. ASSUME NEW c \in Clients, WalkBegin(c)
      PROVE  \E new \in Call : call' = [call EXCEPT ![c] = new]
  <2>1. PICK table \in Tables, all \in BOOLEAN :
          call' = [call EXCEPT ![c] =
                     [op |-> "walk", table |-> table, all |-> all,
                      after |-> 0, page |-> {}, earlier |-> {},
                      done |-> FALSE, owed |-> Listed(table, all)]]
    BY <1>7 DEF WalkBegin
  <2>2. Listed(table, all) \in SUBSET Ids
    BY ListedIds
  <2>3. [op |-> "walk", table |-> table, all |-> all, after |-> 0,
         page |-> {}, earlier |-> {}, done |-> FALSE,
         owed |-> Listed(table, all)] \in Walk
    BY <2>2 DEF Walk
  <2>4. QED
    BY <2>1, <2>3
<1>8. ASSUME NEW c \in Clients, WalkPage(c)
      PROVE  \E new \in Call : call' = [call EXCEPT ![c] = new]
  <2>1. call[c] \in Walk
    BY <1>8 DEF WalkPage, Walking, TypeOK, Request, Idle
  <2>2. PICK page \in SUBSET After(c) :
          LET shown == page \cap Listed(call[c].table, call[c].all)
          IN  \E last \in IF shown = {} THEN {call[c].after} ELSE shown :
                call' = [call EXCEPT ![c].page = shown,
                                     ![c].earlier = @ \cup call[c].page,
                                     ![c].after = last,
                                     ![c].done = (shown = {})]
    BY <1>8 DEF WalkPage
  <2> DEFINE shown == page \cap Listed(call[c].table, call[c].all)
  <2>3. PICK last \in IF shown = {} THEN {call[c].after} ELSE shown :
          call' = [call EXCEPT ![c].page = shown,
                               ![c].earlier = @ \cup call[c].page,
                               ![c].after = last,
                               ![c].done = (shown = {})]
    BY <2>2
  <2>4. shown \in SUBSET Ids
    BY ListedIds
  <2> HIDE DEF shown
  <2>5. last \in Nat
    BY <2>1, <2>3, <2>4 DEF Walk
  <2> DEFINE new == [call[c] EXCEPT !.page = shown,
                                    !.earlier = @ \cup call[c].page,
                                    !.after = last, !.done = (shown = {})]
  <2>6. new \in Walk
    BY <2>1, <2>4, <2>5 DEF Walk
  <2>7. call' = [call EXCEPT ![c] = new]
    BY <2>3 DEF TypeOK
  <2>8. QED
    BY <2>6, <2>7
<1>9. QED
  BY <1>1, <1>2, <1>3, <1>4, <1>5, <1>6, <1>7, <1>8 DEF Next, vars

LEMMA TypeStep == ASSUME TypeOK, [Next]_vars PROVE TypeOK'
BY StepShape, RowsTyped, CallsTyped DEF TypeOK

\* Rows, create calls and walks keep the types their code gives them.
THEOREM CatalogTyped == Spec => []TypeOK
<1>1. Init => TypeOK
  BY DEF Init, TypeOK
<1>2. TypeOK /\ [Next]_vars => TypeOK'
  BY TypeStep
<1>3. QED
  BY <1>1, <1>2, PTL DEF Spec

\* Archiving, deactivating and renaming lose no row and change no id, slug or
\* reference; a mark is never taken back, nor a deactivated customer renamed.
THEOREM RowsStay == Spec => RowsKept
<1>1. TypeOK /\ [Next]_vars
        => [\A row \in rows : \E new \in rows' : KeepsRow(row, new)]_rows
  <2> SUFFICES ASSUME TypeOK, [Next]_vars
               PROVE  \A row \in rows : \E new \in rows' : KeepsRow(row, new)
    OBVIOUS
  <2>1. CASE Revised
    BY <2>1 DEF Revised
  <2>2. CASE Inserted
    BY <2>2 DEF Inserted, KeepsRow, TypeOK
  <2>3. QED
    BY <2>1, <2>2, StepShape
<1>2. QED
  BY <1>1, CatalogTyped, PTL DEF Spec, RowsKept

----------------------------------------------------------------------------
(* References.                                                             *)

IdsUnique == \A row, other \in rows : row.id = other.id => row = other

SlugsUnique ==
  \A row, other \in rows :
    row.table = other.table /\ row.slug = other.slug => row = other

\* A reference, of a row or of a call still looking up, has its row.
Held(table, ref) == \E target \in Found(Referenced(table), ref.name) :
                      target.id = ref.id

RowRefsHeld == \A row \in rows : \A ref \in row.refs : Held(row.table, ref)

CallRefsHeld ==
  \A c \in Clients : Creating(c) =>
    \A ref \in call[c].refs : Held(call[c].table, ref)

RefInv == IdsUnique /\ SlugsUnique /\ RowRefsHeld /\ CallRefsHeld

LEMMA UniqueStep ==
  ASSUME TypeOK, IdsUnique, SlugsUnique, Revised \/ Inserted
  PROVE  IdsUnique' /\ SlugsUnique'
<1>1. CASE Revised
  BY <1>1 DEF Revised, KeepsRow, IdsUnique, SlugsUnique
<1>2. CASE Inserted
  BY <1>2 DEF Inserted, SlugFree, InTable, Taken, IdsUnique, SlugsUnique
<1>3. QED
  BY <1>1, <1>2

\* What is held stays held.
LEMMA HeldStep ==
  ASSUME Revised \/ Inserted, NEW table, NEW ref, Held(table, ref)
  PROVE  Held(table, ref)'
<1>1. PICK target \in rows :
        /\ target.table = Referenced(table) /\ target.id = ref.id
        /\ ref.name \in {target.id, target.slug}
  BY DEF Held, Found, InTable
<1>2. PICK new \in rows' : /\ new.table = target.table /\ new.id = target.id
                           /\ new.slug = target.slug
  BY <1>1 DEF Revised, Inserted, KeepsRow
<1>3. QED
  BY <1>1, <1>2 DEF Held, Found, InTable

LEMMA RowRefsStep ==
  ASSUME TypeOK, RefInv, Revised \/ Inserted
  PROVE  RowRefsHeld'
<1> SUFFICES ASSUME NEW new \in rows', NEW ref \in new.refs
             PROVE  Held(new.table, ref)'
  BY DEF RowRefsHeld
<1>1. CASE \E row \in rows : row.table = new.table /\ row.refs = new.refs
  BY <1>1, HeldStep DEF RefInv, RowRefsHeld
<1>2. CASE \E c \in Clients : /\ Creating(c) /\ call[c].table = new.table
                              /\ call[c].refs = new.refs
  BY <1>2, HeldStep DEF RefInv, CallRefsHeld
<1>3. QED
  BY <1>1, <1>2 DEF Revised, Inserted, KeepsRow

LEMMA CallRefsStep ==
  ASSUME TypeOK, RefInv, [Next]_vars, Revised \/ Inserted
  PROVE  CallRefsHeld'
<1> SUFFICES ASSUME NEW c \in Clients, Creating(c)', NEW ref \in call'[c].refs,
                    NEW table, table = call'[c].table
             PROVE  Held(table, ref)'
  BY DEF CallRefsHeld, Held, Found, InTable
<1>1. CASE call'[c] = call[c]
  <2>1. Creating(c)
    BY <1>1 DEF Creating
  <2>2. Held(table, ref)
    BY <1>1, <2>1 DEF RefInv, CallRefsHeld
  <2>3. QED
    BY <2>2, HeldStep
<1>2. CASE CreateBegin(c)
  BY <1>2 DEF CreateBegin, TypeOK
<1>3. CASE Lookup(c)
  <2>1. call[c] \in Request
    BY <1>3 DEF Lookup, Creating, TypeOK, Walk, Idle
  <2> DEFINE Picks(name, row) ==
               LET stored == IF call[c].table = "features" THEN row.id ELSE name
                   found == [name |-> stored, id |-> row.id]
               IN  call' = [call EXCEPT ![c].named = @ \ {name},
                                        ![c].refs = @ \cup {found}]
  <2>2. PICK name \in call[c].named :
          \E row \in Found(Referenced(call[c].table), name) : Picks(name, row)
    BY <1>3 DEF Lookup
  <2>3. PICK row \in Found(Referenced(call[c].table), name) : Picks(name, row)
    BY <2>2
  <2> DEFINE found == [name |-> IF call[c].table = "features" THEN row.id
                                ELSE name, id |-> row.id]
  <2>4. /\ call'[c].table = call[c].table
        /\ call'[c].refs = call[c].refs \cup {found}
    BY <2>1, <2>3 DEF TypeOK, Request
  <2>5. Held(call[c].table, found)
    BY DEF Held, Found
  <2>6. ref \in call[c].refs => Held(call[c].table, ref)
    BY <1>3 DEF RefInv, CallRefsHeld, Lookup
  <2> HIDE DEF found
  <2>7. Held(table, ref)
    BY <2>4, <2>5, <2>6
  <2>8. QED
    BY <2>7, HeldStep
<1>4. CASE \/ CreateEnd(c) \/ CreateFails(c) \/ WalkEnd(c)
          \/ WalkBegin(c) \/ WalkPage(c)
  <2>1. CASE CreateEnd(c) \/ CreateFails(c) \/ WalkEnd(c)
    BY <2>1 DEF CreateEnd, CreateFails, WalkEnd, Creating, TypeOK, Idle
  <2>2. CASE WalkBegin(c)
    BY <2>2 DEF WalkBegin, Creating, TypeOK
  <2>3. CASE WalkPage(c)
    <3>1. call[c] \in Walk
      BY <2>3 DEF WalkPage, Walking, TypeOK, Request, Idle
    <3>2. call'[c].op = call[c].op
      BY <2>3, <3>1 DEF WalkPage, TypeOK, Walk
    <3>3. QED
      BY <3>1, <3>2 DEF Creating, Walk
  <2>4. QED
    BY <1>4, <2>1, <2>2, <2>3
<1>5. QED
  <2>1. ASSUME NEW d \in Clients, d # c,
               \/ CreateBegin(d) \/ Lookup(d) \/ CreateEnd(d) \/ CreateFails(d)
               \/ WalkBegin(d) \/ WalkPage(d) \/ WalkEnd(d)
        PROVE  call'[c] = call[c]
    BY <2>1 DEF CreateBegin, Lookup, CreateEnd, CreateFails, WalkBegin,
                WalkPage, WalkEnd, TypeOK
  <2>2. QED
    BY <1>1, <1>2, <1>3, <1>4, <2>1
    DEF Next, vars, CreateCustomer, CreateMeter, Archive, UpdateCustomer

LEMMA RefInvResolves == TypeOK /\ RefInv => RefsResolve
<1> SUFFICES ASSUME TypeOK, RefInv, NEW row \in rows, NEW ref \in row.refs
             PROVE  LET found == Found(Referenced(row.table), ref.name)
                    IN  /\ \E target \in found : target.id = ref.id
                        /\ \A other \in found :
                             other.id # ref.id => ref.name \in {ref.id, other.id}
  BY DEF RefsResolve
<1>1. Held(row.table, ref)
  BY DEF RefInv, RowRefsHeld
<1>2. QED
  BY <1>1 DEF Held, Found, InTable, RefInv, SlugsUnique

\* A plan's entries and a feature's meter resolve for ever to the rows that
\* were looked up for them, whatever is created and archived meanwhile.
THEOREM ReferencesResolve == Spec => []RefsResolve
<1>1. Init => RefInv
  BY DEF Init, RefInv, IdsUnique, SlugsUnique, RowRefsHeld, CallRefsHeld,
         Creating, Idle
<1>2. TypeOK /\ RefInv /\ [Next]_vars => RefInv'
  BY StepShape, UniqueStep, RowRefsStep, CallRefsStep DEF RefInv
<1>3. QED
  BY <1>1, <1>2, RefInvResolves, CatalogTyped, PTL DEF Spec

----------------------------------------------------------------------------
(* Lists.                                                                  *)

TakenFinite == IsFiniteSet(Taken)

\* Where a walk has been, all that it owes has been shown or archived.
Covers(c) ==
  /\ \A id \in call[c].earlier \cup call[c].page : id <= call[c].after
  /\ call[c].owed \subseteq Listed(call[c].table, TRUE)
  /\ \A id \in call[c].owed : id <= call[c].after =>
       \/ id \in call[c].earlier \cup call[c].page
       \/ ~call[c].all /\ id \in Marked(call[c].table)

Ascends(c) ==
  \A id \in call[c].page, before \in call[c].earlier : before < id

Completes(c) ==
  call[c].done =>
    \A id \in call[c].owed :
      \/ id \in call[c].earlier \cup call[c].page
      \/ ~call[c].all /\ id \in Marked(call[c].table)
      \/ Emptied(c, id)

WalkInv ==
  \A c \in Clients : Walking(c) => Covers(c) /\ Ascends(c) /\ Completes(c)

LEMMA FiniteStep ==
  ASSUME TakenFinite, Revised \/ Inserted
  PROVE  TakenFinite'
<1>1. CASE Revised
  <2>1. Taken' = Taken
    BY <1>1 DEF Revised, KeepsRow, Taken
  <2>2. QED
    BY <2>1 DEF TakenFinite
<1>2. CASE Inserted
  <2>1. PICK new \in Row : rows' = rows \cup {new}
    BY <1>2 DEF Inserted
  <2>2. Taken' = Taken \cup {new.id}
    BY <2>1 DEF Taken
  <2>3. QED
    BY <2>2, FS_AddElement DEF TakenFinite
<1>3. QED
  BY <1>1, <1>2

LEMMA ListedStep ==
  ASSUME Revised \/ Inserted, NEW table
  PROVE  /\ Listed(table, TRUE) \subseteq Listed(table, TRUE)'
         /\ Marked(table) \subseteq Marked(table)'
<1>1. CASE Revised
  BY <1>1 DEF Revised, KeepsRow, Listed, Marked, InTable
<1>2. CASE Inserted
  BY <1>2 DEF Inserted, Taken, Listed, Marked, InTable
<1>3. QED
  BY <1>1, <1>2

\* Enough deactivated customers below id to fill a page stay enough.
Crowded(id) == Cardinality({i \in Marked("customers") : i < id}) >= Limit

LEMMA MarkedFinite ==
  ASSUME TakenFinite, NEW table, NEW id
  PROVE  /\ IsFiniteSet({i \in Marked(table) : i < id})
         /\ Cardinality({i \in Marked(table) : i < id}) \in Nat
<1>1. {i \in Marked(table) : i < id} \subseteq Taken
  BY DEF Marked, Listed, InTable, Taken
<1>2. QED
  BY <1>1, FS_Subset, FS_CardinalityType DEF TakenFinite

LEMMA CrowdedStep ==
  ASSUME TakenFinite, Revised \/ Inserted, NEW id, Crowded(id)
  PROVE  Crowded(id)'
<1> DEFINE few == {i \in Marked("customers") : i < id}
<1>1. few \subseteq few'
  BY ListedStep
<1>2. IsFiniteSet(few') /\ Cardinality(few') \in Nat
  <2>1. TakenFinite'
    BY FiniteStep
  <2>2. few' \subseteq Taken'
    BY DEF Marked, Listed, InTable, Taken
  <2>3. QED
    BY <2>1, <2>2, FS_Subset, FS_CardinalityType DEF TakenFinite
<1>3. Cardinality(few) \in Nat
  BY MarkedFinite
<1>4. Cardinality(few) <= Cardinality(few')
  BY <1>1, <1>2, FS_Subset
<1>5. Cardinality(few) >= Limit
  BY DEF Crowded
<1> HIDE DEF few
<1>6. Cardinality(few') >= Limit
  BY <1>2, <1>3, <1>4, <1>5, CatalogAssumption
<1>7. QED
  BY <1>6 DEF few, Crowded

LEMMA WalkRests ==
  ASSUME TypeOK, TakenFinite, Revised \/ Inserted, NEW c \in Clients,
         Walking(c), call'[c] = call[c],
         Covers(c) /\ Ascends(c) /\ Completes(c)
  PROVE  (Covers(c) /\ Ascends(c) /\ Completes(c))'
<1>1. PICK t : t = call[c].table
  OBVIOUS
<1>2. /\ Listed(t, TRUE) \subseteq Listed(t, TRUE)'
      /\ Marked(t) \subseteq Marked(t)'
  BY ListedStep
<1>3. Covers(c)'
  BY <1>1, <1>2 DEF Covers
<1>4. Ascends(c)'
  BY DEF Ascends
<1>5. \A id : Crowded(id) => Crowded(id)'
  BY CrowdedStep
<1>6. \A id : Emptied(c, id) => Emptied(c, id)'
  BY <1>5 DEF Emptied, Crowded
<1>7. Completes(c)'
  BY <1>1, <1>2, <1>6 DEF Completes
<1>8. QED
  BY <1>3, <1>4, <1>7

LEMMA WalkBegins ==
  ASSUME TypeOK, NEW c \in Clients, WalkBegin(c)
  PROVE  (Covers(c) /\ Ascends(c) /\ Completes(c))'
<1>1. PICK table \in Tables, all \in BOOLEAN :
        call' = [call EXCEPT ![c] =
                   [op |-> "walk", table |-> table, all |-> all, after |-> 0,
                    page |-> {}, earlier |-> {}, done |-> FALSE,
                    owed |-> Listed(table, all)]]
  BY DEF WalkBegin
<1>2. /\ call'[c].table = table /\ call'[c].after = 0
      /\ call'[c].page = {} /\ call'[c].earlier = {}
      /\ call'[c].done = FALSE /\ call'[c].owed = Listed(table, all)
  BY <1>1 DEF TypeOK
<1>3. rows' = rows
  BY DEF WalkBegin
<1>4. Listed(table, all) \subseteq Ids /\ Listed(table, all) \subseteq Listed(table, TRUE)
  BY ListedIds DEF Listed
<1>5. Listed(table, TRUE)' = Listed(table, TRUE)
  BY <1>3 DEF Listed, InTable
<1>6. \A id \in Ids : ~(id <= 0)
  BY CatalogAssumption
<1>7. Covers(c)'
  BY <1>2, <1>4, <1>5, <1>6 DEF Covers
<1>8. QED
  BY <1>2, <1>7 DEF Ascends, Completes

LEMMA WalkPages ==
  ASSUME TypeOK, TakenFinite, NEW c \in Clients, WalkPage(c),
         Covers(c) /\ Ascends(c) /\ Completes(c)
  PROVE  (Covers(c) /\ Ascends(c) /\ Completes(c))'
<1> DEFINE w == call[c]
<1>1. w \in Walk
  BY DEF WalkPage, Walking, TypeOK, Request, Idle
<1>2. rows' = rows
  BY DEF WalkPage
<1>3. PICK page \in SUBSET After(c) :
        /\ IsPage(page, After(c))
        /\ LET shown == page \cap Listed(w.table, w.all)
           IN  \E last \in IF shown = {} THEN {w.after} ELSE shown :
                 /\ \A id \in shown : id <= last
                 /\ call' = [call EXCEPT ![c].page = shown,
                                         ![c].earlier = @ \cup w.page,
                                         ![c].after = last,
                                         ![c].done = (shown = {})]
  BY DEF WalkPage
<1> DEFINE shown == page \cap Listed(w.table, w.all)
<1>4. PICK last \in IF shown = {} THEN {w.after} ELSE shown :
        /\ \A id \in shown : id <= last
        /\ call' = [call EXCEPT ![c].page = shown,
                                ![c].earlier = @ \cup w.page,
                                ![c].after = last, ![c].done = (shown = {})]
  BY <1>3
<1>5. shown \subseteq Ids /\ Ids \subseteq Nat \ {0}
  BY ListedIds, CatalogAssumption
<1>6. \A id \in page : id > w.after
  BY DEF After
<1>7. shown \subseteq page
  OBVIOUS
<1>8. \A id \in w.owed : id \in Listed(w.table, TRUE)
  BY DEF Covers
<1>9. \A id \in Listed(w.table, TRUE) :
        \/ id \in Listed(w.table, w.all)
        \/ ~w.all /\ id \in Marked(w.table)
  BY <1>1 DEF Marked, Walk
<1>10. \A id \in Listed(w.table, w.all) : id > w.after => id \in After(c)
  BY <1>1 DEF After, Queried, Listed, Walk
<1>11. /\ call'[c].page = shown /\ call'[c].earlier = w.earlier \cup w.page
       /\ call'[c].after = last /\ call'[c].done = (shown = {})
       /\ call'[c].owed = w.owed /\ call'[c].table = w.table
       /\ call'[c].all = w.all
  BY <1>1, <1>4 DEF TypeOK, Walk
<1>12. Listed(w.table, TRUE) \subseteq Ids /\ w.after \in Nat /\ w.page \subseteq Ids
       /\ w.earlier \subseteq Ids /\ w.owed \subseteq Ids
  BY <1>1, ListedIds DEF Walk
<1> HIDE DEF shown
<1>13. last \in Nat /\ w.after <= last
  BY <1>4, <1>5, <1>6, <1>7, <1>12
<1>14. \A id \in w.owed : id <= last =>
         \/ id \in w.earlier \cup w.page \cup shown
         \/ ~w.all /\ id \in Marked(w.table)
  <2> SUFFICES ASSUME NEW id \in w.owed, id <= last, ~(id <= w.after),
                      id \in Listed(w.table, w.all)
               PROVE  id \in shown
    BY <1>8, <1>9 DEF Covers
  <2>1. id \in Ids
    BY <1>12
  <2>2. shown # {} /\ last \in page
    BY <1>4, <1>7, <2>1, <1>12, <1>5
  <2>3. id \in After(c)
    BY <1>10, <1>12, <2>1, <1>5
  <2>4. id \in page
    BY <1>3, <1>5, <1>13, <2>1, <2>2, <2>3 DEF IsPage
  <2>5. QED
    BY <2>4 DEF shown
<1>15. \A t : Listed(t, TRUE)' = Listed(t, TRUE) /\ Marked(t)' = Marked(t)
  BY <1>2 DEF Listed, Marked, InTable
<1>16. PICK t : t = w.table
  OBVIOUS
<1>17. Covers(c)'
  <2>1. \A id \in w.earlier \cup w.page \cup shown : id <= last
    BY <1>4, <1>5, <1>12, <1>13 DEF Covers
  <2>2. QED
    BY <1>8, <1>11, <1>14, <1>15, <1>16, <2>1 DEF Covers
<1>18. Ascends(c)'
  <2> SUFFICES ASSUME NEW id \in shown, NEW before \in w.earlier \cup w.page
               PROVE  before < id
    BY <1>11 DEF Ascends
  <2>1. id \in Nat /\ before \in Nat /\ w.after \in Nat
    BY <1>5, <1>12
  <2>2. before <= w.after
    BY DEF Covers
  <2>3. id > w.after
    BY <1>6, <1>7
  <2>4. QED
    BY <2>1, <2>2, <2>3
<1>19. ASSUME shown = {}, NEW id \in w.owed, id \in Listed(w.table, w.all),
              ~(id <= w.after)
       PROVE  w.table = "customers" /\ ~w.all /\ Crowded(id)
  <2>a. id \in Ids /\ id \in Nat /\ w.after \in Nat
    BY <1>5, <1>12
  <2>1. id \in Ids /\ id > w.after
    BY <2>a, <1>19
  <2>2. id \in After(c) /\ id \notin page
    BY <1>10, <1>19, <2>1 DEF shown
  <2>3. Cardinality(page) = Limit
    BY <1>3, <2>2 DEF IsPage
  <2>4. page # {}
    BY <2>3, FS_EmptySet, CatalogAssumption
  <2>5. page \subseteq Queried(c)
    BY DEF After
  <2>6. w.table = "customers" /\ ~w.all
    BY <1>1, <1>19, <2>4, <2>5 DEF Queried, shown, Walk
  <2>7. page \subseteq {i \in Marked("customers") : i < id}
    <3>1. \A i \in page : i < id
      BY <1>3, <2>2 DEF IsPage
    <3>2. page \subseteq Listed("customers", TRUE)
      BY <2>5, <2>6 DEF Queried, Listed
    <3>3. \A i \in page : i \notin Listed("customers", FALSE)
      BY <1>1, <1>19, <2>6 DEF shown, Listed
    <3>4. QED
      BY <3>1, <3>2, <3>3 DEF Marked
  <2>8. Cardinality(page) <= Cardinality({i \in Marked("customers") : i < id})
    BY <2>7, MarkedFinite, FS_Subset
  <2>9. QED
    BY <2>3, <2>6, <2>8, MarkedFinite, CatalogAssumption DEF Crowded
<1>20. Completes(c)'
  <2> SUFFICES ASSUME shown = {}, NEW id \in w.owed
               PROVE  \/ id \in w.earlier \cup w.page \cup shown
                      \/ ~w.all /\ id \in Marked(w.table)
                      \/ w.table = "customers" /\ ~w.all /\ Crowded(id)
    BY <1>11, <1>15, <1>16 DEF Completes, Emptied, Crowded
  <2>1. QED
    BY <1>8, <1>9, <1>19 DEF Covers
<1>21. QED
  BY <1>17, <1>18, <1>20

LEMMA WalkStep ==
  ASSUME TypeOK, TakenFinite, WalkInv, [Next]_vars
  PROVE  WalkInv'
<1> SUFFICES ASSUME NEW c \in Clients, Walking(c)'
             PROVE  (Covers(c) /\ Ascends(c) /\ Completes(c))'
  BY DEF WalkInv
<1>1. CASE call'[c] = call[c]
  <2>1. Walking(c)
    BY <1>1 DEF Walking
  <2>2. QED
    BY <1>1, <2>1, StepShape, WalkRests DEF WalkInv
<1>2. CASE WalkBegin(c)
  BY <1>2, WalkBegins
<1>3. CASE WalkPage(c)
  BY <1>3, WalkPages DEF WalkInv, WalkPage
<1>4. CASE CreateBegin(c) \/ Lookup(c) \/ CreateEnd(c) \/ CreateFails(c) \/ WalkEnd(c)
  <2>1. CASE CreateEnd(c) \/ CreateFails(c) \/ WalkEnd(c)
    BY <2>1 DEF CreateEnd, CreateFails, WalkEnd, Walking, TypeOK, Idle
  <2>2. CASE CreateBegin(c)
    BY <2>2 DEF CreateBegin, Walking, TypeOK
  <2>3. CASE Lookup(c)
    <3>1. call[c] \in Request
      BY <2>3 DEF Lookup, Creating, TypeOK, Walk, Idle
    <3>2. call'[c].op = call[c].op
      BY <2>3, <3>1 DEF Lookup, TypeOK, Request
    <3>3. QED
      BY <3>1, <3>2 DEF Walking, Request
  <2>4. QED
    BY <1>4, <2>1, <2>2, <2>3
<1>5. QED
  <2>1. ASSUME NEW d \in Clients, d # c,
               \/ CreateBegin(d) \/ Lookup(d) \/ CreateEnd(d) \/ CreateFails(d)
               \/ WalkBegin(d) \/ WalkPage(d) \/ WalkEnd(d)
        PROVE  call'[c] = call[c]
    BY <2>1 DEF CreateBegin, Lookup, CreateEnd, CreateFails, WalkBegin,
                WalkPage, WalkEnd, TypeOK
  <2>2. QED
    BY <1>1, <1>2, <1>3, <1>4, <2>1
    DEF Next, vars, CreateCustomer, CreateMeter, Archive, UpdateCustomer

LEMMA WalksHold == Spec => [](TakenFinite /\ WalkInv)
<1>1. Init => TakenFinite /\ WalkInv
  BY FS_EmptySet DEF Init, TakenFinite, WalkInv, Taken, Walking, Idle
<1>2. TypeOK /\ TakenFinite /\ WalkInv /\ [Next]_vars
        => TakenFinite' /\ WalkInv'
  BY StepShape, FiniteStep, WalkStep
<1>3. QED
  BY <1>1, <1>2, CatalogTyped, PTL DEF Spec

\* Pages of a list go up by id, however the rows change between them.
THEOREM PagesInOrder == Spec => []PagesAscend
<1>1. WalkInv => PagesAscend
  BY DEF WalkInv, PagesAscend, Ascends
<1>2. QED
  BY <1>1, WalksHold, PTL

\* A client that pages to the end misses no row that was there throughout,
\* but for those behind a whole page of deactivated customers.
THEOREM WalksComplete == Spec => []WalkComplete
<1>1. WalkInv => WalkComplete
  BY DEF WalkInv, WalkComplete, Completes
<1>2. QED
  BY <1>1, WalksHold, PTL

=============================================================================
