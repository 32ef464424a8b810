------------------------------ MODULE Catalog ------------------------------
(***************************************************************************)
(* The catalogue of metery: customers, meters, features and plans.         *)
(* Creating a feature or a plan looks up the rows it names, one query      *)
(* each, and inserts afterwards, with no transaction around the two; a     *)
(* plan keeps its features' names in a JSON column that no foreign key     *)
(* guards.  Rows leave only by a mark.  Any name a request gives may be    *)
(* the id or the slug of a row (`id = ? OR slug = ?').                     *)
(*                                                                         *)
(* Clients page through the lists with a cursor, the last id they were     *)
(* shown, while rows come and go.                                          *)
(***************************************************************************)
EXTENDS Integers, FiniteSets

CONSTANTS
  Ids,        \* ULIDs, in their order
  Slugs,      \* the slugs and keys clients choose
  MaxEntries, \* bound on the entries of a plan
  Clients,    \* callers that make several queries one after another
  Limit       \* rows in a page

ASSUME CatalogAssumption ==
  /\ Ids \subseteq Nat \ {0} /\ Slugs \cap Ids = {}
  /\ Limit \in Nat \ {0} /\ MaxEntries \in Nat

VARIABLES
  rows, \* every row: [table, id, slug, name, refs, gone]
  call  \* what each client waits for: the create call a handler serves it,
        \* with the names left to look up and the references found so far,
        \* or the list it is paging through

vars == <<rows, call>>

Tables == {"customers", "meters", "features", "plans"}
Linking == {"features", "plans"}

\* Where the names in a row of the table are looked up.
Referenced(table) == IF table = "features" THEN "meters" ELSE "features"

\* A reference: the name the row stores, and the row its maker looked up.
Refs == [name : Ids \cup Slugs, id : Ids]

Idle == [op |-> "none"]
Creating(c) == call[c].op = "create"
Walking(c) == call[c].op = "walk"

InTable(table) == {row \in rows : row.table = table}
Found(table, name) == {row \in InTable(table) : name \in {row.id, row.slug}}
Taken == {row.id : row \in rows}

\* What a client can send as a name: its own slugs, and ids it was given.
Known == Slugs \cup Taken

Init ==
  /\ rows = {}
  /\ call = [c \in Clients |-> Idle]

----------------------------------------------------------------------------
(* Creating rows.  UNIQUE on the slug counts archived rows too.            *)

(* Slip: the slug is unique among rows not archived.                       *)
SlugFree_Active(table, slug) ==
  \A row \in InTable(table) : row.gone \/ row.slug # slug

SlugFree(table, slug) == \A row \in InTable(table) : row.slug # slug

Insert(table, refs) ==
  \E id \in Ids \ Taken, slug \in Known :
    /\ SlugFree(table, slug)
    /\ rows' = rows \cup {[table |-> table, id |-> id, slug |-> slug,
                           name |-> "given", refs |-> refs, gone |-> FALSE]}

CreateCustomer ==
  /\ Insert("customers", {})
  /\ UNCHANGED call

CreateMeter ==
  /\ Insert("meters", {})
  /\ UNCHANGED call

\* A feature names one meter or, when boolean, none; a plan names a feature
\* in each entry.
CreateBegin(c) ==
  /\ call[c] = Idle
  /\ \E table \in Linking, named \in SUBSET Known :
       /\ Cardinality(named) <= IF table = "features" THEN 1 ELSE MaxEntries
       /\ call' = [call EXCEPT ![c] = [op |-> "create", table |-> table,
                                       named |-> named, refs |-> {}]]
  /\ UNCHANGED rows

(* Slip: a failed lookup's error is dropped.                               *)
Lookup_Unchecked(c) ==
  /\ Creating(c)
  /\ \E name \in call[c].named :
       /\ Found(Referenced(call[c].table), name) = {}
       /\ call' = [call EXCEPT ![c].named = @ \ {name},
                              ![c].refs = @ \cup {[name |-> name, id |-> 0]}]
  /\ UNCHANGED rows

\* One query per name.  An archived row is found as well.  The feature keeps
\* the id of its meter, the plan the name it was given.
Lookup(c) ==
  /\ Creating(c)
  /\ \E name \in call[c].named :
       \E row \in Found(Referenced(call[c].table), name) :
         LET stored == IF call[c].table = "features" THEN row.id ELSE name
             ref == [name |-> stored, id |-> row.id]
         IN  call' = [call EXCEPT ![c].named = @ \ {name},
                                  ![c].refs = @ \cup {ref}]
  /\ UNCHANGED rows

CreateEnd(c) ==
  /\ Creating(c) /\ call[c].named = {}
  /\ Insert(call[c].table, call[c].refs)
  /\ call' = [call EXCEPT ![c] = Idle]

\* A name not found, a slug taken, a failing query or a caller gone.
CreateFails(c) ==
  /\ Creating(c)
  /\ call' = [call EXCEPT ![c] = Idle]
  /\ UNCHANGED rows

----------------------------------------------------------------------------
(* Marks and names: one UPDATE each, on every row the given name matches.  *)

Archived(row) == [row EXCEPT !.gone = TRUE]

Archive ==
  /\ \E table \in Tables, name \in Known :
       LET hit == {row \in Found(table, name) : ~row.gone}
       IN  /\ hit # {}
           /\ rows' = (rows \ hit) \cup {Archived(row) : row \in hit}
  /\ UNCHANGED call

\* Two names are enough: the one a customer was made with and another.
Renamed(row) == [row EXCEPT !.name = "another"]

(* Slip: a deactivated customer can be renamed.                            *)
Renamable_Any(name) == Found("customers", name)

Renamable(name) == {row \in Found("customers", name) : ~row.gone}

UpdateCustomer ==
  /\ \E name \in Known :
       LET hit == Renamable(name)
       IN  rows' = (rows \ hit) \cup {Renamed(row) : row \in hit}
  /\ UNCHANGED call

----------------------------------------------------------------------------
(* Lists.  The query of a page passes over archived rows when asked to;    *)
(* ListCustomers takes the page first and drops deactivated ones from it   *)
(* in Go.                                                                  *)

Listed(table, all) ==
  {row.id : row \in {r \in InTable(table) : all \/ ~r.gone}}

Queried(c) ==
  Listed(call[c].table, call[c].all \/ call[c].table = "customers")

(* Slip: the cursor is compared with >=.                                   *)
After_OrAt(c) == {id \in Queried(c) : id >= call[c].after}

After(c) == {id \in Queried(c) : id > call[c].after}

(* Slip: the query has lost its ORDER BY.                                  *)
IsPage_Unordered(page, S) ==
  Cardinality(page) <= Limit /\ (page = S \/ Cardinality(page) = Limit)

\* ORDER BY id LIMIT: the first of S.
IsPage(page, S) ==
  /\ \A id \in page, other \in S \ page : id < other
  /\ Cardinality(page) <= Limit
  /\ page = S \/ Cardinality(page) = Limit

WalkBegin(c) ==
  /\ call[c] = Idle
  /\ \E table \in Tables, all \in BOOLEAN :
       call' = [call EXCEPT ![c] =
                  [op |-> "walk", table |-> table, all |-> all, after |-> 0,
                   page |-> {}, earlier |-> {}, done |-> FALSE,
                   owed |-> Listed(table, all)]]
  /\ UNCHANGED rows

\* The client asks on from the last id shown, until a page is empty.
WalkPage(c) ==
  /\ Walking(c) /\ ~call[c].done
  /\ \E page \in SUBSET After(c) :
       /\ IsPage(page, After(c))
       /\ LET shown == page \cap Listed(call[c].table, call[c].all)
          IN  \E last \in IF shown = {} THEN {call[c].after} ELSE shown :
                /\ \A id \in shown : id <= last
                /\ call' = [call EXCEPT ![c].page = shown,
                                        ![c].earlier = @ \cup call[c].page,
                                        ![c].after = last,
                                        ![c].done = (shown = {})]
  /\ UNCHANGED rows

WalkEnd(c) ==
  /\ Walking(c) /\ call[c].done
  /\ call' = [call EXCEPT ![c] = Idle]
  /\ UNCHANGED rows

----------------------------------------------------------------------------
Next ==
  \/ CreateCustomer \/ CreateMeter \/ Archive \/ UpdateCustomer
  \/ \E c \in Clients :
       \/ CreateBegin(c) \/ Lookup(c) \/ CreateEnd(c) \/ CreateFails(c)
       \/ WalkBegin(c) \/ WalkPage(c) \/ WalkEnd(c)

Spec == Init /\ [][Next]_vars

----------------------------------------------------------------------------
(* Properties.                                                             *)

Row == [table : Tables, id : Ids, slug : Ids \cup Slugs,
        name : {"given", "another"}, refs : SUBSET Refs, gone : BOOLEAN]
Request == [op : {"create"}, table : Linking, named : SUBSET (Ids \cup Slugs),
            refs : SUBSET Refs]
Walk == [op : {"walk"}, table : Tables, all : BOOLEAN, after : Nat,
         page : SUBSET Ids, earlier : SUBSET Ids, done : BOOLEAN,
         owed : SUBSET Ids]

\* Every row, request and walk is of the shape its code gives it.
TypeOK ==
  /\ rows \subseteq Row
  /\ call \in [Clients -> Request \cup Walk \cup {Idle}]

\* What a plan's entry or a feature names resolves for ever to the row that
\* was looked up when it was made, although nothing holds that row between
\* the lookup and the insert or afterwards.  It resolves to another one as
\* well only when a row has the id of another for its slug, which nothing in
\* the handlers or the schema forbids.
RefsResolve ==
  \A row \in rows : \A ref \in row.refs :
    LET found == Found(Referenced(row.table), ref.name)
    IN  /\ \E target \in found : target.id = ref.id
        /\ \A other \in found :
             other.id # ref.id => ref.name \in {ref.id, other.id}

Marked(table) == Listed(table, TRUE) \ Listed(table, FALSE)

\* A page of customers was emptied by the filter that follows the LIMIT.
Emptied(c, id) ==
  /\ call[c].table = "customers" /\ ~call[c].all
  /\ Cardinality({i \in Marked("customers") : i < id}) >= Limit

\* A client that pages to the end has been shown every row that was in the
\* list when it began and has not been archived since, whatever was created
\* and archived meanwhile.  The list of customers breaks off before a whole
\* page of deactivated ones.
WalkComplete ==
  \A c \in Clients : Walking(c) /\ call[c].done =>
    \A id \in call[c].owed :
      \/ id \in call[c].earlier \cup call[c].page
      \/ ~call[c].all /\ id \in Marked(call[c].table)
      \/ Emptied(c, id)

\* Pages go up: no row is shown on two of them, and none out of order.
PagesAscend ==
  \A c \in Clients : Walking(c) =>
    \A id \in call[c].page, before \in call[c].earlier : before < id

\* A row stays as it was made: only its mark is set, never taken back, and
\* only the name of a customer not deactivated changes.
KeepsRow(row, new) ==
  /\ new.id = row.id /\ new.table = row.table
  /\ new.slug = row.slug /\ new.refs = row.refs
  /\ row.gone => new.gone
  /\ new.name # row.name => row.table = "customers" /\ ~row.gone

RowsKept == [][\A row \in rows : \E new \in rows' : KeepsRow(row, new)]_rows

=============================================================================
