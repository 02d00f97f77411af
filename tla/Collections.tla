---------------------------- MODULE Collections ----------------------------
(***************************************************************************)
(* Collections group receipts.  A user has at most one active collection,  *)
(* which captures each receipt the server persists for the user.  Requests *)
(* are coroutines over one database whose statements are transactions of   *)
(* their own: switching the active collection, renaming, and replacing the *)
(* collections of a receipt are several of them.                           *)
(*                                                                         *)
(* Dates, colours and totals are left out: no statement decides by them.   *)
(* Names are compared after normalisation, without case.                   *)
(***************************************************************************)
CONSTANTS
    User,
    Admin,      \* users with can_see_all
    Collection, \* ids the database draws for collections
    Receipt,    \* ids the database draws for receipts
    Owner,      \* collections.user_id and receipts.user_id by id
    Name,
    Request,    \* requests in flight, and the worker that persists receipts
    None        \* SQL's NULL, and locals that are not set

ASSUME UserAssumption == Admin \subseteq User /\ None \notin User
ASSUME IdAssumption ==
    /\ Collection \cap Receipt = {}
    /\ None \notin Collection \cup Receipt \cup Name
\* collections.user_id is NOT NULL; receipts.user_id is not.
ASSUME OwnerAssumption ==
    /\ Owner \in [Collection \cup Receipt -> User \cup {None}]
    /\ \A c \in Collection : Owner[c] # None

VARIABLES
    drawn,      \* ids given out so far
    live,       \* rows of collections
    receipts,   \* rows of receipts
    active,     \* collections.active
    name,       \* collections.name
    links,      \* rows of receipt_collections
    req,        \* the locals of each request
    actor       \* history: the user whose request made the last step

vars == <<drawn, live, receipts, active, name, links, req, actor>>

Place == {"idle", "insert", "siblings", "insertActive", "siblingsOf", "setActive",
          "check", "write", "assign", "clear", "link", "readActive", "capture"}

\* before and alone are history: what was active when the request to create or
\* to activate began, and whether no other request has run since.
Local == [at     : Place,
          user   : User \cup {None},
          coll   : Collection \cup {None},
          rcpt   : Receipt \cup {None},
          title  : Name \cup {None},
          before : SUBSET Collection,
          chosen : SUBSET Collection,
          todo   : SUBSET Collection,
          alone  : BOOLEAN]

Idle == [at |-> "idle", user |-> None, coll |-> None, rcpt |-> None, title |-> None,
         before |-> {}, chosen |-> {}, todo |-> {}, alone |-> FALSE]

Own(u) == {c \in Collection : Owner[c] = u}

\* With the constraints of the schema: the foreign keys of the links and the
\* unique index on active collections.
TypeOK ==
    /\ drawn \subseteq Collection \cup Receipt
    /\ live \subseteq Collection \cap drawn
    /\ receipts \subseteq Receipt \cap drawn
    /\ active \subseteq live
    /\ \A c, d \in active : Owner[c] = Owner[d] => c = d
    /\ name \in [Collection -> Name \cup {None}]
    /\ links \subseteq receipts \X live
    /\ req \in [Request -> Local]
    /\ actor \in User \cup {None}

Init ==
    /\ drawn = {}
    /\ live = {}
    /\ receipts = {}
    /\ active = {}
    /\ name = [c \in Collection |-> None]
    /\ links = {}
    /\ req = [q \in Request |-> Idle]
    /\ actor = None

-----------------------------------------------------------------------------
(* Requests begin, move on and end *)

InFlight(q) == req[q].at # "idle"

\* Nobody that is in flight when another request runs has been alone.
Disturbed == [g \in Request |->
                IF InFlight(g) THEN [req[g] EXCEPT !.alone = FALSE] ELSE req[g]]

Begin(q, u, locals) ==
    /\ ~InFlight(q)
    /\ actor' = u
    /\ req' = [Disturbed EXCEPT ![q] =
                 [locals EXCEPT !.user = u,
                                !.alone = \A g \in Request : ~InFlight(g)]]

\* A request of one statement, or one that ends at its checks.
Once(q, u) ==
    /\ ~InFlight(q)
    /\ actor' = u
    /\ req' = Disturbed

Proceed(q, place) ==
    /\ actor' = req[q].user
    /\ req' = [req EXCEPT ![q].at = place]

End(q) ==
    /\ actor' = req[q].user
    /\ req' = [req EXCEPT ![q] = Idle]

\* The owner scope of the statements.
Sees(u, x) == u \in Admin \/ Owner[x] = u

\* find_by_name
Named(u, n) == {c \in live : Owner[c] = u /\ name[c] = n}

\* Mutant: the schema without the unique index.
NoIndex(c) == FALSE

\* The unique index refuses a second active collection of a user.
Clashes(c) == \E d \in active \ {c} : Owner[d] = Owner[c]

-----------------------------------------------------------------------------
(* Creating a collection *)

\* A name that is taken is a conflict (409).  The id is drawn ahead of the
\* insert it is drawn by.
CreateStart(q, u, n, c, activate) ==
    /\ c \in Own(u) \ drawn
    /\ IF Named(u, n) # {}
       THEN Once(q, u) /\ UNCHANGED drawn
       ELSE /\ Begin(q, u, [Idle EXCEPT !.at = IF activate THEN "siblings" ELSE "insert",
                                        !.coll = c, !.title = n,
                                        !.before = active])
            /\ drawn' = drawn \cup {c}
    /\ UNCHANGED <<live, receipts, active, name, links>>

\* Mutants: the siblings stay active; everybody's collections are deactivated.
SiblingsStay(q) ==
    /\ req[q].at \in {"siblings", "siblingsOf"}
    /\ Proceed(q, IF req[q].at = "siblings" THEN "insertActive" ELSE "setActive")
    /\ UNCHANGED <<drawn, live, receipts, active, name, links>>
DeactivateAll(q) ==
    /\ req[q].at \in {"siblings", "siblingsOf"}
    /\ active' = {}
    /\ Proceed(q, IF req[q].at = "siblings" THEN "insertActive" ELSE "setActive")
    /\ UNCHANGED <<drawn, live, receipts, name, links>>

\* The first of the two statements that make a collection the active one.
DeactivateSiblings(q) ==
    /\ req[q].at \in {"siblings", "siblingsOf"}
    /\ active' = active \ Own(req[q].user)
    /\ Proceed(q, IF req[q].at = "siblings" THEN "insertActive" ELSE "setActive")
    /\ UNCHANGED <<drawn, live, receipts, name, links>>

Insert(q) ==
    LET c == req[q].coll
        refused == req[q].at = "insertActive" /\ Clashes(c)
    IN
    /\ req[q].at \in {"insert", "insertActive"}
    /\ live' = IF refused THEN live ELSE live \cup {c}
    /\ name' = IF refused THEN name ELSE [name EXCEPT ![c] = req[q].title]
    /\ active' = IF req[q].at = "insertActive" /\ ~refused THEN active \cup {c} ELSE active
    /\ End(q)
    /\ UNCHANGED <<drawn, receipts, links>>

-----------------------------------------------------------------------------
(* Activating, deactivating, deleting *)

\* Mutant: the siblings are deactivated before the owner is checked.
ActivateUnchecked(q, u, c) ==
    /\ Begin(q, u, [Idle EXCEPT !.at = IF u \in Admin THEN "setActive" ELSE "siblingsOf",
                                !.coll = c, !.before = active])
    /\ UNCHANGED <<drawn, live, receipts, active, name, links>>

\* The owner is checked first; one who sees everything skips the check and
\* the siblings.
ActivateStart(q, u, c) ==
    /\ IF u \in Admin
       THEN Begin(q, u, [Idle EXCEPT !.at = "setActive", !.coll = c, !.before = active])
       ELSE IF c \in live /\ Owner[c] = u
       THEN Begin(q, u, [Idle EXCEPT !.at = "siblingsOf", !.coll = c, !.before = active])
       ELSE Once(q, u)
    /\ UNCHANGED <<drawn, live, receipts, active, name, links>>

\* No row (404) or a second active row (an error) changes nothing.
SetActive(q) ==
    LET c == req[q].coll IN
    /\ req[q].at = "setActive"
    /\ active' = IF c \in live /\ Sees(req[q].user, c) /\ ~Clashes(c)
                 THEN active \cup {c} ELSE active
    /\ End(q)
    /\ UNCHANGED <<drawn, live, receipts, name, links>>

Deactivate(q, u, c) ==
    /\ c \in live
    /\ Once(q, u)
    /\ active' = IF Sees(u, c) THEN active \ {c} ELSE active
    /\ UNCHANGED <<drawn, live, receipts, name, links>>

\* The links go with the collection (ON DELETE CASCADE).
Delete(q, u, c) ==
    /\ c \in live
    /\ Once(q, u)
    /\ IF Sees(u, c)
       THEN /\ live' = live \ {c}
            /\ active' = active \ {c}
            /\ name' = [name EXCEPT ![c] = None]
            /\ links' = {l \in links : l[2] # c}
       ELSE UNCHANGED <<live, active, name, links>>
    /\ UNCHANGED <<drawn, receipts>>

-----------------------------------------------------------------------------
(* Updating: the row is read, the name checked if one is given, and all     *)
(* fields are written from what was read or given                           *)

UpdateStart(q, u, c, n) ==
    /\ IF c \in live /\ Sees(u, c)
       THEN Begin(q, u, [Idle EXCEPT !.at = IF n = None THEN "write" ELSE "check",
                                     !.coll = c, !.title = IF n = None THEN name[c] ELSE n])
       ELSE Once(q, u)
    /\ UNCHANGED <<drawn, live, receipts, active, name, links>>

\* The query returns one of the caller's collections of that name; only one
\* other than the collection itself is a conflict (409).
CheckName(q) ==
    LET found == Named(req[q].user, req[q].title) IN
    /\ req[q].at = "check"
    /\ \/ (found = {} \/ req[q].coll \in found) /\ Proceed(q, "write")
       \/ found \ {req[q].coll} # {} /\ End(q)
    /\ UNCHANGED <<drawn, live, receipts, active, name, links>>

WriteUpdate(q) ==
    LET c == req[q].coll IN
    /\ req[q].at = "write"
    /\ name' = IF c \in live THEN [name EXCEPT ![c] = req[q].title] ELSE name
    /\ End(q)
    /\ UNCHANGED <<drawn, live, receipts, active, links>>

-----------------------------------------------------------------------------
(* The collections of a receipt *)

\* Mutant: the collection need not be the caller's.
AssignAny(q, u, c, r) ==
    /\ IF c \in live /\ r \in receipts /\ Sees(u, r)
       THEN Begin(q, u, [Idle EXCEPT !.at = "assign", !.coll = c, !.rcpt = r])
       ELSE Once(q, u)
    /\ UNCHANGED <<drawn, live, receipts, active, name, links>>

\* Both checks: owners do not change, and the insert fails on a row that is
\* gone by then, so their order does not matter.
AssignStart(q, u, c, r) ==
    /\ IF c \in live /\ Sees(u, c) /\ r \in receipts /\ Sees(u, r)
       THEN Begin(q, u, [Idle EXCEPT !.at = "assign", !.coll = c, !.rcpt = r])
       ELSE Once(q, u)
    /\ UNCHANGED <<drawn, live, receipts, active, name, links>>

\* An insert that violates a foreign key is an error; one that is there is kept.
Linked(r, c) == IF r \in receipts /\ c \in live THEN links \cup {<<r, c>>} ELSE links

Assign(q) ==
    /\ req[q].at = "assign"
    /\ links' = Linked(req[q].rcpt, req[q].coll)
    /\ End(q)
    /\ UNCHANGED <<drawn, live, receipts, active, name>>

\* The check and the delete are one step: once the collection is gone, so is
\* the link.
Unassign(q, u, c, r) ==
    /\ c \in live
    /\ Once(q, u)
    /\ links' = IF Sees(u, c) THEN links \ {<<r, c>>} ELSE links
    /\ UNCHANGED <<drawn, live, receipts, active, name>>

\* PUT /receipts/{id} with collection_ids, after the receipt is updated: every
\* id must be a collection of the caller.
SetStart(q, u, r, cs) ==
    /\ r \in receipts /\ Sees(u, r)
    /\ IF cs \subseteq live /\ \A c \in cs : Sees(u, c)
       THEN Begin(q, u, [Idle EXCEPT !.at = "clear", !.rcpt = r, !.chosen = cs, !.todo = cs])
       ELSE Once(q, u)
    /\ UNCHANGED <<drawn, live, receipts, active, name, links>>

ClearLinks(q) ==
    /\ req[q].at = "clear"
    /\ links' = {l \in links : l[1] # req[q].rcpt}
    /\ IF req[q].todo = {} THEN End(q) ELSE Proceed(q, "link")
    /\ UNCHANGED <<drawn, live, receipts, active, name>>

\* One insert per id, in the order of the list; the first error ends it.
LinkNext(q) ==
    /\ req[q].at = "link"
    /\ \E c \in req[q].todo :
          /\ links' = Linked(req[q].rcpt, c)
          /\ IF req[q].todo = {c} \/ c \notin live \/ req[q].rcpt \notin receipts
             THEN End(q)
             ELSE /\ actor' = req[q].user
                  /\ req' = [req EXCEPT ![q].todo = @ \ {c}]
    /\ UNCHANGED <<drawn, live, receipts, active, name>>

-----------------------------------------------------------------------------
(* Receipts: persisting one captures it, deleting one drops its links *)

\* An analysis inserts a receipt or, when it is made again, updates the one of
\* its image, whose owner it writes once more; each captures it, unless it has
\* no owner.
Persist(q, r) ==
    /\ r \in receipts \/ r \notin drawn
    /\ drawn' = drawn \cup {r}
    /\ receipts' = receipts \cup {r}
    /\ IF Owner[r] = None
       THEN Once(q, None)
       ELSE Begin(q, Owner[r], [Idle EXCEPT !.at = "readActive", !.rcpt = r])
    /\ UNCHANGED <<live, active, name, links>>

\* active_collection with can_see_all = False
ReadActive(q) ==
    LET mine == active \cap Own(req[q].user) IN
    /\ req[q].at = "readActive"
    /\ IF mine = {}
       THEN End(q)
       ELSE /\ actor' = req[q].user
            /\ \E c \in mine : req' = [req EXCEPT ![q].at = "capture", ![q].coll = c]
    /\ UNCHANGED <<drawn, live, receipts, active, name, links>>

\* An error here is swallowed.
Capture(q) ==
    /\ req[q].at = "capture"
    /\ links' = Linked(req[q].rcpt, req[q].coll)
    /\ End(q)
    /\ UNCHANGED <<drawn, live, receipts, active, name>>

DeleteReceipt(q, u, r) ==
    /\ r \in receipts
    /\ Sees(u, r)
    /\ Once(q, u)
    /\ receipts' = receipts \ {r}
    /\ links' = {l \in links : l[1] # r}
    /\ UNCHANGED <<drawn, live, active, name>>

\* The connection or the process is lost between two statements.  Nobody is the
\* actor of that.
Dies(q) ==
    /\ InFlight(q)
    /\ actor' = None
    /\ req' = [req EXCEPT ![q] = Idle]
    /\ UNCHANGED <<drawn, live, receipts, active, name, links>>

Start(q) ==
    \/ \E u \in User, c \in Collection, n \in Name :
          \E activate \in BOOLEAN : CreateStart(q, u, n, c, activate)
    \/ \E u \in User, c \in Collection : ActivateStart(q, u, c)
    \/ \E u \in User, c \in Collection : Deactivate(q, u, c)
    \/ \E u \in User, c \in Collection : Delete(q, u, c)
    \/ \E u \in User, c \in Collection, n \in Name \cup {None} : UpdateStart(q, u, c, n)
    \/ \E u \in User, c \in Collection, r \in Receipt : AssignStart(q, u, c, r)
    \/ \E u \in User, c \in Collection, r \in Receipt : Unassign(q, u, c, r)
    \/ \E u \in User, r \in Receipt, cs \in SUBSET Collection : SetStart(q, u, r, cs)
    \/ \E u \in User, r \in Receipt : DeleteReceipt(q, u, r)
    \/ \E r \in Receipt : Persist(q, r)

Continue(q) ==
    \/ DeactivateSiblings(q) \/ Insert(q) \/ SetActive(q)
    \/ CheckName(q) \/ WriteUpdate(q)
    \/ Assign(q) \/ ClearLinks(q) \/ LinkNext(q)
    \/ ReadActive(q) \/ Capture(q)

Next == \E q \in Request : Start(q) \/ Continue(q) \/ Dies(q)

Spec == Init /\ [][Next]_vars

-----------------------------------------------------------------------------
(* Properties *)

\* The last step of a request that came to its end, and during which no other
\* ran.
EndsAlone(q, places) ==
    /\ req[q].at \in places /\ req'[q].at = "idle"
    /\ req[q].alone
    /\ actor' # None

Switched(q) == active' = (req[q].before \ Own(Owner[req[q].coll])) \cup {req[q].coll}

\* Making a collection active, when it runs alone, either ends with it as its
\* owner's only active one or leaves the active collections as they were
\* (comment in CollectionDB.activate: a clean no-op instead of destroying the
\* caller's active collection).
SwitchIsAllOrNothing ==
    [][\A q \in Request :
          EndsAlone(q, {"insertActive", "setActive"}) => Switched(q) \/ active' = req[q].before]_vars

\* Activating a collection that is there and that the caller may see ends with
\* it as the active one (docstring of activate_collection: deactivates the
\* user's other active one) ...
ActivationSwitches ==
    [][\A q \in Request :
          EndsAlone(q, {"setActive"}) /\ req[q].coll \in live /\ Sees(req[q].user, req[q].coll)
             => Switched(q)]_vars

\* ... which holds for users who see their own only.
OwnersSwitch ==
    [][\A q \in Request :
          EndsAlone(q, {"setActive"}) /\ req[q].coll \in live /\ req[q].user \notin Admin
             => Switched(q)]_vars

Rows(u) == {c \in live : Owner[c] = u}

\* Whatever requests overlap or die, a step of a user who is no administrator
\* leaves other users' collections, their names and their activity alone (the
\* owner scope of every statement).
OthersUntouched ==
    [][\A u \in User :
          actor' # u /\ actor' \notin Admin =>
             /\ Rows(u)' = Rows(u)
             /\ (active \cap Own(u))' = active \cap Own(u)
             /\ \A c \in Own(u) : name'[c] = name[c]]_vars

\* Only an administrator links a receipt to a collection of another owner
\* (comments in CollectionService.assign and set_receipt_collections).
LinksWithinOwner ==
    [][\A l \in links' \ links : Owner[l[1]] = Owner[l[2]] \/ actor' \in Admin]_vars
=============================================================================
