--------------------------- MODULE ReceiptEditing ---------------------------
(* Editing, storing, verifying and deleting receipts: the transactions of   *)
(* ReceiptDB, one action per statement that others can come between. A      *)
(* transaction keeps the rows it wrote locked and its writes to itself      *)
(* until it commits; a statement reads what is committed (READ COMMITTED).  *)
(* Requests are made once each, so their sets bound the behaviours.         *)
EXTENDS ReceiptBook

CONSTANTS
    Editor,      \* PUT /receipts/{id} requests, on their Target
    By,          \* the user an editor's request is made by
    SeeAll,      \* users who may edit every receipt
    Body,        \* the bodies of requests: a merchant and submitted items
    Extraction,  \* what a model may read: a merchant and extracted items
    NoId,        \* an item submitted without an id
    Unset,       \* an item submitted without a category
    Untouched,   \* a remembered category a transaction has not written
    None         \* no transaction, or no body

Request == Editor \cup Analysis

Submission == [id: Item \cup {NoId}, text: Text, category: Category \cup {Unset},
               remember: BOOLEAN]
Reading    == [text: Text, category: Category]

ASSUME OwnerAssumption == Owner \in [Receipt -> User \cup {NoUser}] /\ NoUser \notin User
ASSUME TargetAssumption == Target \in [Request -> Receipt]
ASSUME RequestAssumption ==
    /\ None \notin Request /\ Editor \cap Analysis = {}
    /\ By \in [Editor -> User] /\ Bypass \subseteq Analysis
ASSUME TextAssumption == Fold \in [Text \cup Merchant -> Key \cup {Blank}] /\ Blank \notin Key
ASSUME CategoryAssumption ==
    /\ Unknown \in Category
    /\ {NoAlias, Untouched, Unset} \cap Category = {}
    /\ NoAlias # Untouched
    /\ NoId \notin Item
ASSUME NoNoteAssumption == \A f \in [Key -> Known \cup {NoAlias}] : f # NoNote
ASSUME InputAssumption ==
    /\ Body \subseteq [merchant: Merchant, items: Seq(Submission)]
    /\ Extraction \subseteq [merchant: Merchant, items: Seq(Reading)]
    /\ None \notin Body \cup Extraction

VARIABLES
    at,       \* where a request is
    body,     \* what it was given
    holder,   \* the transaction that has locked a receipt's row
    old,      \* the lines an editor has read
    decided,  \* the lines it has decided on
    left,     \* the keys it has yet to write for the last of them
    draft     \* the remembered categories it has written, not yet committed

localVars == <<at, body, old, decided, left, draft>>
vars == <<book, alias, noted, holder, at, body, old, decided, left, draft>>

Active  == {"read", "decide", "insert", "note", "write"}
Pending == [id: Item \cup {NoId}, text: Text, original: Text, category: Category,
            source: Source]
Nothing == [k \in AliasKey |-> Untouched]

TypeOK ==
    /\ book \in [Receipt -> Page]
    /\ alias \in [AliasKey -> Known \cup {NoAlias}]
    /\ noted \in [Analysis -> [Key -> Known \cup {NoAlias}] \cup {NoNote}]
    /\ at \in [Request -> Active \cup {"idle", "done"}]
    /\ body \in [Request -> Body \cup Extraction \cup {None}]
    /\ holder \in [Receipt -> Request \cup {None}]
    /\ old \in [Editor -> Seq(Line)]
    /\ decided \in [Editor -> Seq(Pending)]
    /\ left \in [Editor -> SUBSET AliasKey]
    /\ draft \in [Editor -> [AliasKey -> Known \cup {NoAlias, Untouched}]]

Init ==
    /\ BookInit
    /\ at = [q \in Request |-> "idle"]
    /\ body = [q \in Request |-> None]
    /\ holder = [r \in Receipt |-> None]
    /\ old = [e \in Editor |-> <<>>]
    /\ decided = [e \in Editor |-> <<>>]
    /\ left = [e \in Editor |-> {}]
    /\ draft = [e \in Editor |-> Nothing]

-----------------------------------------------------------------------------
(* Transactions *)

Free(r) == holder[r] = None

Release(q) == holder' = [r \in Receipt |-> IF holder[r] = q THEN None ELSE holder[r]]

\* Mutant: the end of a request leaves its locks.
EndsLocked(q) ==
    /\ at' = [at EXCEPT ![q] = "done"]
    /\ body' = [body EXCEPT ![q] = None]
    /\ UNCHANGED <<holder, old, decided, left, draft>>

\* The end of a request, with nothing of it left.
Ends(q) ==
    /\ at' = [at EXCEPT ![q] = "done"]
    /\ body' = [body EXCEPT ![q] = None]
    /\ Release(q)
    /\ old' = [e \in Editor |-> IF e = q THEN <<>> ELSE old[e]]
    /\ decided' = [e \in Editor |-> IF e = q THEN <<>> ELSE decided[e]]
    /\ left' = [e \in Editor |-> IF e = q THEN {} ELSE left[e]]
    /\ draft' = [e \in Editor |-> IF e = q THEN Nothing ELSE draft[e]]

RollsBack(q) == Ends(q) /\ UNCHANGED bookVars

\* New ids for n lines, as gen_random_uuid gives them.
AreNew(ids, n) ==
    /\ ids \in [1..n -> Item \ UsedIds]
    /\ \A i, j \in 1..n : ids[i] = ids[j] => i = j
NewIds(n) == CHOOSE ids \in [1..n -> Item \ UsedIds] : AreNew(ids, n)

-----------------------------------------------------------------------------
(* update_receipt *)

Allowed(e) == By[e] \in SeeAll \/ Owner[Target[e]] = By[e]

\* Mutant: the old lines are read before the receipt is locked.
ReadThenLock(e, b) ==
    LET r == Target[e] IN
    /\ at[e] = "idle"
    /\ Live(r) /\ Allowed(e)
    /\ body' = [body EXCEPT ![e] = b]
    /\ at' = [at EXCEPT ![e] = "read"]
    /\ UNCHANGED <<bookVars, holder, old, decided, left, draft>>

\* The UPDATE waits for the row and keeps it locked.
Lock(e, b) ==
    LET r == Target[e] IN
    /\ at[e] = "idle"
    /\ Live(r) /\ Allowed(e) /\ Free(r)
    /\ holder' = [holder EXCEPT ![r] = e]
    /\ body' = [body EXCEPT ![e] = b]
    /\ at' = [at EXCEPT ![e] = "read"]
    /\ UNCHANGED <<bookVars, old, decided, left, draft>>

\* The UPDATE finds no row (404).
NotFound(e) ==
    /\ at[e] = "idle"
    /\ ~(Live(Target[e]) /\ Allowed(e))
    /\ RollsBack(e)

ReadLines(e) ==
    /\ at[e] = "read"
    /\ old' = [old EXCEPT ![e] = book[Target[e]].lines]
    /\ at' = [at EXCEPT ![e] = "decide"]
    /\ UNCHANGED <<bookVars, holder, body, decided, left, draft>>

Items(e) == body[e].items
Submitted(e) == Items(e)[Len(decided[e]) + 1]
Legacy(e) == \A i \in DOMAIN Items(e) : Items(e)[i].id = NoId

Deciding(e) ==
    /\ at[e] = "decide"
    /\ left[e] = {}
    /\ Len(decided[e]) < Len(Items(e))

\* The positions of the old line the submitted item continues: the one with
\* its id, or, when no item has an id and their number is the same, the one
\* in its place if the text is the same.
Match(e) ==
    LET s == Submitted(e)
        p == Len(decided[e]) + 1
    IN  IF s.id # NoId
          THEN {j \in DOMAIN old[e] : old[e][j].id = s.id}
          ELSE {j \in DOMAIN old[e] :
                  /\ j = p /\ old[e][j].text = s.text
                  /\ Legacy(e) /\ Len(old[e]) = Len(Items(e))}

Changes(s, line) == s.category # Unset /\ s.category # line.category

Kept(s, line) ==
    [id       |-> line.id,
     text     |-> s.text,
     original |-> line.original,
     category |-> IF Changes(s, line) THEN s.category ELSE line.category,
     source   |-> IF Changes(s, line) \/ s.remember THEN "user" ELSE line.source]

\* Mutant: a category left out stays out.
AddedAsSubmitted(s) ==
    [id       |-> NoId,
     text     |-> s.text,
     original |-> s.text,
     category |-> s.category,
     source   |-> IF s.remember \/ s.category \notin {Unset, Unknown}
                    THEN "user" ELSE "unknown"]

Added(s) ==
    [id       |-> NoId,
     text     |-> s.text,
     original |-> s.text,
     category |-> IF s.category = Unset THEN Unknown ELSE s.category,
     source   |-> IF s.remember \/ s.category \notin {Unset, Unknown}
                    THEN "user" ELSE "unknown"]

\* The remembered categories the item asks to write: of the receipt's owner,
\* under the text as read and the text as it is.
ToWrite(e, s, line) ==
    {k \in AliasKey :
        /\ s.remember
        /\ k[1] = Owner[Target[e]]
        /\ k[2] = Fold[body[e].merchant]
        /\ k[3] \in {Fold[line.original], Fold[line.text]}}

Decides(e, line) ==
    /\ decided' = [decided EXCEPT ![e] = Append(@, line)]
    /\ left' = [left EXCEPT ![e] = ToWrite(e, Submitted(e), line)]
    /\ UNCHANGED <<bookVars, holder, at, body, old, draft>>

Taken(e, j) == \E i \in DOMAIN decided[e] : decided[e][i].id = old[e][j].id

Keep(e) ==
    /\ Deciding(e)
    /\ \E j \in Match(e) :
          ~Taken(e, j) /\ Decides(e, Kept(Submitted(e), old[e][j]))

Add(e) ==
    /\ Deciding(e)
    /\ Submitted(e).id = NoId /\ Match(e) = {}
    /\ Decides(e, Added(Submitted(e)))

\* An id of another receipt, or one named twice (422).
Reject(e) ==
    /\ Deciding(e)
    /\ \/ Submitted(e).id # NoId /\ Match(e) = {}
       \/ \E j \in Match(e) : Taken(e, j)
    /\ RollsBack(e)

Last(e) == decided[e][Len(decided[e])]

\* What the transaction itself sees under k.
Seen(e, k) == IF draft[e][k] = Untouched THEN alias[k] ELSE draft[e][k]

\* The write to k waits for the other transaction that has written it; a
\* DELETE does not wait for a row it cannot see.
WaitsFor(e, k, f) ==
    /\ f # e /\ draft[f][k] # Untouched
    /\ ~(Last(e).category = Unknown /\ Seen(e, k) = NoAlias)

\* One upsert, or one DELETE when the category is Unknown.
Teach(e, k) ==
    /\ at[e] = "decide" /\ k \in left[e]
    /\ \A f \in Editor : ~WaitsFor(e, k, f)
    /\ left' = [left EXCEPT ![e] = @ \ {k}]
    /\ draft' =
          IF Last(e).category # Unknown THEN [draft EXCEPT ![e][k] = Last(e).category]
          ELSE IF Seen(e, k) # NoAlias THEN [draft EXCEPT ![e][k] = NoAlias]
          ELSE draft
    /\ UNCHANGED <<bookVars, holder, at, body, old, decided>>

\* The lines are replaced and the transaction commits.
CommitEdit(e) ==
    LET n == Len(decided[e]) IN
    /\ at[e] = "decide" /\ left[e] = {} /\ n = Len(Items(e))
    /\ \E ids \in [1..n -> Item \ UsedIds] : AreNew(ids, n)
    /\ book' = [book EXCEPT ![Target[e]].lines =
                  [i \in 1..n |-> IF decided[e][i].id # NoId THEN decided[e][i]
                                  ELSE [decided[e][i] EXCEPT !.id = NewIds(n)[i]]]]
    /\ alias' = [k \in AliasKey |-> Seen(e, k)]
    /\ UNCHANGED noted
    /\ Ends(e)

-----------------------------------------------------------------------------
(* persist_receipt *)

\* The receipt of the image is updated, and so locked.
FindReceipt(a, x) ==
    LET r == Target[a] IN
    /\ at[a] = "idle" /\ Live(r) /\ Free(r)
    /\ holder' = [holder EXCEPT ![r] = a]
    /\ body' = [body EXCEPT ![a] = x]
    /\ at' = [at EXCEPT ![a] = "note"]
    /\ UNCHANGED <<bookVars, old, decided, left, draft>>

\* There is none yet.
FindNone(a, x) ==
    /\ at[a] = "idle" /\ ~Live(Target[a])
    /\ body' = [body EXCEPT ![a] = x]
    /\ at' = [at EXCEPT ![a] = "insert"]
    /\ UNCHANGED <<bookVars, holder, old, decided, left, draft>>

\* The INSERT waits for another insert for the image, and fails after it (the
\* unique index on image_id).
InsertReceipt(a) ==
    LET r == Target[a] IN
    /\ at[a] = "insert" /\ Free(r)
    /\ IF Live(r) THEN RollsBack(a)
       ELSE /\ holder' = [holder EXCEPT ![r] = a]
            /\ at' = [at EXCEPT ![a] = "note"]
            /\ UNCHANGED <<bookVars, body, old, decided, left, draft>>

\* _history_for_items reads what the owner has remembered.
LookUp(a) ==
    LET u == Owner[Target[a]]
        m == Fold[body[a].merchant]
    IN  /\ at[a] = "note"
        /\ noted' = [noted EXCEPT ![a] =
              [k \in Key |-> IF u = NoUser \/ m = Blank THEN NoAlias
                                                       ELSE alias[<<u, m, k>>]]]
        /\ at' = [at EXCEPT ![a] = "write"]
        /\ UNCHANGED <<book, alias, holder, body, old, decided, left, draft>>

Remembered(a, text) == IF Fold[text] = Blank THEN NoAlias ELSE noted[a][Fold[text]]

Classify(a, s, id) ==
    LET found == Remembered(a, s.text) IN
    [id       |-> id,
     text     |-> s.text,
     original |-> s.text,
     category |-> IF found # NoAlias THEN found ELSE s.category,
     source   |-> IF found # NoAlias THEN "history"
                  ELSE IF s.category # Unknown THEN "llm" ELSE "unknown"]

\* The lines are replaced and the transaction commits.
CommitReceipt(a) ==
    LET r == Target[a]
        n == Len(Items(a))
    IN  /\ at[a] = "write"
        /\ \E ids \in [1..n -> Item \ UsedIds] : AreNew(ids, n)
        /\ book' = [book EXCEPT ![r] =
              [status |-> Stored(a),
               lines |-> [i \in 1..n |-> Classify(a, Items(a)[i], NewIds(n)[i])]]]
        /\ UNCHANGED <<alias, noted>>
        /\ Ends(a)

-----------------------------------------------------------------------------
(* Single statements, and what ends a transaction *)

VerifyReceipt(r) ==
    /\ Live(r) /\ Free(r)
    /\ book' = [book EXCEPT ![r].status = "verified"]
    /\ UNCHANGED <<alias, noted, holder, localVars>>

DeleteReceipt(r) ==
    /\ Live(r) /\ Free(r)
    /\ book' = [book EXCEPT ![r] = Blotted]
    /\ UNCHANGED <<alias, noted, holder, localVars>>

\* A statement fails, the request is cancelled or the process ends.
Fails(q) == at[q] \in Active /\ RollsBack(q)

\* PostgreSQL ends one of the transactions that wait for each other.
Waits(e, f) == at[e] = "decide" /\ \E k \in left[e] : WaitsFor(e, k, f)
Stuck(S) == S # {} /\ \A e \in S : \E f \in S : Waits(e, f)

Victim(e) ==
    /\ \E S \in SUBSET Editor : e \in S /\ Stuck(S)
    /\ RollsBack(e)

-----------------------------------------------------------------------------
EditStep(e) ==
    \/ NotFound(e)
    \/ ReadLines(e)
    \/ Keep(e) \/ Add(e) \/ Reject(e)
    \/ \E k \in AliasKey : Teach(e, k)
    \/ CommitEdit(e)

StoreStep(a) == InsertReceipt(a) \/ LookUp(a) \/ CommitReceipt(a)

Next ==
    \/ \E e \in Editor : EditStep(e) \/ Victim(e) \/ \E b \in Body : Lock(e, b)
    \/ \E a \in Analysis :
          StoreStep(a) \/ \E x \in Extraction : FindReceipt(a, x) \/ FindNone(a, x)
    \/ \E r \in Receipt : VerifyReceipt(r) \/ DeleteReceipt(r)
    \/ \E q \in Request : Fails(q)

Spec == Init /\ [][Next]_vars

-----------------------------------------------------------------------------
(* Safety *)

\* Concurrent edits, analyses and deletes, ended anywhere, amount to whole
\* corrections of the receipt as it was: no choice of the user and no text as
\* read is lost, and only what an edit remembers reaches the history.
ImplementsBook == BookSpec

\* A transaction under way has locked its receipt; an editor's is there.
Storing == {"note", "write"}
Locked ==
    /\ \A e \in Editor :
          /\ at[e] \in {"idle", "read", "decide", "done"}
          /\ at[e] \in {"read", "decide"} =>
                /\ body[e] \in Body
                /\ holder[Target[e]] = e
                /\ Live(Target[e])
    /\ \A a \in Analysis :
          /\ at[a] \in {"idle", "insert", "done"} \cup Storing
          /\ at[a] \in {"insert"} \cup Storing => body[a] \in Extraction
          /\ at[a] \in Storing => holder[Target[a]] = a

\* An editor decides on the lines as they are.
DecidesOnBook ==
    \A e \in Editor : at[e] = "decide" => old[e] = book[Target[e]].lines

\* Every line decided on is new or continues an old one, none twice.
Decided(e, line) ==
    \/ /\ line.id = NoId
       /\ line.original = line.text
       /\ \/ line.source = "user"
          \/ line.category = Unknown /\ line.source = "unknown"
    \/ \E j \in DOMAIN old[e] : Continues(old[e][j], line)

DecisionsSound ==
    \A e \in Editor :
        /\ \A i \in DOMAIN decided[e] : Decided(e, decided[e][i])
        /\ \A i, j \in DOMAIN decided[e] :
              decided[e][i].id = decided[e][j].id /\ decided[e][i].id # NoId => i = j

\* k is a key of a line of the user's choice.
KeyOf(e, k, line) ==
    /\ line.source = "user"
    /\ k[1] = Owner[Target[e]]
    /\ k[2] = Fold[body[e].merchant]
    /\ k[3] \in {Fold[line.original], Fold[line.text]}

\* What is written, or yet to be, is for a line decided on.
WritesSound ==
    \A e \in Editor :
        /\ at[e] # "decide" => decided[e] = <<>> /\ left[e] = {} /\ draft[e] = Nothing
        /\ \A k \in left[e] : Len(decided[e]) > 0 /\ KeyOf(e, k, Last(e))
        /\ \A k \in AliasKey : draft[e][k] # Untouched =>
              \E i \in DOMAIN decided[e] :
                 /\ KeyOf(e, k, decided[e][i])
                 /\ draft[e][k] = IF decided[e][i].category = Unknown
                                    THEN NoAlias ELSE decided[e][i].category

\* An analysis has looked up the history before it writes.
LooksBeforeWriting ==
    \A a \in Analysis :
        /\ at[a] \in {"idle", "insert", "note"} => noted[a] = NoNote
        /\ at[a] = "write" => noted[a] # NoNote

\* The inductive invariant behind the theorems.
IInv ==
    /\ TypeOK
    /\ Locked
    /\ DecidesOnBook
    /\ DecisionsSound
    /\ WritesSound
    /\ LooksBeforeWriting

-----------------------------------------------------------------------------
(* Liveness *)

\* The server runs the statements of its requests, and the database ends
\* transactions that wait for each other.
FairSpec ==
    /\ Spec
    /\ \A e \in Editor : WF_vars(EditStep(e) \/ Victim(e))
    /\ \A a \in Analysis : WF_vars(StoreStep(a))

\* No request waits forever for a receipt or a remembered category that
\* another one holds (the transaction blocks of persist_receipt and
\* update_receipt).
RequestsEnd == \A q \in Request : at[q] \in Active ~> at[q] = "done"
=============================================================================
