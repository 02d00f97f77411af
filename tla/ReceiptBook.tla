---------------------------- MODULE ReceiptBook ----------------------------
(* What a user may rely on when receipts are corrected: every correction is *)
(* one whole step from the receipt as it is, line items keep the text they  *)
(* were read with and the categories the user gave them, and only choices   *)
(* the user asked to remember change what later analyses are told.          *)
EXTENDS Naturals, Sequences

CONSTANTS
    Receipt,    \* receipts, each of one image
    Analysis,   \* analyses whose result is stored
    Target,     \* the receipt of an analysis (or of an editor)
    Bypass,     \* analyses whose result needs no review
    User,
    Owner,      \* the user a receipt belongs to, or NoUser
    NoUser,
    Item,       \* ids of line items
    Text,       \* descriptions of line items
    Merchant,
    Key,        \* what texts and merchants are compared by
    Blank,      \* the key of a blank text
    Fold,       \* the key of a text or merchant
    Category,
    Unknown,
    NoAlias,    \* nothing is remembered
    NoNote      \* an analysis has not looked yet

VARIABLES
    book,   \* the stored receipts
    alias,  \* the remembered categories, by owner, merchant and text
    noted   \* what an analysis found remembered, by text

bookVars == <<book, alias, noted>>

Known    == Category \ {Unknown}
AliasKey == User \X Key \X Key
Source   == {"llm", "history", "user", "unknown"}
Line     == [id: Item, text: Text, original: Text, category: Category, source: Source]
Page     == [status: {"none", "unverified", "verified"}, lines: Seq(Line)]
Blotted  == [status |-> "none", lines |-> <<>>]

Live(r) == book[r].status # "none"
Stored(a) == IF a \in Bypass THEN "verified" ELSE "unverified"

Ids(lines) == {lines[i].id : i \in DOMAIN lines}
UsedIds == UNION {Ids(book[r].lines) : r \in Receipt}
Distinct(lines) ==
    \A i, j \in DOMAIN lines : lines[i].id = lines[j].id => i = j

BookInit ==
    /\ book = [r \in Receipt |-> Blotted]
    /\ alias = [k \in AliasKey |-> NoAlias]
    /\ noted = [a \in Analysis |-> NoNote]

-----------------------------------------------------------------------------
\* The line keeps its text as read, and its category unless the user chose.
Continues(old, new) ==
    /\ new.id = old.id
    /\ new.original = old.original
    /\ \/ new.source = "user"
       \/ new.category = old.category /\ new.source = old.source

\* The user added the line.
Starts(new) ==
    /\ new.id \notin UsedIds
    /\ new.original = new.text
    /\ \/ new.source = "user"
       \/ new.category = Unknown /\ new.source = "unknown"

\* A category the user chose for the line is remembered under k, or, if it
\* is Unknown, forgotten.
Taught(k, m, r, lines) ==
    /\ k[1] = Owner[r]
    /\ k[2] = Fold[m]
    /\ \E i \in DOMAIN lines :
          /\ lines[i].source = "user"
          /\ k[3] \in {Fold[lines[i].original], Fold[lines[i].text]}
          /\ alias'[k] = IF lines[i].category = Unknown THEN NoAlias
                                                         ELSE lines[i].category

Edit(r) ==
    LET lines == book'[r].lines IN
    /\ Live(r)
    /\ book' = [book EXCEPT ![r].lines = lines]
    /\ Distinct(lines)
    /\ \A i \in DOMAIN lines :
          \/ Starts(lines[i])
          \/ \E j \in DOMAIN book[r].lines : Continues(book[r].lines[j], lines[i])
    /\ \E m \in Merchant :
          \A k \in AliasKey : alias'[k] = alias[k] \/ Taught(k, m, r, lines)
    /\ UNCHANGED noted

\* The analysis looks up what the owner has remembered for the merchant.
Note(a) ==
    /\ noted[a] = NoNote
    /\ \E m \in Merchant :
          noted' = [noted EXCEPT ![a] =
            [k \in Key |-> IF Owner[Target[a]] = NoUser \/ Fold[m] = Blank
                             THEN NoAlias
                             ELSE alias[<<Owner[Target[a]], Fold[m], k>>]]]
    /\ UNCHANGED <<book, alias>>

\* What is remembered goes before what the model read.
Classified(a, line) ==
    /\ line.original = line.text
    /\ IF Fold[line.text] # Blank /\ noted[a][Fold[line.text]] # NoAlias
         THEN line.source = "history" /\ line.category = noted[a][Fold[line.text]]
         ELSE line.source = IF line.category = Unknown THEN "unknown" ELSE "llm"

Extract(a) ==
    LET lines == book'[Target[a]].lines IN
    /\ noted[a] # NoNote
    /\ book' = [book EXCEPT ![Target[a]] =
                  [status |-> Stored(a), lines |-> lines]]
    /\ Distinct(lines)
    /\ Ids(lines) \cap UsedIds = {}
    /\ \A i \in DOMAIN lines : Classified(a, lines[i])
    /\ UNCHANGED <<alias, noted>>

Verify(r) ==
    /\ Live(r)
    /\ book' = [book EXCEPT ![r].status = "verified"]
    /\ UNCHANGED <<alias, noted>>

Delete(r) ==
    /\ Live(r)
    /\ book' = [book EXCEPT ![r] = Blotted]
    /\ UNCHANGED <<alias, noted>>

BookNext ==
    \/ \E r \in Receipt : Edit(r) \/ Verify(r) \/ Delete(r)
    \/ \E a \in Analysis : Note(a) \/ Extract(a)

BookSpec == BookInit /\ [][BookNext]_bookVars

-----------------------------------------------------------------------------
(* What follows from the steps *)

\* No two lines have the same id, in one receipt or in two (line_items.id is
\* what the next edit names a line by).
IdsAreUnique ==
    \A r, s \in Receipt :
        \A i \in DOMAIN book[r].lines, j \in DOMAIN book[s].lines :
            book[r].lines[i].id = book[s].lines[j].id => r = s /\ i = j

\* A line stays on its receipt and keeps the text it was read with, and the
\* category the user chose for it until the user chooses another: no edit,
\* analysis or status change that comes between may take them back
\* (update_receipt and persist_receipt replace all the lines of a receipt).
LineContinues ==
    \A r, s \in Receipt :
        \A i \in DOMAIN book[r].lines, j \in DOMAIN book'[s].lines :
            book[r].lines[i].id = book'[s].lines[j].id =>
                r = s /\ Continues(book[r].lines[i], book'[s].lines[j])
LinesContinue == [][LineContinues]_bookVars
=============================================================================
