-------------------------- MODULE MCReceiptEditing --------------------------
(* Small instances of ReceiptEditing for TLC: two receipts of a user, the   *)
(* second edited by an administrator, the first analysed twice.             *)
EXTENDS ReceiptEditing, TLC

CONSTANTS r1, r2, e1, e2, a1, a2, a3, user, admin, milk, latte, shop, k1, k2,
          dairy, drink

MCTarget == (e1 :> r1) @@ (e2 :> r2) @@ (a1 :> r1) @@ (a2 :> r2) @@ (a3 :> r1)
MCOwner == [r \in Receipt |-> user]
MCBy == (e1 :> user) @@ (e2 :> admin)
MCFold == (milk :> k1) @@ (latte :> k2) @@ (shop :> k1)

MCExtraction ==
    {[merchant |-> shop, items |->
        <<[text |-> milk, category |-> dairy], [text |-> latte, category |-> Unknown]>>]}

\* Items as they are, renamed, recategorised, new, of another receipt.
Submit(id, text, category, remember) ==
    [id |-> id, text |-> text, category |-> category, remember |-> remember]
MCBody ==
    {[merchant |-> shop, items |-> items] : items \in
       {<<>>,
        <<Submit(1, latte, Unset, FALSE)>>,
        <<Submit(1, milk, Unset, FALSE), Submit(1, latte, drink, FALSE)>>,
        <<Submit(2, latte, drink, TRUE), Submit(1, milk, Unset, TRUE)>>,
        <<Submit(3, milk, drink, TRUE), Submit(NoId, latte, dairy, TRUE)>>,
        <<Submit(NoId, milk, Unknown, TRUE), Submit(NoId, milk, Unset, FALSE)>>}}
=============================================================================
