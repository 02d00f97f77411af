----------------------- MODULE ReceiptEditing_proofs -----------------------
(***************************************************************************)
(* Theorems about ReceiptEditing, for any number of receipts, users,       *)
(* requests and texts, and any bodies and extractions.                     *)
(***************************************************************************)
EXTENDS ReceiptEditing, TLAPS

USE OwnerAssumption, TargetAssumption, RequestAssumption, CategoryAssumption
    DEF OwnerAssumption, TargetAssumption, RequestAssumption, CategoryAssumption

-----------------------------------------------------------------------------
(* Types *)

\* A function on 1..n is a sequence.
LEMMA SeqOf ==
    ASSUME NEW S, NEW n \in Nat, NEW f \in [1..n -> S]
    PROVE  f \in Seq(S) /\ Len(f) = n /\ DOMAIN f = 1..n
OBVIOUS

LEMMA NothingType == Nothing \in [AliasKey -> Known \cup {NoAlias, Untouched}]
BY DEF Nothing

LEMMA BlottedType == Blotted \in Page
<1>1. <<>> \in Seq(Line)
  OBVIOUS
<1> QED
  BY <1>1 DEF Blotted, Page

LEMMA PageTypes ==
    ASSUME NEW p \in Page, NEW lines \in Seq(Line)
    PROVE  [p EXCEPT !.lines = lines] \in Page
BY DEF Page

LEMMA VerifiedPage ==
    ASSUME NEW p \in Page
    PROVE  [p EXCEPT !.status = "verified"] \in Page
BY DEF Page

LEMMA RequestTypes ==
    /\ \A e \in Editor : e \in Request /\ e # None /\ Target[e] \in Receipt
    /\ \A a \in Analysis : a \in Request /\ a # None /\ Target[a] \in Receipt
BY DEF Request

LEMMA EndsTypes ==
    ASSUME TypeOK, NEW q \in Request, Ends(q)
    PROVE  /\ at' \in [Request -> Active \cup {"idle", "done"}]
           /\ body' \in [Request -> Body \cup Extraction \cup {None}]
           /\ holder' \in [Receipt -> Request \cup {None}]
           /\ old' \in [Editor -> Seq(Line)]
           /\ decided' \in [Editor -> Seq(Pending)]
           /\ left' \in [Editor -> SUBSET AliasKey]
           /\ draft' \in [Editor -> [AliasKey -> Known \cup {NoAlias, Untouched}]]
<1>1. /\ at' \in [Request -> Active \cup {"idle", "done"}]
      /\ body' \in [Request -> Body \cup Extraction \cup {None}]
      /\ holder' \in [Receipt -> Request \cup {None}]
  BY DEF TypeOK, Ends, Release
<1>2. <<>> \in Seq(Line) /\ <<>> \in Seq(Pending)
  OBVIOUS
<1>3. /\ old' \in [Editor -> Seq(Line)]
      /\ decided' \in [Editor -> Seq(Pending)]
      /\ left' \in [Editor -> SUBSET AliasKey]
  BY <1>2 DEF TypeOK, Ends
<1>4. draft' \in [Editor -> [AliasKey -> Known \cup {NoAlias, Untouched}]]
  BY NothingType DEF TypeOK, Ends
<1> QED
  BY <1>1, <1>3, <1>4

\* What an editor decides on is an item of its body.
LEMMA SubmittedType ==
    ASSUME TypeOK, Locked, NEW e \in Editor, Deciding(e)
    PROVE  /\ body[e] \in [merchant: Merchant, items: Seq(Submission)]
           /\ Submitted(e) \in Submission
           /\ Len(decided[e]) + 1 \in DOMAIN Items(e)
<1>1. body[e] \in [merchant: Merchant, items: Seq(Submission)]
  BY InputAssumption DEF InputAssumption, Deciding, Locked
<1>2. Items(e) \in Seq(Submission)
  BY <1>1 DEF Items
<1>3. Len(decided[e]) \in Nat
  BY DEF TypeOK
<1>4. Len(decided[e]) + 1 \in DOMAIN Items(e)
  BY <1>2, <1>3 DEF Deciding
<1> QED
  BY <1>1, <1>2, <1>4 DEF Submitted

LEMMA KeptType ==
    ASSUME NEW s \in Submission, NEW line \in Line
    PROVE  /\ Kept(s, line) \in Pending
           /\ Kept(s, line).id = line.id
           /\ Continues(line, Kept(s, line))
BY DEF Kept, Changes, Submission, Line, Pending, Source, Continues

LEMMA AddedType ==
    ASSUME NEW s \in Submission
    PROVE  /\ Added(s) \in Pending
           /\ Added(s).id = NoId
           /\ Added(s).original = Added(s).text
           /\ \/ Added(s).source = "user"
              \/ Added(s).category = Unknown /\ Added(s).source = "unknown"
BY DEF Added, Submission, Pending, Source

\* The ids an insert is given are new and differ.
LEMMA NewIdsAreNew ==
    ASSUME NEW n \in Nat, \E ids \in [1..n -> Item \ UsedIds] : AreNew(ids, n)
    PROVE  AreNew(NewIds(n), n)
BY DEF NewIds

\* The decision an editor appends.
LEMMA DecisionType ==
    ASSUME TypeOK, Locked, NEW e \in Editor, Keep(e) \/ Add(e)
    PROVE  \E line \in Pending :
              /\ Decides(e, line)
              /\ Decided(e, line)
              /\ line.id # NoId => \A i \in DOMAIN decided[e] : decided[e][i].id # line.id
              /\ Submitted(e).remember => line.source = "user"
<1>1. Deciding(e)
  BY DEF Keep, Add
<1>2. Submitted(e) \in Submission
  BY <1>1, SubmittedType
<1>3. CASE Keep(e)
  <2>1. PICK j \in Match(e) : ~Taken(e, j) /\ Decides(e, Kept(Submitted(e), old[e][j]))
    BY <1>3 DEF Keep
  <2>2. j \in DOMAIN old[e]
    BY <2>1 DEF Match
  <2>3. old[e][j] \in Line
    BY <2>2 DEF TypeOK
  <2> DEFINE line == Kept(Submitted(e), old[e][j])
  <2>4. line \in Pending /\ line.id = old[e][j].id /\ Continues(old[e][j], line)
    BY <1>2, <2>3, KeptType
  <2>5. Decided(e, line)
    BY <2>2, <2>4 DEF Decided
  <2>6. \A i \in DOMAIN decided[e] : decided[e][i].id # line.id
    BY <2>1, <2>4 DEF Taken
  <2>7. Submitted(e).remember => line.source = "user"
    BY DEF Kept
  <2> QED
    BY <2>1, <2>4, <2>5, <2>6, <2>7
<1>4. CASE Add(e)
  <2> DEFINE line == Added(Submitted(e))
  <2>1. Decides(e, line)
    BY <1>4 DEF Add
  <2>2. line \in Pending /\ line.id = NoId /\ Decided(e, line)
    BY <1>2, AddedType DEF Decided
  <2>3. Submitted(e).remember => line.source = "user"
    BY DEF Added
  <2> QED
    BY <2>1, <2>2, <2>3
<1> QED
  BY <1>3, <1>4

LEMMA LookUpType ==
    ASSUME TypeOK, Locked, NEW a \in Analysis, LookUp(a)
    PROVE  noted'[a] \in [Key -> Known \cup {NoAlias}]
<1>1. body[a] \in Extraction
  BY DEF LookUp, Locked, Storing
<1>2. Fold[body[a].merchant] \in Key \cup {Blank}
  BY <1>1, InputAssumption, TextAssumption DEF InputAssumption, TextAssumption
<1>3. Owner[Target[a]] \in User \cup {NoUser}
  BY DEF Request
<1> QED
  BY <1>2, <1>3 DEF LookUp, TypeOK, AliasKey

LEMMA InitInv == Init => IInv
<1> SUFFICES ASSUME Init PROVE IInv
  OBVIOUS
<1>1. <<>> \in Seq(Line) /\ <<>> \in Seq(Pending)
  OBVIOUS
<1>2. TypeOK
  BY <1>1, NothingType, BlottedType DEF Init, BookInit, TypeOK
<1>3. Locked /\ DecidesOnBook /\ LooksBeforeWriting
  BY DEF Init, BookInit, Locked, DecidesOnBook, LooksBeforeWriting, Storing, Request
<1>4. DecisionsSound /\ WritesSound
  BY DEF Init, DecisionsSound, WritesSound, Nothing
<1> QED
  BY <1>2, <1>3, <1>4 DEF IInv

LEMMA TypeStep == ASSUME IInv, [Next]_vars PROVE TypeOK'
<1> USE DEF IInv
<1>1. ASSUME NEW q \in Request, RollsBack(q) PROVE TypeOK'
  BY <1>1, EndsTypes DEF RollsBack, TypeOK, bookVars
<1>2. ASSUME NEW e \in Editor, NEW b \in Body, Lock(e, b) PROVE TypeOK'
  BY <1>2 DEF Lock, TypeOK, bookVars, Request, Active
<1>3. ASSUME NEW e \in Editor, ReadLines(e) PROVE TypeOK'
  BY <1>3 DEF ReadLines, TypeOK, bookVars, Request, Page, Active
<1>4. ASSUME NEW e \in Editor, Keep(e) \/ Add(e) PROVE TypeOK'
  <2>1. PICK line \in Pending : Decides(e, line)
    BY <1>4, DecisionType
  <2>2. decided' \in [Editor -> Seq(Pending)]
    BY <2>1 DEF Decides, TypeOK
  <2>3. left' \in [Editor -> SUBSET AliasKey]
    BY <2>1 DEF Decides, TypeOK, ToWrite
  <2> QED
    BY <2>1, <2>2, <2>3 DEF Decides, TypeOK, bookVars
<1>5. ASSUME NEW e \in Editor, NEW k \in AliasKey, Teach(e, k) PROVE TypeOK'
  <2>1. left[e] # {} => Last(e) \in Pending
    BY DEF WritesSound, Last, TypeOK
  <2>2. Last(e).category \in Category
    BY <1>5, <2>1 DEF Teach, Pending
  <2>3. draft' \in [Editor -> [AliasKey -> Known \cup {NoAlias, Untouched}]]
    BY <1>5, <2>2 DEF Teach, TypeOK, Known
  <2>4. left' \in [Editor -> SUBSET AliasKey]
    BY <1>5 DEF Teach, TypeOK
  <2> QED
    BY <1>5, <2>3, <2>4 DEF Teach, TypeOK, bookVars
<1>6. ASSUME NEW e \in Editor, CommitEdit(e) PROVE TypeOK'
  <2> DEFINE n == Len(decided[e])
             lines == [i \in 1..n |-> IF decided[e][i].id # NoId THEN decided[e][i]
                                     ELSE [decided[e][i] EXCEPT !.id = NewIds(n)[i]]]
  <2>1. n \in Nat /\ \A i \in 1..n : decided[e][i] \in Pending
    BY DEF TypeOK
  <2>2. NewIds(n) \in [1..n -> Item]
    BY <1>6, <2>1, NewIdsAreNew DEF CommitEdit, AreNew
  <2>3. \A i \in 1..n : lines[i] \in Line
    BY <2>1, <2>2 DEF Pending, Line
  <2>4. lines \in Seq(Line)
    BY <2>1, <2>3, SeqOf
  <2>5. book' \in [Receipt -> Page]
    <3>1. [book[Target[e]] EXCEPT !.lines = lines] \in Page
      BY <2>4, PageTypes, RequestTypes DEF TypeOK
    <3> QED
      BY <1>6, <3>1 DEF CommitEdit, TypeOK
  <2>6. alias' \in [AliasKey -> Known \cup {NoAlias}]
    BY <1>6 DEF CommitEdit, TypeOK, Seen
  <2>7. UNCHANGED noted /\ Ends(e) /\ e \in Request
    BY <1>6, RequestTypes DEF CommitEdit
  <2> QED
    BY <2>5, <2>6, <2>7, EndsTypes DEF TypeOK
<1>7. ASSUME NEW a \in Analysis, NEW x \in Extraction, FindReceipt(a, x) \/ FindNone(a, x)
      PROVE TypeOK'
  <2>1. at' \in [Request -> Active \cup {"idle", "done"}]
    BY <1>7 DEF FindReceipt, FindNone, TypeOK, Active
  <2>2. body' \in [Request -> Body \cup Extraction \cup {None}]
    <3>1. body' = [body EXCEPT ![a] = x]
      BY <1>7 DEF FindReceipt, FindNone
    <3> QED
      BY <3>1 DEF TypeOK
  <2>3. holder' \in [Receipt -> Request \cup {None}]
    BY <1>7, RequestTypes DEF FindReceipt, FindNone, TypeOK
  <2> QED
    BY <1>7, <2>1, <2>2, <2>3 DEF FindReceipt, FindNone, TypeOK, bookVars
<1>8. ASSUME NEW a \in Analysis, InsertReceipt(a) PROVE TypeOK'
  <2>1. CASE Live(Target[a])
    BY <1>1, <1>8, <2>1 DEF InsertReceipt, Request
  <2>2. CASE ~Live(Target[a])
    <3>1. at' \in [Request -> Active \cup {"idle", "done"}]
      BY <1>8, <2>2 DEF InsertReceipt, TypeOK, Active
    <3>2. holder' \in [Receipt -> Request \cup {None}]
      BY <1>8, <2>2, RequestTypes DEF InsertReceipt, TypeOK
    <3> QED
      BY <1>8, <2>2, <3>1, <3>2 DEF InsertReceipt, TypeOK, bookVars
  <2> QED
    BY <2>1, <2>2
<1>9. ASSUME NEW a \in Analysis, LookUp(a) PROVE TypeOK'
  <2>1. noted'[a] \in [Key -> Known \cup {NoAlias}]
    BY <1>9, LookUpType
  <2>2. noted' \in [Analysis -> [Key -> Known \cup {NoAlias}] \cup {NoNote}]
    BY <1>9, <2>1 DEF LookUp, TypeOK
  <2> QED
    BY <1>9, <2>2 DEF LookUp, TypeOK, Request, Active
<1>10. ASSUME NEW a \in Analysis, CommitReceipt(a) PROVE TypeOK'
  <2> DEFINE n == Len(Items(a))
  <2>1. body[a] \in Extraction /\ noted[a] \in [Key -> Known \cup {NoAlias}]
    BY <1>10 DEF CommitReceipt, Locked, Storing, LooksBeforeWriting, TypeOK
  <2>2. Items(a) \in Seq(Reading)
    BY <2>1, InputAssumption DEF InputAssumption, Items
  <2>3. n \in Nat /\ \A i \in 1..n : Items(a)[i] \in Reading
    BY <2>2
  <2>4. NewIds(n) \in [1..n -> Item]
    <3>1. AreNew(NewIds(n), n)
      BY <1>10, <2>3, NewIdsAreNew DEF CommitReceipt
    <3> QED
      BY <3>1 DEF AreNew
  <2>5. ASSUME NEW i \in 1..n PROVE Classify(a, Items(a)[i], NewIds(n)[i]) \in Line
    <3>1. Remembered(a, Items(a)[i].text) \in Known \cup {NoAlias}
      BY <2>1, <2>3, TextAssumption DEF TextAssumption, Remembered, Reading
    <3> QED
      BY <2>3, <2>4, <3>1 DEF Classify, Reading, Line, Source, Known
  <2>6. [i \in 1..n |-> Classify(a, Items(a)[i], NewIds(n)[i])] \in Seq(Line)
    BY <2>3, <2>5, SeqOf
  <2>8. book' \in [Receipt -> Page]
    BY <1>10, <2>6 DEF CommitReceipt, TypeOK, Page, Stored
  <2> QED
    BY <1>10, <2>8, EndsTypes DEF CommitReceipt, TypeOK, Request
<1>11. ASSUME NEW r \in Receipt, VerifyReceipt(r) \/ DeleteReceipt(r) PROVE TypeOK'
  <2>1. [book[r] EXCEPT !.status = "verified"] \in Page
    BY VerifiedPage DEF TypeOK
  <2>2. book' \in [Receipt -> Page]
    BY <1>11, <2>1, BlottedType DEF VerifyReceipt, DeleteReceipt, TypeOK
  <2> QED
    BY <1>11, <2>2 DEF VerifyReceipt, DeleteReceipt, TypeOK, localVars
<1>12. CASE UNCHANGED vars
  BY <1>12 DEF vars, TypeOK
<1> QED
  BY <1>1, <1>2, <1>3, <1>4, <1>5, <1>6, <1>7, <1>8, <1>9, <1>10, <1>11, <1>12
  DEF Next, EditStep, StoreStep, NotFound, Reject, Victim, Fails, Request

-----------------------------------------------------------------------------
(* What the steps of others leave alone *)

\* Nothing of e, nor of the receipt it has locked, changes.
Undisturbed(e) ==
    /\ at'[e] = at[e] /\ body'[e] = body[e] /\ old'[e] = old[e]
    /\ decided'[e] = decided[e] /\ left'[e] = left[e] /\ draft'[e] = draft[e]
    /\ at[e] \in {"read", "decide"} =>
          holder'[Target[e]] = e /\ book'[Target[e]] = book[Target[e]]

OwnStep(e) ==
    \/ RollsBack(e)
    \/ \E b \in Body : Lock(e, b)
    \/ ReadLines(e)
    \/ Keep(e) \/ Add(e)
    \/ \E k \in AliasKey : Teach(e, k)
    \/ CommitEdit(e)

LEMMA EndsUndisturbed ==
    ASSUME IInv, NEW e \in Editor, NEW q \in Request, q # e, Ends(q),
           at[e] \in {"read", "decide"} => book'[Target[e]] = book[Target[e]]
    PROVE  Undisturbed(e)
<1>1. holder[Target[e]] = e => holder'[Target[e]] = e
  BY RequestTypes DEF Ends, Release, IInv, TypeOK
<1>2. at[e] \in {"read", "decide"} => holder[Target[e]] = e
  BY DEF IInv, Locked
<1> QED
  BY <1>1, <1>2, RequestTypes DEF Ends, Undisturbed, IInv, TypeOK

LEMMA EditorStep ==
    ASSUME IInv, [Next]_vars, NEW e \in Editor
    PROVE  Undisturbed(e) \/ OwnStep(e)
<1> USE RequestTypes DEF IInv
<1> DEFINE T == Target[e]
<1>0. at[e] \in {"read", "decide"} => holder[T] = e /\ ~Free(T)
  BY DEF Locked, Free
<1>1. ASSUME NEW q \in Request, RollsBack(q) PROVE Undisturbed(e) \/ OwnStep(e)
  <2>1. CASE q = e
    BY <1>1, <2>1 DEF OwnStep
  <2>2. CASE q # e
    BY <1>1, <2>2, EndsUndisturbed DEF RollsBack, bookVars
  <2> QED
    BY <2>1, <2>2
<1>2. ASSUME NEW f \in Editor, f # e, NEW b \in Body, Lock(f, b) PROVE Undisturbed(e)
  BY <1>0, <1>2 DEF Lock, Undisturbed, TypeOK, bookVars
<1>3. ASSUME NEW f \in Editor, f # e, ReadLines(f) PROVE Undisturbed(e)
  BY <1>0, <1>3 DEF ReadLines, Undisturbed, TypeOK, bookVars
<1>4. ASSUME NEW f \in Editor, f # e, Keep(f) \/ Add(f) PROVE Undisturbed(e)
  <2>1. PICK line \in Pending : Decides(f, line)
    BY <1>4, DecisionType
  <2> QED
    BY <1>0, <1>4, <2>1 DEF Decides, Undisturbed, TypeOK, bookVars
<1>5. ASSUME NEW f \in Editor, f # e, NEW k \in AliasKey, Teach(f, k) PROVE Undisturbed(e)
  BY <1>0, <1>5 DEF Teach, Undisturbed, TypeOK, bookVars
<1>6. ASSUME NEW f \in Editor, f # e, CommitEdit(f) PROVE Undisturbed(e)
  <2>1. holder[Target[f]] = f
    BY <1>6 DEF CommitEdit, Locked
  <2>2. at[e] \in {"read", "decide"} => Target[f] # T
    BY <1>0, <1>6, <2>1
  <2>3. at[e] \in {"read", "decide"} => book'[T] = book[T]
    BY <1>6, <2>2 DEF CommitEdit, TypeOK
  <2> QED
    BY <1>6, <2>3, EndsUndisturbed DEF CommitEdit
<1>7. ASSUME NEW a \in Analysis, NEW x \in Extraction, FindReceipt(a, x) \/ FindNone(a, x)
      PROVE Undisturbed(e)
  BY <1>0, <1>7 DEF FindReceipt, FindNone, Undisturbed, TypeOK, bookVars
<1>8. ASSUME NEW a \in Analysis, InsertReceipt(a) PROVE Undisturbed(e) \/ OwnStep(e)
  <2>1. CASE RollsBack(a)
    BY <1>1, <2>1
  <2>2. CASE ~RollsBack(a)
    BY <1>0, <1>8, <2>2 DEF InsertReceipt, Undisturbed, TypeOK, bookVars
  <2> QED
    BY <2>1, <2>2
<1>9. ASSUME NEW a \in Analysis, LookUp(a) PROVE Undisturbed(e)
  BY <1>0, <1>9 DEF LookUp, Undisturbed, TypeOK
<1>10. ASSUME NEW a \in Analysis, CommitReceipt(a) PROVE Undisturbed(e)
  <2>1. holder[Target[a]] = a /\ a # e
    BY <1>10 DEF CommitReceipt, Locked, Storing
  <2>2. at[e] \in {"read", "decide"} => Target[a] # T
    BY <1>0, <2>1
  <2>3. at[e] \in {"read", "decide"} => book'[T] = book[T]
    BY <1>10, <2>2 DEF CommitReceipt, TypeOK
  <2> QED
    BY <1>10, <2>1, <2>3, EndsUndisturbed DEF CommitReceipt
<1>11. ASSUME NEW r \in Receipt, VerifyReceipt(r) \/ DeleteReceipt(r) PROVE Undisturbed(e)
  BY <1>0, <1>11 DEF VerifyReceipt, DeleteReceipt, Undisturbed, TypeOK, localVars
<1>12. CASE UNCHANGED vars
  BY <1>0, <1>12 DEF vars, Undisturbed
<1> QED
  BY <1>1, <1>2, <1>3, <1>4, <1>5, <1>6, <1>7, <1>8, <1>9, <1>10, <1>11, <1>12
  DEF Next, EditStep, StoreStep, NotFound, Reject, Victim, Fails, OwnStep

-----------------------------------------------------------------------------
(* Each part of the invariant is kept *)

\* What an analysis relies on.
Unmoved(a) ==
    /\ at'[a] = at[a] /\ body'[a] = body[a] /\ noted'[a] = noted[a]
    /\ at[a] \in Storing => holder'[Target[a]] = a

LEMMA AnalysisStep ==
    ASSUME IInv, [Next]_vars, NEW a \in Analysis
    PROVE  \/ Unmoved(a)
           \/ RollsBack(a)
           \/ \E x \in Extraction : FindReceipt(a, x) \/ FindNone(a, x)
           \/ StoreStep(a)
<1> USE RequestTypes DEF IInv
<1> DEFINE T == Target[a]
           Goal == \/ Unmoved(a)
                   \/ RollsBack(a)
                   \/ \E x \in Extraction : FindReceipt(a, x) \/ FindNone(a, x)
                   \/ StoreStep(a)
<1>0. at[a] \in Storing => holder[T] = a /\ ~Free(T)
  BY DEF Locked, Free
<1>1. ASSUME NEW q \in Request, q # a, Ends(q), noted'[a] = noted[a] PROVE Unmoved(a)
  <2>1. holder[T] = a => holder'[T] = a
    BY <1>1 DEF Ends, Release, TypeOK
  <2> QED
    BY <1>0, <1>1, <2>1 DEF Ends, Unmoved, TypeOK
<1>2. ASSUME NEW q \in Request, RollsBack(q) PROVE Goal
  <2>1. CASE q = a
    BY <1>2, <2>1
  <2>2. CASE q # a
    BY <1>1, <1>2, <2>2 DEF RollsBack, bookVars
  <2> QED
    BY <2>1, <2>2
<1>3. ASSUME NEW e \in Editor, NEW b \in Body, Lock(e, b) PROVE Unmoved(a)
  BY <1>0, <1>3 DEF Lock, Unmoved, TypeOK, bookVars
<1>4. ASSUME NEW e \in Editor, ReadLines(e) \/ Keep(e) \/ Add(e) PROVE Unmoved(a)
  BY <1>0, <1>4 DEF ReadLines, Keep, Add, Decides, Unmoved, TypeOK, bookVars
<1>5. ASSUME NEW e \in Editor, NEW k \in AliasKey, Teach(e, k) PROVE Unmoved(a)
  BY <1>0, <1>5 DEF Teach, Unmoved, bookVars
<1>6. ASSUME NEW e \in Editor, CommitEdit(e) PROVE Unmoved(a)
  BY <1>1, <1>6 DEF CommitEdit
<1>7. ASSUME NEW c \in Analysis, c # a, NEW x \in Extraction,
             FindReceipt(c, x) \/ FindNone(c, x)
      PROVE Unmoved(a)
  BY <1>0, <1>7 DEF FindReceipt, FindNone, Unmoved, TypeOK, bookVars
<1>8. ASSUME NEW c \in Analysis, c # a, InsertReceipt(c) PROVE Unmoved(a)
  <2>1. CASE RollsBack(c)
    BY <1>1, <1>8, <2>1 DEF RollsBack, bookVars
  <2>2. CASE ~RollsBack(c)
    BY <1>0, <1>8, <2>2 DEF InsertReceipt, Unmoved, TypeOK, bookVars
  <2> QED
    BY <2>1, <2>2
<1>9. ASSUME NEW c \in Analysis, c # a, LookUp(c) PROVE Unmoved(a)
  BY <1>0, <1>9 DEF LookUp, Unmoved, TypeOK
<1>10. ASSUME NEW c \in Analysis, c # a, CommitReceipt(c) PROVE Unmoved(a)
  BY <1>1, <1>10 DEF CommitReceipt
<1>11. ASSUME NEW r \in Receipt, VerifyReceipt(r) \/ DeleteReceipt(r) PROVE Unmoved(a)
  BY <1>0, <1>11 DEF VerifyReceipt, DeleteReceipt, Unmoved, localVars
<1>12. CASE UNCHANGED vars
  BY <1>0, <1>12 DEF vars, Unmoved
<1> QED
  BY <1>2, <1>3, <1>4, <1>5, <1>6, <1>7, <1>8, <1>9, <1>10, <1>11, <1>12
  DEF Next, EditStep, StoreStep, NotFound, Reject, Victim, Fails

LEMMA LockedStep == ASSUME IInv, [Next]_vars PROVE Locked'
<1> USE RequestTypes DEF IInv
<1> DEFINE Edits(e) ==
      /\ at[e] \in {"idle", "read", "decide", "done"}
      /\ at[e] \in {"read", "decide"} =>
            body[e] \in Body /\ holder[Target[e]] = e /\ Live(Target[e])
<1> DEFINE Stores(a) ==
      /\ at[a] \in {"idle", "insert", "done"} \cup Storing
      /\ at[a] \in {"insert"} \cup Storing => body[a] \in Extraction
      /\ at[a] \in Storing => holder[Target[a]] = a
<1>1. ASSUME NEW e \in Editor PROVE Edits(e)'
  <2>0. Edits(e)
    BY DEF Locked
  <2>1. CASE Undisturbed(e)
    BY <2>0, <2>1 DEF Undisturbed, Live
  <2>2. CASE RollsBack(e) \/ CommitEdit(e)
    BY <2>2 DEF RollsBack, CommitEdit, Ends, TypeOK
  <2>3. CASE \E b \in Body : Lock(e, b)
    BY <2>3 DEF Lock, TypeOK, bookVars, Live
  <2>4. CASE ReadLines(e)
    BY <2>0, <2>4 DEF ReadLines, TypeOK, bookVars, Live
  <2>5. CASE Keep(e) \/ Add(e) \/ \E k \in AliasKey : Teach(e, k)
    BY <2>0, <2>5 DEF Keep, Add, Decides, Teach, bookVars, Live
  <2> QED
    BY <2>1, <2>2, <2>3, <2>4, <2>5, EditorStep DEF OwnStep
<1>2. ASSUME NEW a \in Analysis PROVE Stores(a)'
  <2>0. Stores(a)
    BY DEF Locked
  <2>1. CASE Unmoved(a)
    BY <2>0, <2>1 DEF Unmoved
  <2>2. CASE RollsBack(a) \/ CommitReceipt(a)
    BY <2>2 DEF RollsBack, CommitReceipt, Ends, TypeOK, Storing
  <2>3. CASE \E x \in Extraction : FindReceipt(a, x) \/ FindNone(a, x)
    BY <2>3 DEF FindReceipt, FindNone, TypeOK, Storing
  <2>4. CASE InsertReceipt(a) /\ ~RollsBack(a)
    BY <2>0, <2>4 DEF InsertReceipt, TypeOK, Storing
  <2>5. CASE LookUp(a)
    BY <2>0, <2>5 DEF LookUp, TypeOK, Storing
  <2> QED
    BY <2>1, <2>2, <2>3, <2>4, <2>5, AnalysisStep DEF StoreStep
<1> QED
  BY <1>1, <1>2 DEF Locked

LEMMA DecidesOnBookStep == ASSUME IInv, [Next]_vars PROVE DecidesOnBook'
<1> SUFFICES ASSUME NEW e \in Editor
             PROVE  (at[e] = "decide" => old[e] = book[Target[e]].lines)'
  BY DEF DecidesOnBook
<1> USE RequestTypes DEF IInv
<1>0. at[e] = "decide" => old[e] = book[Target[e]].lines
  BY DEF DecidesOnBook
<1>1. CASE Undisturbed(e)
  BY <1>0, <1>1 DEF Undisturbed
<1>2. CASE RollsBack(e) \/ CommitEdit(e) \/ \E b \in Body : Lock(e, b)
  BY <1>2 DEF RollsBack, CommitEdit, Ends, Lock, TypeOK
<1>3. CASE ReadLines(e)
  BY <1>3 DEF ReadLines, TypeOK, bookVars
<1>4. CASE Keep(e) \/ Add(e) \/ \E k \in AliasKey : Teach(e, k)
  BY <1>0, <1>4 DEF Keep, Add, Decides, Teach, bookVars
<1> QED
  BY <1>1, <1>2, <1>3, <1>4, EditorStep DEF OwnStep

LEMMA LooksBeforeWritingStep == ASSUME IInv, [Next]_vars PROVE LooksBeforeWriting'
<1> SUFFICES ASSUME NEW a \in Analysis
             PROVE  (/\ at[a] \in {"idle", "insert", "note"} => noted[a] = NoNote
                     /\ at[a] = "write" => noted[a] # NoNote)'
  BY DEF LooksBeforeWriting
<1> USE RequestTypes DEF IInv
<1>0. /\ at[a] \in {"idle", "insert", "note"} => noted[a] = NoNote
      /\ at[a] = "write" => noted[a] # NoNote
  BY DEF LooksBeforeWriting
<1>1. CASE Unmoved(a)
  BY <1>0, <1>1 DEF Unmoved
<1>2. CASE RollsBack(a) \/ CommitReceipt(a)
  BY <1>2 DEF RollsBack, CommitReceipt, Ends, TypeOK
<1>3. CASE \E x \in Extraction : FindReceipt(a, x) \/ FindNone(a, x)
  BY <1>0, <1>3 DEF FindReceipt, FindNone, TypeOK, bookVars
<1>4. CASE InsertReceipt(a) /\ ~RollsBack(a)
  BY <1>0, <1>4 DEF InsertReceipt, TypeOK, bookVars
<1>5. CASE LookUp(a)
  <2>1. noted'[a] \in [Key -> Known \cup {NoAlias}]
    BY <1>5, LookUpType
  <2>2. noted'[a] # NoNote
    BY <2>1, NoNoteAssumption DEF NoNoteAssumption
  <2> QED
    BY <1>5, <2>2 DEF LookUp, TypeOK
<1> QED
  BY <1>1, <1>2, <1>3, <1>4, <1>5, AnalysisStep DEF StoreStep

LEMMA DecisionsSoundStep == ASSUME IInv, [Next]_vars PROVE DecisionsSound'
<1> USE RequestTypes DEF IInv
<1> DEFINE Sound(e) ==
      /\ \A i \in DOMAIN decided[e] : Decided(e, decided[e][i])
      /\ \A i, j \in DOMAIN decided[e] :
            decided[e][i].id = decided[e][j].id /\ decided[e][i].id # NoId => i = j
<1> SUFFICES ASSUME NEW e \in Editor PROVE Sound(e)'
  BY DEF DecisionsSound
<1>0. Sound(e)
  BY DEF DecisionsSound
<1>1. CASE old'[e] = old[e] /\ decided'[e] = decided[e]
  BY <1>0, <1>1 DEF Decided
<1>2. CASE decided'[e] = <<>>
  BY <1>2
<1>3. CASE RollsBack(e) \/ CommitEdit(e)
  BY <1>2, <1>3 DEF RollsBack, CommitEdit, Ends
<1>4. CASE ReadLines(e)
  <2>1. decided[e] = <<>>
    BY <1>4 DEF ReadLines, WritesSound
  <2> QED
    BY <1>2, <1>4, <2>1 DEF ReadLines
<1>5. CASE Keep(e) \/ Add(e)
  <2>1. PICK line \in Pending :
          /\ Decides(e, line)
          /\ Decided(e, line)
          /\ line.id # NoId => \A i \in DOMAIN decided[e] : decided[e][i].id # line.id
    BY <1>5, DecisionType
  <2>2. decided[e] \in Seq(Pending)
    BY DEF TypeOK
  <2>3. decided'[e] = Append(decided[e], line) /\ old'[e] = old[e]
    BY <2>1 DEF Decides, TypeOK
  <2> DEFINE n == Len(decided[e])
  <2>4. /\ n \in Nat /\ DOMAIN decided[e] = 1..n
        /\ DOMAIN decided'[e] = 1..(n + 1)
        /\ decided'[e][n + 1] = line
        /\ \A i \in 1..n : decided'[e][i] = decided[e][i]
    BY <2>2, <2>3
  <2>5. \A i \in 1..(n + 1) : i \in 1..n \/ i = n + 1
    BY <2>4
  <2>6. \A i \in DOMAIN decided'[e] : Decided(e, decided'[e][i])
    BY <1>0, <2>1, <2>4, <2>5
  <2>7. \A i \in DOMAIN decided'[e] : Decided(e, decided[e][i])'
    BY <2>3, <2>6 DEF Decided
  <2>8. \A i, j \in DOMAIN decided'[e] :
          decided'[e][i].id = decided'[e][j].id /\ decided'[e][i].id # NoId => i = j
    BY <1>0, <2>1, <2>4, <2>5
  <2> QED
    BY <2>7, <2>8
<1>6. CASE Undisturbed(e)
  BY <1>1, <1>6 DEF Undisturbed
<1>7. CASE \/ \E b \in Body : Lock(e, b)
           \/ \E k \in AliasKey : Teach(e, k)
  BY <1>1, <1>7 DEF Lock, Teach
<1> QED
  BY <1>3, <1>4, <1>5, <1>6, <1>7, EditorStep DEF OwnStep

LEMMA WritesSoundStep == ASSUME IInv, [Next]_vars PROVE WritesSound'
<1> USE RequestTypes DEF IInv
<1> DEFINE Quiet(e) == at[e] # "decide" =>
                 decided[e] = <<>> /\ left[e] = {} /\ draft[e] = Nothing
           Yet(e) == \A k \in left[e] : Len(decided[e]) > 0 /\ KeyOf(e, k, Last(e))
           Value(line) == IF line.category = Unknown THEN NoAlias ELSE line.category
           Written(e) == \A k \in AliasKey : draft[e][k] # Untouched =>
              \E i \in DOMAIN decided[e] :
                 KeyOf(e, k, decided[e][i]) /\ draft[e][k] = Value(decided[e][i])
<1> SUFFICES ASSUME NEW e \in Editor PROVE Quiet(e)' /\ Yet(e)' /\ Written(e)'
  BY DEF WritesSound
<1>0. Quiet(e) /\ Yet(e) /\ Written(e)
  BY DEF WritesSound
<1>1. CASE Undisturbed(e)
  <2>1. /\ at'[e] = at[e] /\ body'[e] = body[e]
        /\ decided'[e] = decided[e] /\ left'[e] = left[e] /\ draft'[e] = draft[e]
    BY <1>1 DEF Undisturbed
  <2>2. Quiet(e)'
    BY <1>0, <2>1
  <2>3. Yet(e)'
    BY <1>0, <2>1 DEF KeyOf, Last
  <2>4. Written(e)'
    BY <1>0, <2>1 DEF KeyOf
  <2> QED
    BY <2>2, <2>3, <2>4
<1>2. CASE RollsBack(e) \/ CommitEdit(e)
  <2>1. decided'[e] = <<>> /\ left'[e] = {} /\ draft'[e] = Nothing
    BY <1>2 DEF RollsBack, CommitEdit, Ends
  <2> QED
    BY <2>1 DEF Nothing
<1>3. CASE (\E b \in Body : Lock(e, b)) \/ ReadLines(e)
  <2>1. at[e] # "decide" /\ UNCHANGED <<decided, left, draft>>
    BY <1>3 DEF Lock, ReadLines
  <2>2. decided'[e] = <<>> /\ left'[e] = {} /\ draft'[e] = Nothing
    BY <1>0, <2>1
  <2> QED
    BY <2>2 DEF Nothing
<1>4. CASE Keep(e) \/ Add(e)
  <2>1. PICK line \in Pending :
          Decides(e, line) /\ (Submitted(e).remember => line.source = "user")
    BY <1>4, DecisionType
  <2>2. decided[e] \in Seq(Pending)
    BY DEF TypeOK
  <2> DEFINE n == Len(decided[e])
  <2>3. /\ decided'[e] = Append(decided[e], line)
        /\ left'[e] = ToWrite(e, Submitted(e), line)
        /\ draft' = draft /\ body' = body /\ at[e] = "decide" /\ at' = at
    BY <1>4, <2>1 DEF Decides, TypeOK, Keep, Add, Deciding
  <2>4. /\ n \in Nat /\ DOMAIN decided[e] = 1..n /\ Len(decided'[e]) = n + 1
        /\ DOMAIN decided'[e] = 1..(n + 1)
        /\ decided'[e][n + 1] = line
        /\ \A i \in 1..n : decided'[e][i] = decided[e][i]
    BY <2>2, <2>3
  <2>5. Yet(e)'
    <3>1. Last(e)' = line
      BY <2>4 DEF Last
    <3>2. Len(decided'[e]) > 0
      BY <2>4
    <3>3. \A k \in left'[e] : KeyOf(e, k, line)'
      BY <2>1, <2>3 DEF ToWrite, KeyOf
    <3> QED
      BY <3>1, <3>2, <3>3
  <2>6. Written(e)'
    <3> SUFFICES ASSUME NEW k \in AliasKey, draft'[e][k] # Untouched
                 PROVE  \E i \in DOMAIN decided'[e] :
                          KeyOf(e, k, decided[e][i])' /\ draft'[e][k] = Value(decided'[e][i])
      OBVIOUS
    <3>1. PICK i \in DOMAIN decided[e] :
            KeyOf(e, k, decided[e][i]) /\ draft[e][k] = Value(decided[e][i])
      BY <1>0, <2>3
    <3>2. i \in DOMAIN decided'[e] /\ decided'[e][i] = decided[e][i]
      BY <2>4
    <3>3. KeyOf(e, k, decided[e][i])'
      BY <2>3, <3>1, <3>2 DEF KeyOf
    <3> QED
      BY <2>3, <3>1, <3>2, <3>3
  <2> QED
    BY <2>3, <2>5, <2>6
<1>5. CASE \E k \in AliasKey : Teach(e, k)
  <2>1. PICK k \in AliasKey : Teach(e, k)
    BY <1>5
  <2>2. /\ UNCHANGED <<at, body, decided>> /\ left'[e] \subseteq left[e]
        /\ at[e] = "decide" /\ k \in left[e]
    BY <2>1 DEF Teach, TypeOK
  <2>3. Yet(e)'
    BY <1>0, <2>2 DEF KeyOf, Last
  <2>4. Len(decided[e]) \in DOMAIN decided[e] /\ KeyOf(e, k, Last(e))
    BY <1>0, <2>2 DEF TypeOK
  <2>5. \A c \in AliasKey : \/ draft'[e][c] = draft[e][c]
                            \/ c = k /\ draft'[e][c] = Value(Last(e))
    BY <2>1 DEF Teach, TypeOK
  <2>6. Written(e)'
    <3> SUFFICES ASSUME NEW c \in AliasKey, draft'[e][c] # Untouched
                 PROVE  \E i \in DOMAIN decided[e] :
                          KeyOf(e, c, decided[e][i]) /\ draft'[e][c] = Value(decided[e][i])
      BY <2>2 DEF KeyOf
    <3>1. CASE draft'[e][c] = draft[e][c]
      BY <1>0, <3>1
    <3>2. CASE c = k /\ draft'[e][c] = Value(Last(e))
      BY <2>4, <3>2 DEF Last
    <3> QED
      BY <2>5, <3>1, <3>2
  <2> QED
    BY <2>2, <2>3, <2>6
<1> QED
  BY <1>1, <1>2, <1>3, <1>4, <1>5, EditorStep DEF OwnStep

-----------------------------------------------------------------------------
(* The theorems of the specification *)

\* The invariant holds: an editor decides on the lines of a receipt it has
\* locked, each line it decides on is new or continues one of them, and what
\* it writes to the history is the user's choice for such a line.
THEOREM Invariance == Spec => []IInv
<1>1. Init => IInv
  BY InitInv
<1>2. IInv /\ [Next]_vars => IInv'
  BY TypeStep, LockedStep, DecidesOnBookStep, DecisionsSoundStep, WritesSoundStep,
     LooksBeforeWritingStep DEF IInv
<1> QED
  BY <1>1, <1>2, PTL DEF Spec

\* Whatever the transactions do, no category or id is left out of a stored
\* line (the NULL handling of update_receipt).
THEOREM TypeCorrect == Spec => []TypeOK
<1>1. IInv => TypeOK
  BY DEF IInv
<1> QED
  BY <1>1, Invariance, PTL

-----------------------------------------------------------------------------
(* The transactions implement the book *)

\* The ids of the lines an edit keeps are old, those it adds are new.
LEMMA EditRefines ==
    ASSUME IInv, NEW e \in Editor, CommitEdit(e)
    PROVE  Edit(Target[e])
<1> USE RequestTypes DEF IInv
<1> DEFINE r == Target[e]
           n == Len(decided[e])
           line(i) == IF decided[e][i].id # NoId THEN decided[e][i]
                      ELSE [decided[e][i] EXCEPT !.id = NewIds(n)[i]]
           lines == [i \in 1..n |-> line(i)]
<1>1. /\ at[e] = "decide" /\ left[e] = {}
      /\ book' = [book EXCEPT ![r].lines = lines]
      /\ alias' = [k \in AliasKey |-> Seen(e, k)]
      /\ UNCHANGED noted
  BY DEF CommitEdit
<1>2. n \in Nat /\ DOMAIN decided[e] = 1..n /\ \A i \in 1..n : decided[e][i] \in Pending
  BY DEF TypeOK
<1>3. book'[r].lines = lines
  BY <1>1 DEF TypeOK, Page
<1>4. AreNew(NewIds(n), n)
  BY <1>2, NewIdsAreNew DEF CommitEdit
<1>5. DOMAIN lines = 1..n /\ \A i \in 1..n : lines[i] = line(i)
  OBVIOUS
<1>6. Live(r) /\ old[e] = book[r].lines
  BY <1>1 DEF Locked, DecidesOnBook
<1>7. \A j \in DOMAIN book[r].lines : /\ book[r].lines[j].id \in UsedIds
                                      /\ book[r].lines[j].id # NoId
  <2>1. book[r].lines \in Seq(Line)
    BY DEF TypeOK, Page
  <2>2. \A j \in DOMAIN book[r].lines : book[r].lines[j] \in Line
    BY <2>1
  <2>3. \A j \in DOMAIN book[r].lines : book[r].lines[j].id # NoId
    BY <2>2 DEF Line
  <2>4. Ids(book[r].lines) \subseteq UsedIds
    BY DEF UsedIds
  <2> QED
    BY <2>3, <2>4 DEF Ids
<1>8. ASSUME NEW i \in 1..n
      PROVE  /\ lines[i].original = decided[e][i].original
             /\ lines[i].text = decided[e][i].text
             /\ lines[i].category = decided[e][i].category
             /\ lines[i].source = decided[e][i].source
             /\ decided[e][i].id # NoId => lines[i].id = decided[e][i].id
             /\ decided[e][i].id = NoId => lines[i].id = NewIds(n)[i]
  BY <1>2 DEF Pending
<1> HIDE DEF lines, line
<1>9. ASSUME NEW i \in 1..n
      PROVE  \/ decided[e][i].id = NoId /\ Starts(lines[i])
             \/ /\ decided[e][i].id # NoId
                /\ \E j \in DOMAIN book[r].lines : Continues(book[r].lines[j], lines[i])
  <2>1. Decided(e, decided[e][i])
    BY <1>2 DEF DecisionsSound
  <2>2. CASE decided[e][i].id = NoId
    <3>1. ~ \E j \in DOMAIN old[e] : Continues(old[e][j], decided[e][i])
      BY <1>6, <1>7, <2>2 DEF Continues
    <3>2. NewIds(n)[i] \notin UsedIds
      BY <1>4 DEF AreNew
    <3> QED
      BY <1>8, <2>1, <2>2, <3>1, <3>2 DEF Decided, Starts
  <2>3. CASE decided[e][i].id # NoId
    BY <1>6, <1>8, <2>1, <2>3 DEF Decided, Continues
  <2> QED
    BY <2>2, <2>3
<1>10. Distinct(lines)
  <2> SUFFICES ASSUME NEW i \in 1..n, NEW j \in 1..n, lines[i].id = lines[j].id
               PROVE  i = j
    BY <1>5 DEF Distinct
  <2>1. \A c \in 1..n : \/ decided[e][c].id = NoId /\ lines[c].id = NewIds(n)[c]
                               /\ lines[c].id \notin UsedIds
                        \/ decided[e][c].id # NoId /\ lines[c].id = decided[e][c].id
                               /\ lines[c].id \in UsedIds
    <3> SUFFICES ASSUME NEW c \in 1..n
                 PROVE  \/ decided[e][c].id = NoId /\ lines[c].id = NewIds(n)[c]
                               /\ lines[c].id \notin UsedIds
                        \/ decided[e][c].id # NoId /\ lines[c].id = decided[e][c].id
                               /\ lines[c].id \in UsedIds
      OBVIOUS
    <3>1. CASE decided[e][c].id = NoId
      BY <1>4, <1>8, <3>1 DEF AreNew
    <3>2. CASE decided[e][c].id # NoId
      BY <1>7, <1>8, <1>9, <3>2 DEF Continues
    <3> QED
      BY <3>1, <3>2
  <2>2. CASE decided[e][i].id = NoId
    BY <1>4, <2>1, <2>2 DEF AreNew
  <2>3. CASE decided[e][i].id # NoId
    BY <1>2, <2>1, <2>3 DEF DecisionsSound
  <2> QED
    BY <2>2, <2>3
<1>11. ASSUME NEW k \in AliasKey
       PROVE  alias'[k] = alias[k] \/ Taught(k, body[e].merchant, r, lines)
  <2>1. CASE draft[e][k] = Untouched
    BY <1>1, <2>1 DEF Seen
  <2>2. CASE draft[e][k] # Untouched
    <3>1. PICK i \in DOMAIN decided[e] :
            /\ KeyOf(e, k, decided[e][i])
            /\ draft[e][k] = IF decided[e][i].category = Unknown
                                THEN NoAlias ELSE decided[e][i].category
      BY <2>2 DEF WritesSound
    <3>2. alias'[k] = draft[e][k]
      BY <1>1, <2>2 DEF Seen
    <3> QED
      BY <1>2, <1>5, <1>8, <3>1, <3>2 DEF KeyOf, Taught
  <2> QED
    BY <2>1, <2>2
<1>12. body[e].merchant \in Merchant
  BY <1>1, InputAssumption DEF Locked, InputAssumption
<1>13. \A i \in DOMAIN lines :
          \/ Starts(lines[i])
          \/ \E j \in DOMAIN book[r].lines : Continues(book[r].lines[j], lines[i])
  BY <1>5, <1>9
<1>14. \E m \in Merchant :
          \A k \in AliasKey : alias'[k] = alias[k] \/ Taught(k, m, r, lines)
  BY <1>11, <1>12
<1> HIDE DEF r
<1>15. book' = [book EXCEPT ![r].lines = book'[r].lines]
  BY <1>1, <1>3
<1>16. Distinct(book'[r].lines)
  BY <1>3, <1>10
<1>17. \A i \in DOMAIN book'[r].lines :
          \/ Starts(book'[r].lines[i])
          \/ \E j \in DOMAIN book[r].lines :
                Continues(book[r].lines[j], book'[r].lines[i])
  BY <1>3, <1>13
<1>18. \E m \in Merchant :
          \A k \in AliasKey : alias'[k] = alias[k] \/ Taught(k, m, r, book'[r].lines)
  BY <1>3, <1>14
<1>19. Edit(r)
  BY <1>1, <1>6, <1>15, <1>16, <1>17, <1>18 DEF Edit
<1> QED
  BY <1>19 DEF r

LEMMA NoteRefines ==
    ASSUME IInv, NEW a \in Analysis, LookUp(a)
    PROVE  Note(a)
<1>1. noted[a] = NoNote /\ body[a] \in Extraction
  BY DEF LookUp, IInv, LooksBeforeWriting, Locked, Storing
<1>2. body[a].merchant \in Merchant
  BY <1>1, InputAssumption DEF InputAssumption
<1> QED
  BY <1>1, <1>2 DEF LookUp, Note

LEMMA ExtractRefines ==
    ASSUME IInv, NEW a \in Analysis, CommitReceipt(a)
    PROVE  Extract(a)
<1> USE RequestTypes DEF IInv
<1> DEFINE r == Target[a]
           n == Len(Items(a))
           lines == [i \in 1..n |-> Classify(a, Items(a)[i], NewIds(n)[i])]
<1>1. noted[a] # NoNote /\ body[a] \in Extraction
  BY DEF CommitReceipt, LooksBeforeWriting, Locked, Storing
<1>2. n \in Nat
  BY <1>1, InputAssumption DEF InputAssumption, Items
<1>3. AreNew(NewIds(n), n)
  BY <1>2, NewIdsAreNew DEF CommitReceipt
<1>4. book' = [book EXCEPT ![r] = [status |-> Stored(a), lines |-> lines]]
  BY DEF CommitReceipt
<1>5. book'[r].lines = lines
  BY <1>4 DEF TypeOK
<1>6. DOMAIN lines = 1..n /\ \A i \in 1..n : lines[i].id = NewIds(n)[i]
  BY DEF Classify
<1>7. Distinct(lines) /\ Ids(lines) \cap UsedIds = {}
  BY <1>3, <1>6 DEF AreNew, Distinct, Ids
<1>8. \A i \in DOMAIN lines : Classified(a, lines[i])
  BY CategoryAssumption DEF Classify, Classified, Remembered
<1> QED
  BY <1>1, <1>4, <1>5, <1>7, <1>8 DEF Extract, CommitReceipt

LEMMA StepRefines == ASSUME IInv, [Next]_vars PROVE [BookNext]_bookVars
<1> USE RequestTypes
<1>1. ASSUME NEW e \in Editor, CommitEdit(e) PROVE BookNext
  BY <1>1, EditRefines DEF BookNext
<1>2. ASSUME NEW a \in Analysis, LookUp(a) \/ CommitReceipt(a) PROVE BookNext
  BY <1>2, NoteRefines, ExtractRefines DEF BookNext
<1>3. ASSUME NEW r \in Receipt, VerifyReceipt(r) \/ DeleteReceipt(r) PROVE BookNext
  BY <1>3 DEF VerifyReceipt, DeleteReceipt, Verify, Delete, BookNext
<1>4. ASSUME NEW q \in Request, RollsBack(q) PROVE UNCHANGED bookVars
  BY <1>4 DEF RollsBack
<1>5. ASSUME NEW e \in Editor,
             \/ ReadLines(e) \/ Keep(e) \/ Add(e)
             \/ \E k \in AliasKey : Teach(e, k)
             \/ \E b \in Body : Lock(e, b)
      PROVE  UNCHANGED bookVars
  BY <1>5 DEF ReadLines, Keep, Add, Decides, Teach, Lock
<1>6. ASSUME NEW a \in Analysis,
             \/ InsertReceipt(a)
             \/ \E x \in Extraction : FindReceipt(a, x) \/ FindNone(a, x)
      PROVE  UNCHANGED bookVars
  BY <1>6 DEF InsertReceipt, RollsBack, FindReceipt, FindNone
<1>7. CASE UNCHANGED vars
  BY <1>7 DEF vars, bookVars
<1> QED
  BY <1>1, <1>2, <1>3, <1>4, <1>5, <1>6, <1>7
  DEF Next, EditStep, StoreStep, NotFound, Reject, Victim, Fails

\* Concurrent edits, analyses, verifications and deletions of receipts
\* amount to whole corrections, each of the receipt as it was
\* (update_receipt and persist_receipt under READ COMMITTED).
THEOREM Implementation == Spec => ImplementsBook
<1>1. Init => BookInit
  BY DEF Init
<1>2. IInv /\ [Next]_vars => [BookNext]_bookVars
  BY StepRefines
<1> QED
  BY <1>1, <1>2, Invariance, PTL DEF Spec, ImplementsBook, BookSpec

-----------------------------------------------------------------------------
(* Lines and their ids *)

LEMMA LinesAreLines ==
    ASSUME TypeOK, NEW r \in Receipt
    PROVE  /\ book[r].lines \in Seq(Line)
           /\ \A i \in DOMAIN book[r].lines : book[r].lines[i].id \in UsedIds
<1>1. book[r].lines \in Seq(Line)
  BY DEF TypeOK, Page
<1>2. Ids(book[r].lines) \subseteq UsedIds
  BY DEF UsedIds
<1> QED
  BY <1>1, <1>2 DEF Ids

\* What a step of the book does to the lines of a receipt: nothing, or they go,
\* or they are new, or they are edited.
LEMMA BookSteps ==
    ASSUME TypeOK, BookNext
    PROVE  \E r \in Receipt :
             /\ \A s \in Receipt \ {r} : book'[s] = book[s]
             /\ \/ book'[r].lines = book[r].lines
                \/ book'[r].lines = <<>>
                \/ /\ Distinct(book'[r].lines)
                   /\ Ids(book'[r].lines) \cap UsedIds = {}
                \/ /\ Distinct(book'[r].lines)
                   /\ \A i \in DOMAIN book'[r].lines :
                         \/ book'[r].lines[i].id \notin UsedIds
                         \/ \E j \in DOMAIN book[r].lines :
                               Continues(book[r].lines[j], book'[r].lines[i])
<1>1. ASSUME NEW r \in Receipt, Edit(r)
      PROVE  /\ \A s \in Receipt \ {r} : book'[s] = book[s]
             /\ Distinct(book'[r].lines)
             /\ \A i \in DOMAIN book'[r].lines :
                   \/ book'[r].lines[i].id \notin UsedIds
                   \/ \E j \in DOMAIN book[r].lines :
                         Continues(book[r].lines[j], book'[r].lines[i])
  <2> DEFINE lines == book'[r].lines
  <2>1. book' = [book EXCEPT ![r].lines = lines]
    BY <1>1 DEF Edit
  <2>2. \A s \in Receipt \ {r} : book'[s] = book[s]
    BY <2>1 DEF TypeOK
  <2>3. Distinct(book'[r].lines)
    BY <1>1 DEF Edit
  <2>4. \A i \in DOMAIN book'[r].lines :
           \/ book'[r].lines[i].id \notin UsedIds
           \/ \E j \in DOMAIN book[r].lines :
                 Continues(book[r].lines[j], book'[r].lines[i])
    BY <1>1 DEF Edit, Starts
  <2> QED
    BY <2>2, <2>3, <2>4
<1>2. ASSUME NEW r \in Receipt, Verify(r)
      PROVE  (\A s \in Receipt \ {r} : book'[s] = book[s]) /\ book'[r].lines = book[r].lines
  BY <1>2 DEF Verify, TypeOK, Page
<1>3. ASSUME NEW r \in Receipt, Delete(r)
      PROVE  (\A s \in Receipt \ {r} : book'[s] = book[s]) /\ book'[r].lines = <<>>
  BY <1>3 DEF Delete, TypeOK, Blotted
<1>4. ASSUME NEW a \in Analysis, Note(a)
      PROVE  book' = book
  BY <1>4 DEF Note
<1>5. ASSUME NEW a \in Analysis, Extract(a)
      PROVE  LET r == Target[a] IN
             /\ r \in Receipt
             /\ \A s \in Receipt \ {r} : book'[s] = book[s]
             /\ Distinct(book'[r].lines)
             /\ Ids(book'[r].lines) \cap UsedIds = {}
  BY <1>5, RequestTypes DEF Extract, TypeOK
<1>6. Receipt # {} \/ Analysis = {}
  BY RequestTypes
<1> QED
  BY <1>1, <1>2, <1>3, <1>4, <1>5, RequestTypes DEF BookNext

LEMMA InitIds == Init => IdsAreUnique
BY DEF Init, BookInit, IdsAreUnique, Blotted

LEMMA UniqueStep ==
    ASSUME TypeOK, IdsAreUnique, BookNext
    PROVE  LineContinues /\ IdsAreUnique'
<1>1. PICK r \in Receipt :
             /\ \A s \in Receipt \ {r} : book'[s] = book[s]
             /\ \/ book'[r].lines = book[r].lines
                \/ book'[r].lines = <<>>
                \/ /\ Distinct(book'[r].lines)
                   /\ Ids(book'[r].lines) \cap UsedIds = {}
                \/ /\ Distinct(book'[r].lines)
                   /\ \A i \in DOMAIN book'[r].lines :
                         \/ book'[r].lines[i].id \notin UsedIds
                         \/ \E j \in DOMAIN book[r].lines :
                               Continues(book[r].lines[j], book'[r].lines[i])
  BY BookSteps
\* A line of r after the step is new, or continues one of r.
<1>2. \A i \in DOMAIN book'[r].lines :
         \/ book'[r].lines[i].id \notin UsedIds
         \/ \E j \in DOMAIN book[r].lines :
               Continues(book[r].lines[j], book'[r].lines[i])
  <2>1. CASE book'[r].lines = book[r].lines
    BY <2>1 DEF Continues
  <2>2. CASE book'[r].lines = <<>>
    BY <2>2
  <2>3. CASE Ids(book'[r].lines) \cap UsedIds = {}
    BY <2>3 DEF Ids
  <2> QED
    BY <1>1, <2>1, <2>2, <2>3
<1>3. Distinct(book'[r].lines)
  BY <1>1 DEF Distinct, IdsAreUnique
<1>4. ASSUME NEW s \in Receipt, NEW i \in DOMAIN book[s].lines,
             NEW t \in Receipt, NEW j \in DOMAIN book'[t].lines,
             book[s].lines[i].id = book'[t].lines[j].id
      PROVE  s = t /\ Continues(book[s].lines[i], book'[t].lines[j])
  <2>1. book[s].lines[i].id \in UsedIds
    BY LinesAreLines
  <2>2. CASE t = r
    <3>1. PICK k \in DOMAIN book[r].lines : Continues(book[r].lines[k], book'[r].lines[j])
      BY <1>2, <1>4, <2>1, <2>2
    <3>2. s = r /\ i = k
      BY <1>4, <2>2, <3>1 DEF IdsAreUnique, Continues
    <3> QED
      BY <2>2, <3>1, <3>2
  <2>3. CASE t # r
    <3>1. book'[t] = book[t]
      BY <1>1, <2>3
    <3>2. s = t /\ i = j
      BY <1>4, <3>1 DEF IdsAreUnique
    <3> QED
      BY <3>1, <3>2 DEF Continues
  <2> QED
    BY <2>2, <2>3
<1>5. LineContinues
  BY <1>4 DEF LineContinues
<1>6. ASSUME NEW s \in Receipt, NEW t \in Receipt,
             NEW i \in DOMAIN book'[s].lines, NEW j \in DOMAIN book'[t].lines,
             book'[s].lines[i].id = book'[t].lines[j].id
      PROVE  s = t /\ i = j
  <2>1. CASE s = r /\ t = r
    BY <1>3, <1>6, <2>1 DEF Distinct
  <2>2. CASE s # r
    <3>1. book'[s] = book[s]
      BY <1>1, <2>2
    <3>2. s = t
      BY <1>4, <1>6, <3>1
    <3> QED
      BY <1>6, <3>1, <3>2 DEF IdsAreUnique
  <2>3. CASE t # r
    <3>1. book'[t] = book[t]
      BY <1>1, <2>3
    <3>2. s = t
      BY <1>4, <1>6, <3>1
    <3> QED
      BY <1>6, <3>1, <3>2 DEF IdsAreUnique
  <2> QED
    BY <2>1, <2>2, <2>3
<1>7. IdsAreUnique'
  BY <1>6 DEF IdsAreUnique
<1> QED
  BY <1>5, <1>7

\* A step that leaves the book alone leaves its lines alone.
LEMMA UniqueStutter ==
    ASSUME IdsAreUnique, UNCHANGED bookVars
    PROVE  IdsAreUnique'
BY DEF IdsAreUnique, bookVars

LEMMA UniqueAlways == Spec => []IdsAreUnique
<1>1. IInv /\ IdsAreUnique /\ [Next]_vars => IdsAreUnique'
  BY StepRefines, UniqueStep, UniqueStutter DEF IInv
<1> QED
  BY <1>1, InitIds, Invariance, PTL DEF Spec

\* No two stored lines ever have the same id, whatever edits and analyses
\* overlap (update_receipt keeps the ids of its receipt's lines and gives each
\* one once; persist_receipt gives new ones).
THEOREM LineIdsAreUnique == Spec => []IdsAreUnique
BY UniqueAlways

\* While a line is stored it keeps its receipt, its text as read and the
\* category the user chose last, through every edit, re-analysis and
\* verification (update_receipt and persist_receipt).
THEOREM LinesAreContinued == Spec => LinesContinue
<1>1. IInv /\ IdsAreUnique /\ [Next]_vars => [LineContinues]_bookVars
  BY StepRefines, UniqueStep DEF IInv
<1> QED
  BY <1>1, UniqueAlways, Invariance, PTL DEF Spec, LinesContinue

-----------------------------------------------------------------------------
(* Locks and waiting *)

\* A receipt is locked by a transaction on that receipt that is under way: no
\* lock outlives the request that took it (the transaction blocks of
\* update_receipt and persist_receipt).
LocksBelong ==
    \A r \in Receipt : holder[r] # None =>
        /\ Target[holder[r]] = r
        /\ at[holder[r]] \in Active \ {"insert"}

\* No two transactions have written the same remembered category: the second
\* waits for the first, although a DELETE of what is not there waits for nobody
\* (upsert_category_alias and delete_category_alias in update_receipt).
OneWriter ==
    \A e, f \in Editor, k \in AliasKey :
        draft[e][k] # Untouched /\ draft[f][k] # Untouched => e = f

UnderWay == {q \in Request : at[q] \in Active}

\* What a transaction under way waits for.
Blocks(f, q) ==
    \/ q \in Analysis /\ at[q] = "insert" /\ f = holder[Target[q]] /\ f # None
    \/ q \in Editor /\ f \in Editor /\ Waits(q, f)
Blocked(q) == \E f \in Request : Blocks(f, q)

\* Follow whom a transaction waits for, whom those wait for, and so on: among
\* them is one that waits for nobody, or some that wait for each other, one of
\* which the database ends.  No lock is waited for that nobody will release
\* (update_receipt and persist_receipt lock the receipt before the history).
NobodyHangs ==
    \A S \in (SUBSET UnderWay) \ {{}} :
        (\A q \in S, f \in UnderWay : Blocks(f, q) => f \in S) =>
            \/ \E q \in S : ~Blocked(q)
            \/ \E T \in SUBSET (S \cap Editor) : Stuck(T)

LEMMA EndsKeepLocks ==
    ASSUME IInv, LocksBelong, NEW q \in Request, Ends(q)
    PROVE  LocksBelong'
<1> SUFFICES ASSUME NEW r \in Receipt, holder'[r] # None
             PROVE  Target[holder'[r]] = r /\ at'[holder'[r]] \in Active \ {"insert"}
  BY DEF LocksBelong
<1>1. holder'[r] = holder[r] /\ holder[r] # q
  BY DEF Ends, Release
<1>2. holder[r] \in Request
  BY <1>1 DEF IInv, TypeOK
<1>3. at'[holder[r]] = at[holder[r]]
  BY <1>1, <1>2 DEF Ends, IInv, TypeOK
<1> QED
  BY <1>1, <1>3 DEF LocksBelong

\* A transaction locks its receipt, or goes on.
LEMMA HoldersGoOn ==
    ASSUME IInv, LocksBelong, NEW q \in Request, NEW place \in Active \ {"insert"},
           at' = [at EXCEPT ![q] = place],
           \/ holder' = holder
           \/ holder' = [holder EXCEPT ![Target[q]] = q]
    PROVE  LocksBelong'
<1> SUFFICES ASSUME NEW r \in Receipt, holder'[r] # None
             PROVE  Target[holder'[r]] = r /\ at'[holder'[r]] \in Active \ {"insert"}
  BY DEF LocksBelong
<1>1. at'[q] = place /\ \A g \in Request : at'[g] \in {at[g], place}
  BY DEF IInv, TypeOK
<1>2. CASE holder'[r] = holder[r]
  <2>1. holder[r] \in Request
    BY <1>2 DEF IInv, TypeOK
  <2> QED
    BY <1>1, <1>2, <2>1 DEF LocksBelong
<1>3. CASE r = Target[q] /\ holder'[r] = q
  BY <1>1, <1>3
<1> QED
  BY <1>2, <1>3 DEF IInv, TypeOK

LEMMA LocksStep == ASSUME IInv, LocksBelong, [Next]_vars PROVE LocksBelong'
<1> USE RequestTypes DEF Active
<1>1. ASSUME NEW q \in Request, RollsBack(q) PROVE LocksBelong'
  BY <1>1, EndsKeepLocks DEF RollsBack
<1>2. ASSUME NEW e \in Editor, NEW b \in Body, Lock(e, b) PROVE LocksBelong'
  BY <1>2, HoldersGoOn DEF Lock
<1>3. ASSUME NEW e \in Editor, ReadLines(e) PROVE LocksBelong'
  BY <1>3, HoldersGoOn DEF ReadLines
<1>4. ASSUME NEW e \in Editor, CommitEdit(e) PROVE LocksBelong'
  BY <1>4, EndsKeepLocks DEF CommitEdit
<1>5. ASSUME NEW a \in Analysis, NEW x \in Extraction, FindReceipt(a, x) PROVE LocksBelong'
  BY <1>5, HoldersGoOn DEF FindReceipt
<1>6. ASSUME NEW a \in Analysis, NEW x \in Extraction, FindNone(a, x) PROVE LocksBelong'
  <2>1. at[a] = "idle" /\ holder' = holder /\ \A q \in Request \ {a} : at'[q] = at[q]
    BY <1>6 DEF FindNone, IInv, TypeOK
  <2>2. \A r \in Receipt : holder[r] # None => holder[r] # a
    BY <2>1 DEF LocksBelong
  <2>3. \A r \in Receipt : holder[r] # None => holder[r] \in Request
    BY DEF IInv, TypeOK
  <2> QED
    BY <2>1, <2>2, <2>3 DEF LocksBelong
<1>7. ASSUME NEW a \in Analysis, InsertReceipt(a) PROVE LocksBelong'
  BY <1>1, <1>7, HoldersGoOn DEF InsertReceipt
<1>8. ASSUME NEW a \in Analysis, LookUp(a) PROVE LocksBelong'
  BY <1>8, HoldersGoOn DEF LookUp
<1>9. ASSUME NEW a \in Analysis, CommitReceipt(a) PROVE LocksBelong'
  BY <1>9, EndsKeepLocks DEF CommitReceipt
<1>10. CASE \/ \E e \in Editor : Keep(e) \/ Add(e) \/ \E k \in AliasKey : Teach(e, k)
            \/ \E r \in Receipt : VerifyReceipt(r) \/ DeleteReceipt(r)
            \/ UNCHANGED vars
  <2>1. UNCHANGED <<at, holder>>
    BY <1>10
    DEF Keep, Add, Decides, Teach, VerifyReceipt, DeleteReceipt, localVars, vars
  <2> QED
    BY <2>1 DEF LocksBelong
<1> QED
  BY <1>1, <1>2, <1>3, <1>4, <1>5, <1>6, <1>7, <1>8, <1>9, <1>10
  DEF Next, EditStep, StoreStep, NotFound, Reject, Victim, Fails, Request

\* Nobody else has written what an editor may write.
LEMMA TeachAlone ==
    ASSUME IInv, OneWriter, NEW e \in Editor, NEW k \in AliasKey, Teach(e, k)
    PROVE  OneWriter'
<1>1. /\ \A f \in Editor \ {e} : draft'[f] = draft[f]
      /\ \A c \in AliasKey \ {k} : draft'[e][c] = draft[e][c]
  BY DEF Teach, IInv, TypeOK
<1>2. CASE draft'[e][k] = draft[e][k]
  <2>1. \A f \in Editor, c \in AliasKey : draft'[f][c] = draft[f][c]
    BY <1>1, <1>2
  <2> QED
    BY <2>1 DEF OneWriter
<1>3. CASE draft'[e][k] # draft[e][k]
  <2>1. ~(Last(e).category = Unknown /\ Seen(e, k) = NoAlias)
    BY <1>3 DEF Teach
  <2>2. \A f \in Editor \ {e} : draft[f][k] = Untouched
    BY <2>1 DEF Teach, WaitsFor
  <2> QED
    BY <1>1, <2>2 DEF OneWriter
<1> QED
  BY <1>2, <1>3

LEMMA OneWriterStep == ASSUME IInv, OneWriter, [Next]_vars PROVE OneWriter'
<1>1. ASSUME NEW e \in Editor, NEW k \in AliasKey, Teach(e, k) PROVE OneWriter'
  BY <1>1, TeachAlone
<1>2. CASE ~ \E e \in Editor, k \in AliasKey : Teach(e, k)
  <2>1. \A e \in Editor : draft'[e] = draft[e] \/ draft'[e] = Nothing
    <3> TAKE e \in Editor
    <3>1. CASE Undisturbed(e)
      BY <3>1 DEF Undisturbed
    <3>2. CASE RollsBack(e) \/ CommitEdit(e)
      BY <3>2 DEF RollsBack, CommitEdit, Ends
    <3>3. CASE \/ \E b \in Body : Lock(e, b)
               \/ ReadLines(e) \/ Keep(e) \/ Add(e)
      BY <3>3 DEF Lock, ReadLines, Keep, Add, Decides
    <3> QED
      BY <1>2, <3>1, <3>2, <3>3, EditorStep DEF OwnStep
  <2>2. \A e \in Editor, k \in AliasKey :
           draft'[e][k] # Untouched => draft[e][k] # Untouched
    BY <2>1 DEF Nothing
  <2> QED
    BY <2>2 DEF OneWriter
<1> QED
  BY <1>1, <1>2

\* Those of the set that wait for a remembered category are stuck, if every
\* one of the set waits.
LEMMA SomebodyMoves == IInv /\ LocksBelong => NobodyHangs
<1> SUFFICES ASSUME IInv, LocksBelong,
                    NEW S \in (SUBSET UnderWay) \ {{}},
                    \A q \in S, f \in UnderWay : Blocks(f, q) => f \in S,
                    \A q \in S : Blocked(q)
             PROVE  \E T \in SUBSET (S \cap Editor) : Stuck(T)
  BY DEF NobodyHangs
<1> DEFINE T == S \cap Editor
<1>1. \A e \in T : \E f \in T : Waits(e, f)
  <2> TAKE e \in T
  <2>1. PICK f \in Request : Blocks(f, e)
    BY DEF Blocked, UnderWay
  <2>2. f \in Editor /\ Waits(e, f)
    BY <2>1, RequestTypes DEF Blocks
  <2>3. at[f] = "decide"
    <3>1. PICK k \in left[e] : draft[f][k] # Untouched
      BY <2>2 DEF Waits, WaitsFor
    <3>2. k \in AliasKey
      BY <3>1 DEF IInv, TypeOK
    <3> QED
      BY <2>2, <3>1, <3>2 DEF IInv, WritesSound, Nothing
  <2>4. f \in UnderWay
    BY <2>3 DEF UnderWay, Active
  <2> QED
    BY <2>1, <2>2, <2>4
\* One that waits for an insert waits for a transaction that does not.
<1>2. T # {}
  <2>1. PICK q \in S : TRUE
    OBVIOUS
  <2>2. PICK f \in Request : Blocks(f, q)
    BY <2>1 DEF Blocked
  <2>3. CASE q \in Editor
    BY <2>1, <2>3
  <2>4. CASE q \notin Editor
    <3>1. q \in Analysis /\ at[q] = "insert" /\ f = holder[Target[q]] /\ f # None
      BY <2>2, <2>4 DEF Blocks
    <3>2. at[f] \in Active \ {"insert"}
      BY <3>1, RequestTypes DEF LocksBelong
    <3>3. f \in S
      BY <2>1, <2>2, <3>2 DEF UnderWay
    <3>4. ~(f \in Analysis)
      <4>1. PICK g \in Request : Blocks(g, f)
        BY <3>3 DEF Blocked
      <4> QED
        BY <3>2, <4>1 DEF Blocks
    <3> QED
      BY <3>3, <3>4 DEF UnderWay, Request
  <2> QED
    BY <2>3, <2>4
<1> QED
  BY <1>1, <1>2 DEF Stuck

\* Every lock on a receipt is of a transaction on it that is under way.
THEOREM LocksAreReleased == Spec => []LocksBelong
<1>1. Init => LocksBelong
  BY DEF Init, LocksBelong
<1>2. IInv /\ LocksBelong /\ [Next]_vars => LocksBelong'
  BY LocksStep
<1> QED
  BY <1>1, <1>2, Invariance, PTL DEF Spec

\* Two transactions never hold writes to the same remembered category, so a
\* commit overwrites nobody's (upsert_category_alias, delete_category_alias).
THEOREM WritersAreAlone == Spec => []OneWriter
<1>1. Init => OneWriter
  BY DEF Init, OneWriter, Nothing
<1>2. IInv /\ OneWriter /\ [Next]_vars => OneWriter'
  BY OneWriterStep
<1> QED
  BY <1>1, <1>2, Invariance, PTL DEF Spec

\* What a transaction waits for comes to an end: its own end is possible, or
\* the database breaks the circle it waits in (update_receipt, persist_receipt).
THEOREM NobodyWaitsInVain == Spec => []NobodyHangs
<1> QED
  BY SomebodyMoves, Invariance, LocksAreReleased, PTL
=============================================================================
