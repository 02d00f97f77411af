------------------------ MODULE Collections_proofs ------------------------
(***************************************************************************)
(* Theorems about Collections, for any users, ids, owners, names and       *)
(* number of requests.                                                     *)
(***************************************************************************)
EXTENDS Collections, TLAPS

-----------------------------------------------------------------------------
(* What a request holds agrees with who made it *)

CreatesOwn(q) ==
    req[q].at \in {"siblings", "insert", "insertActive"} =>
        req[q].coll \in drawn \cap Own(req[q].user)

TargetsOwn(q) ==
    req[q].at \in {"siblingsOf", "setActive", "check", "write", "assign"} =>
        /\ req[q].coll \in Collection
        /\ req[q].user \notin Admin => Owner[req[q].coll] = req[q].user

LinksOwn(q) ==
    req[q].at \in {"assign", "clear", "link"} =>
        /\ req[q].rcpt \in Receipt
        /\ req[q].user \notin Admin =>
              /\ Owner[req[q].rcpt] = req[q].user
              /\ \A c \in req[q].todo : Owner[c] = req[q].user

CapturesOwn(q) ==
    /\ req[q].at \in {"readActive", "capture"} =>
          req[q].rcpt \in Receipt /\ Owner[req[q].rcpt] = req[q].user
    /\ req[q].at = "capture" => req[q].coll \in Own(req[q].user)

Scoped(q) == CreatesOwn(q) /\ TargetsOwn(q) /\ LinksOwn(q) /\ CapturesOwn(q)

-----------------------------------------------------------------------------
(* The shapes of the steps *)

\* A request that another one does not touch, or disturbs.
Aside(r) == [r EXCEPT !.alone = FALSE]
Kept(g)  == req'[g] = req[g] \/ req'[g] = Aside(req[g])

NobodyElse == \A g \in Request : ~InFlight(g)

LEMMA IdleType == Idle \in Local
BY DEF Idle, Local, Place

LEMMA ReqType == ASSUME TypeOK, NEW g \in Request PROVE req[g] \in Local
BY DEF TypeOK

LEMMA FieldTypes ==
    ASSUME NEW l \in Local, NEW u \in User, NEW b \in BOOLEAN
    PROVE  [l EXCEPT !.user = u, !.alone = b] \in Local
BY DEF Local

LEMMA AsideType == ASSUME NEW r \in Local PROVE Aside(r) \in Local
BY DEF Local, Aside

LEMMA DisturbedType ==
    ASSUME TypeOK
    PROVE  /\ Disturbed \in [Request -> Local]
           /\ \A g \in Request : Disturbed[g] = req[g] \/ Disturbed[g] = Aside(req[g])
<1>1. Disturbed = [g \in Request |-> IF InFlight(g) THEN Aside(req[g]) ELSE req[g]]
  BY DEF Disturbed, Aside
<1>2. \A g \in Request : req[g] \in Local /\ Aside(req[g]) \in Local
  BY ReqType, AsideType
<1> QED
  BY <1>1, <1>2

LEMMA BeginShape ==
    ASSUME TypeOK, NEW q \in Request, NEW u \in User, NEW l \in Local, Begin(q, u, l)
    PROVE  /\ req' \in [Request -> Local]
           /\ actor' = u
           /\ req'[q] = [l EXCEPT !.user = u, !.alone = NobodyElse]
           /\ \A g \in Request \ {q} : Kept(g)
<1> DEFINE mine == [l EXCEPT !.user = u, !.alone = NobodyElse]
<1>1. NobodyElse \in BOOLEAN
  BY DEF NobodyElse, InFlight
<1>3. mine \in Local
  BY <1>1, FieldTypes
<1>4. actor' = u /\ req' = [Disturbed EXCEPT ![q] = mine]
  BY DEF Begin, NobodyElse
<1> HIDE DEF mine
<1>5. /\ req' \in [Request -> Local]
      /\ req'[q] = mine
      /\ \A g \in Request \ {q} : req'[g] = Disturbed[g]
  BY <1>3, <1>4, DisturbedType
<1> QED
  BY <1>4, <1>5, DisturbedType DEF Kept, mine

LEMMA OnceShape ==
    ASSUME TypeOK, NEW q \in Request, NEW u, Once(q, u)
    PROVE  /\ req' \in [Request -> Local]
           /\ actor' = u
           /\ \A g \in Request : Kept(g)
BY DisturbedType DEF Once, Kept

LEMMA ProceedShape ==
    ASSUME TypeOK, NEW q \in Request, NEW place \in Place, Proceed(q, place)
    PROVE  /\ req' \in [Request -> Local]
           /\ actor' = req[q].user
           /\ req'[q] = [req[q] EXCEPT !.at = place]
           /\ \A g \in Request \ {q} : Kept(g)
<1> DEFINE mine == [req[q] EXCEPT !.at = place]
<1>1. mine \in Local
  BY ReqType DEF Local
<1>2. actor' = req[q].user /\ req' = [req EXCEPT ![q] = mine]
  BY DEF Proceed
<1> HIDE DEF mine
<1>3. req' \in [Request -> Local] /\ req'[q] = mine /\ \A g \in Request \ {q} : Kept(g)
  BY <1>1, <1>2 DEF Kept, TypeOK
<1> QED
  BY <1>2, <1>3 DEF mine

LEMMA EndShape ==
    ASSUME TypeOK, NEW q \in Request, End(q)
    PROVE  /\ req' \in [Request -> Local]
           /\ actor' = req[q].user
           /\ req'[q] = Idle
           /\ \A g \in Request \ {q} : Kept(g)
BY IdleType DEF End, Kept, TypeOK

LEMMA KeptScoped ==
    ASSUME TypeOK, NEW g \in Request, Scoped(g), Kept(g), drawn \subseteq drawn'
    PROVE  Scoped(g)'
<1>1. /\ req'[g].at = req[g].at /\ req'[g].user = req[g].user
      /\ req'[g].coll = req[g].coll /\ req'[g].rcpt = req[g].rcpt
      /\ req'[g].todo = req[g].todo
  BY ReqType DEF Kept, Aside, Local
<1> QED
  BY <1>1 DEF Scoped, CreatesOwn, TargetsOwn, LinksOwn, CapturesOwn, Own

LEMMA IdleScoped == ASSUME NEW q \in Request, req'[q] = Idle PROVE Scoped(q)'
BY DEF Idle, Scoped, CreatesOwn, TargetsOwn, LinksOwn, CapturesOwn

-----------------------------------------------------------------------------
(* The inductive invariant *)

IInv == TypeOK /\ \A q \in Request : Scoped(q)

LEMMA OthersScoped ==
    ASSUME IInv, NEW q \in Request, drawn \subseteq drawn', Scoped(q)',
           \A g \in Request \ {q} : Kept(g)
    PROVE  \A g \in Request : Scoped(g)'
BY KeptScoped DEF IInv

LEMMA AllScoped ==
    ASSUME IInv, drawn \subseteq drawn', \A g \in Request : Kept(g)
    PROVE  \A g \in Request : Scoped(g)'
BY KeptScoped DEF IInv

\* TypeOK' of a step that leaves the ids, and keeps what the schema asks.
tables == <<drawn, live, receipts, active, name, links>>

LEMMA TablesType ==
    ASSUME TypeOK, req' \in [Request -> Local], actor' \in User \cup {None}, UNCHANGED tables
    PROVE  TypeOK'
BY DEF TypeOK, tables

LEMMA LinkedType ==
    ASSUME TypeOK, NEW r \in Receipt, NEW c \in Collection
    PROVE  Linked(r, c) \subseteq receipts \X live
BY DEF TypeOK, Linked

\* A request that begins, with locals that agree with its user.
LEMMA BeginKeeps ==
    ASSUME IInv, NEW q \in Request, NEW u \in User, NEW l \in Local, Begin(q, u, l),
           drawn \subseteq drawn',
           l.at \in {"siblings", "insert", "insertActive"} => l.coll \in drawn' \cap Own(u),
           l.at \in {"siblingsOf", "setActive", "check", "write", "assign"} =>
              l.coll \in Collection /\ (u \notin Admin => Owner[l.coll] = u),
           l.at \in {"assign", "clear", "link"} =>
              /\ l.rcpt \in Receipt
              /\ u \notin Admin => Owner[l.rcpt] = u /\ \A c \in l.todo : Owner[c] = u,
           l.at = "readActive" => l.rcpt \in Receipt /\ Owner[l.rcpt] = u,
           l.at # "capture"
    PROVE  \A g \in Request : Scoped(g)'
<1>1. /\ req'[q].at = l.at /\ req'[q].user = u /\ req'[q].coll = l.coll
      /\ req'[q].rcpt = l.rcpt /\ req'[q].todo = l.todo
  <2>1. req'[q] = [l EXCEPT !.user = u, !.alone = NobodyElse]
    BY BeginShape DEF IInv
  <2> QED
    BY <2>1 DEF Local
<1>2. Scoped(q)'
  <2>1. CreatesOwn(q)'
    BY <1>1 DEF CreatesOwn, Own
  <2>2. TargetsOwn(q)'
    BY <1>1 DEF TargetsOwn
  <2>3. LinksOwn(q)'
    BY <1>1 DEF LinksOwn
  <2>4. CapturesOwn(q)'
    BY <1>1 DEF CapturesOwn
  <2> QED
    BY <2>1, <2>2, <2>3, <2>4 DEF Scoped
<1> QED
  BY <1>2, BeginShape, OthersScoped DEF IInv

LEMMA OnceKeeps ==
    ASSUME IInv, NEW q \in Request, NEW u, Once(q, u), drawn \subseteq drawn'
    PROVE  \A g \in Request : Scoped(g)'
BY OnceShape, AllScoped DEF IInv

LEMMA EndKeeps ==
    ASSUME IInv, NEW q \in Request, End(q), UNCHANGED drawn
    PROVE  /\ \A g \in Request : Scoped(g)'
           /\ req' \in [Request -> Local]
           /\ actor' \in User \cup {None}
<1>1. req[q].user \in User \cup {None}
  BY ReqType DEF IInv, Local
<1> QED
  BY <1>1, EndShape, IdleScoped, OthersScoped DEF IInv

LEMMA InitInv == Init => IInv
<1> SUFFICES ASSUME Init PROVE IInv
  OBVIOUS
<1>1. TypeOK
  BY IdleType DEF Init, TypeOK
<1>2. ASSUME NEW q \in Request PROVE Scoped(q)
  BY <1>2 DEF Init, Idle, Scoped, CreatesOwn, TargetsOwn, LinksOwn, CapturesOwn
<1> QED
  BY <1>1, <1>2 DEF IInv

-----------------------------------------------------------------------------
(* Starting requests *)

LEMMA CreateInv ==
    ASSUME IInv, NEW q \in Request, NEW u \in User, NEW n \in Name, NEW c \in Collection,
           NEW activate \in BOOLEAN, CreateStart(q, u, n, c, activate)
    PROVE  IInv'
<1> DEFINE l == [Idle EXCEPT !.at = IF activate THEN "siblings" ELSE "insert",
                             !.coll = c, !.title = n, !.before = active]
<1>1. CASE Named(u, n) # {}
  <2>1. Once(q, u) /\ UNCHANGED tables
    BY <1>1 DEF CreateStart, tables
  <2>2. \A g \in Request : Scoped(g)'
    BY <2>1, OnceKeeps DEF tables
  <2>3. TypeOK'
    BY <2>1, OnceShape, TablesType DEF IInv
  <2> QED
    BY <2>2, <2>3 DEF IInv
<1>2. CASE Named(u, n) = {}
  <2>1. /\ Begin(q, u, l) /\ drawn' = drawn \cup {c} /\ c \in Own(u)
        /\ UNCHANGED <<live, receipts, active, name, links>>
    BY <1>2 DEF CreateStart
  <2>2. l \in Local
    BY DEF Idle, Local, Place, IInv, TypeOK
  <2>3. l.at \in {"siblings", "insert"} /\ l.coll = c
    BY DEF Idle
  <2> HIDE DEF l
  <2>4. \A g \in Request : Scoped(g)'
    BY <2>1, <2>2, <2>3, BeginKeeps
  <2>5. TypeOK'
    <3>1. req' \in [Request -> Local] /\ actor' \in User
      BY <2>1, <2>2, BeginShape DEF IInv
    <3> QED
      BY <2>1, <3>1 DEF IInv, TypeOK
  <2> QED
    BY <2>4, <2>5 DEF IInv
<1> QED
  BY <1>1, <1>2

\* A request that begins at its checks, or ends there, and writes nothing.
LEMMA ReadOnlyInv ==
    ASSUME IInv, NEW q \in Request, NEW u \in User, NEW l \in Local,
           Begin(q, u, l) \/ Once(q, u), UNCHANGED tables,
           l.at \in {"siblingsOf", "setActive", "check", "write", "assign", "clear"},
           l.at # "clear" => l.coll \in Collection /\ (u \notin Admin => Owner[l.coll] = u),
           l.at \in {"assign", "clear"} =>
              /\ l.rcpt \in Receipt
              /\ u \notin Admin => Owner[l.rcpt] = u /\ \A c \in l.todo : Owner[c] = u
    PROVE  IInv'
<1>1. \A g \in Request : Scoped(g)'
  <2>1. CASE Once(q, u)
    BY <2>1, OnceKeeps DEF tables
  <2>2. CASE Begin(q, u, l)
    BY <2>2, BeginKeeps DEF tables
  <2> QED
    BY <2>1, <2>2
<1>2. req' \in [Request -> Local] /\ actor' \in User
  BY BeginShape, OnceShape DEF IInv
<1> QED
  BY <1>1, <1>2, TablesType DEF IInv

LEMMA ActivateInv ==
    ASSUME IInv, NEW q \in Request, NEW u \in User, NEW c \in Collection, ActivateStart(q, u, c)
    PROVE  IInv'
<1> DEFINE l(place) == [Idle EXCEPT !.at = place, !.coll = c, !.before = active]
<1>1. ASSUME NEW place \in {"setActive", "siblingsOf"}
      PROVE  l(place) \in Local /\ l(place).at = place /\ l(place).coll = c
  BY DEF Idle, Local, Place, IInv, TypeOK
<1>2. UNCHANGED tables
  BY DEF ActivateStart, tables
<1>3. \/ u \in Admin /\ Begin(q, u, l("setActive"))
      \/ Owner[c] = u /\ Begin(q, u, l("siblingsOf"))
      \/ Owner[c] = u /\ Once(q, u)
      \/ Once(q, u)
  BY DEF ActivateStart
<1> HIDE DEF l
<1>4. CASE u \in Admin /\ Begin(q, u, l("setActive"))
  BY <1>1, <1>2, <1>4, ReadOnlyInv
<1>5. CASE Owner[c] = u /\ Begin(q, u, l("siblingsOf"))
  BY <1>1, <1>2, <1>5, ReadOnlyInv
<1>6. CASE Once(q, u)
  BY <1>2, <1>6, OnceKeeps, OnceShape, TablesType DEF IInv, tables
<1> QED
  BY <1>3, <1>4, <1>5, <1>6

LEMMA UpdateInv ==
    ASSUME IInv, NEW q \in Request, NEW u \in User, NEW c \in Collection,
           NEW n \in Name \cup {None}, UpdateStart(q, u, c, n)
    PROVE  IInv'
<1> DEFINE l == [Idle EXCEPT !.at = IF n = None THEN "write" ELSE "check",
                             !.coll = c, !.title = IF n = None THEN name[c] ELSE n]
<1>1. l \in Local /\ l.at \in {"write", "check"} /\ l.coll = c
  BY DEF Idle, Local, Place, IInv, TypeOK
<1>2. UNCHANGED tables
  BY DEF UpdateStart, tables
<1>3. (Sees(u, c) /\ Begin(q, u, l)) \/ Once(q, u)
  BY DEF UpdateStart
<1> HIDE DEF l
<1>4. CASE Sees(u, c) /\ Begin(q, u, l)
  BY <1>1, <1>2, <1>4, ReadOnlyInv DEF Sees
<1>5. CASE Once(q, u)
  BY <1>2, <1>5, OnceKeeps, OnceShape, TablesType DEF IInv, tables
<1> QED
  BY <1>3, <1>4, <1>5

LEMMA AssignStartInv ==
    ASSUME IInv, NEW q \in Request, NEW u \in User, NEW c \in Collection, NEW r \in Receipt,
           AssignStart(q, u, c, r)
    PROVE  IInv'
<1> DEFINE l == [Idle EXCEPT !.at = "assign", !.coll = c, !.rcpt = r]
<1>1. l \in Local /\ l.at = "assign" /\ l.coll = c /\ l.rcpt = r /\ l.todo = {}
  BY DEF Idle, Local, Place
<1>2. UNCHANGED tables
  BY DEF AssignStart, tables
<1>3. (Sees(u, c) /\ Sees(u, r) /\ Begin(q, u, l)) \/ Once(q, u)
  BY DEF AssignStart
<1> HIDE DEF l
<1>4. CASE Sees(u, c) /\ Sees(u, r) /\ Begin(q, u, l)
  BY <1>1, <1>2, <1>4, ReadOnlyInv DEF Sees
<1>5. CASE Once(q, u)
  BY <1>2, <1>5, OnceKeeps, OnceShape, TablesType DEF IInv, tables
<1> QED
  BY <1>3, <1>4, <1>5

LEMMA SetStartInv ==
    ASSUME IInv, NEW q \in Request, NEW u \in User, NEW r \in Receipt,
           NEW cs \in SUBSET Collection, SetStart(q, u, r, cs)
    PROVE  IInv'
<1> DEFINE l == [Idle EXCEPT !.at = "clear", !.rcpt = r, !.chosen = cs, !.todo = cs]
<1>1. l \in Local /\ l.at = "clear" /\ l.rcpt = r /\ l.todo = cs
  BY DEF Idle, Local, Place
<1>2. UNCHANGED tables /\ Sees(u, r)
  BY DEF SetStart, tables
<1>3. ((\A c \in cs : Sees(u, c)) /\ Begin(q, u, l)) \/ Once(q, u)
  BY DEF SetStart
<1> HIDE DEF l
<1>4. CASE (\A c \in cs : Sees(u, c)) /\ Begin(q, u, l)
  BY <1>1, <1>2, <1>4, ReadOnlyInv DEF Sees
<1>5. CASE Once(q, u)
  BY <1>2, <1>5, OnceKeeps, OnceShape, TablesType DEF IInv, tables
<1> QED
  BY <1>3, <1>4, <1>5

\* The requests of one statement.
LEMMA OnceInv ==
    ASSUME IInv, NEW q \in Request, NEW u \in User,
           \/ \E c \in Collection : Deactivate(q, u, c) \/ Delete(q, u, c)
           \/ \E c \in Collection, r \in Receipt : Unassign(q, u, c, r)
           \/ \E r \in Receipt : DeleteReceipt(q, u, r)
    PROVE  IInv'
<1>1. Once(q, u) /\ UNCHANGED drawn
  BY DEF Deactivate, Delete, Unassign, DeleteReceipt
<1>2. \A g \in Request : Scoped(g)'
  BY <1>1, OnceKeeps
<1>3. req' \in [Request -> Local] /\ actor' \in User
  BY <1>1, OnceShape DEF IInv
<1>4. ASSUME NEW c \in Collection, Deactivate(q, u, c) PROVE TypeOK'
  BY <1>3, <1>4 DEF IInv, TypeOK, Deactivate
<1>5. ASSUME NEW c \in Collection, Delete(q, u, c) PROVE TypeOK'
  <2>1. CASE Sees(u, c)
    <3>1. /\ live' = live \ {c} /\ active' = active \ {c}
          /\ name' = [name EXCEPT ![c] = None] /\ links' = {l \in links : l[2] # c}
          /\ UNCHANGED <<drawn, receipts>>
      BY <1>5, <2>1 DEF Delete
    <3>2. links' \subseteq receipts' \X live'
      BY <3>1 DEF IInv, TypeOK
    <3>3. name' \in [Collection -> Name \cup {None}]
      BY <3>1 DEF IInv, TypeOK
    <3> QED
      BY <1>3, <3>1, <3>2, <3>3 DEF IInv, TypeOK
  <2>2. CASE ~Sees(u, c)
    BY <1>3, <1>5, <2>2 DEF IInv, TypeOK, Delete
  <2> QED
    BY <2>1, <2>2
<1>6. ASSUME NEW c \in Collection, NEW r \in Receipt, Unassign(q, u, c, r) PROVE TypeOK'
  BY <1>3, <1>6 DEF IInv, TypeOK, Unassign
<1>7. ASSUME NEW r \in Receipt, DeleteReceipt(q, u, r) PROVE TypeOK'
  <2>1. links' \subseteq receipts' \X live'
    BY <1>7 DEF IInv, TypeOK, DeleteReceipt
  <2> QED
    BY <1>3, <1>7, <2>1 DEF IInv, TypeOK, DeleteReceipt
<1> QED
  BY <1>2, <1>4, <1>5, <1>6, <1>7 DEF IInv

LEMMA PersistInv ==
    ASSUME IInv, NEW q \in Request, NEW r \in Receipt, Persist(q, r)
    PROVE  IInv'
<1> DEFINE l == [Idle EXCEPT !.at = "readActive", !.rcpt = r]
<1>1. l \in Local /\ l.at = "readActive" /\ l.rcpt = r
  BY DEF Idle, Local, Place
<1>2. /\ drawn' = drawn \cup {r} /\ receipts' = receipts \cup {r}
      /\ UNCHANGED <<live, active, name, links>>
  BY DEF Persist
<1>3. Once(q, None) \/ (Owner[r] # None /\ Begin(q, Owner[r], l))
  BY DEF Persist
<1> HIDE DEF l
<1>4. CASE Once(q, None)
  <2>1. \A g \in Request : Scoped(g)'
    BY <1>2, <1>4, OnceKeeps
  <2>2. TypeOK'
    BY <1>2, <1>4, OnceShape DEF IInv, TypeOK
  <2> QED
    BY <2>1, <2>2 DEF IInv
<1>5. CASE Owner[r] # None /\ Begin(q, Owner[r], l)
  <2>1. Owner[r] \in User
    BY <1>5, OwnerAssumption
  <2>2. \A g \in Request : Scoped(g)'
    BY <1>1, <1>2, <1>5, <2>1, BeginKeeps
  <2>3. req' \in [Request -> Local] /\ actor' \in User
    BY <1>1, <1>5, <2>1, BeginShape DEF IInv
  <2>4. TypeOK'
    BY <1>2, <2>3 DEF IInv, TypeOK
  <2> QED
    BY <2>2, <2>4 DEF IInv
<1> QED
  BY <1>3, <1>4, <1>5

-----------------------------------------------------------------------------
(* Steps of requests in flight *)

\* A request that goes on to a later place with the same locals.
LEMMA ProceedKeeps ==
    ASSUME IInv, NEW q \in Request, NEW place \in Place, Proceed(q, place), UNCHANGED drawn,
           \/ req[q].at = "siblings" /\ place = "insertActive"
           \/ req[q].at = "siblingsOf" /\ place = "setActive"
           \/ req[q].at = "check" /\ place = "write"
           \/ req[q].at = "clear" /\ place = "link"
    PROVE  /\ \A g \in Request : Scoped(g)'
           /\ req' \in [Request -> Local]
           /\ actor' \in User \cup {None}
<1>1. /\ req' \in [Request -> Local] /\ actor' = req[q].user
      /\ \A g \in Request \ {q} : Kept(g)
      /\ req'[q] = [req[q] EXCEPT !.at = place]
  BY ProceedShape DEF IInv
<1>2. req[q].user \in User \cup {None}
  BY ReqType DEF IInv, Local
<1>3. /\ req'[q].at = place /\ req'[q].user = req[q].user /\ req'[q].coll = req[q].coll
      /\ req'[q].rcpt = req[q].rcpt /\ req'[q].todo = req[q].todo
  BY <1>1, ReqType DEF IInv, Local
<1>4. Scoped(q)'
  BY <1>3 DEF IInv, Scoped, CreatesOwn, TargetsOwn, LinksOwn, CapturesOwn, Own
<1> QED
  BY <1>1, <1>2, <1>4, OthersScoped

LEMMA SiblingsInv ==
    ASSUME IInv, NEW q \in Request, DeactivateSiblings(q)
    PROVE  IInv'
<1> DEFINE place == IF req[q].at = "siblings" THEN "insertActive" ELSE "setActive"
<1>1. /\ req[q].at \in {"siblings", "siblingsOf"} /\ Proceed(q, place)
      /\ active' = active \ Own(req[q].user)
      /\ UNCHANGED <<drawn, live, receipts, name, links>>
  BY DEF DeactivateSiblings
<1>2. /\ place \in Place
      /\ \/ req[q].at = "siblings" /\ place = "insertActive"
         \/ req[q].at = "siblingsOf" /\ place = "setActive"
  BY <1>1 DEF Place
<1> HIDE DEF place
<1>3. /\ \A g \in Request : Scoped(g)'
      /\ req' \in [Request -> Local] /\ actor' \in User \cup {None}
  BY <1>1, <1>2, ProceedKeeps
<1> QED
  BY <1>1, <1>3 DEF IInv, TypeOK

LEMMA InsertInv ==
    ASSUME IInv, NEW q \in Request, Insert(q)
    PROVE  IInv'
<1> DEFINE c == req[q].coll
           refused == req[q].at = "insertActive" /\ Clashes(c)
<1>1. /\ \A g \in Request : Scoped(g)'
      /\ req' \in [Request -> Local] /\ actor' \in User \cup {None}
  BY EndKeeps DEF Insert
<1>2. c \in drawn /\ c \in Collection
  BY DEF Insert, IInv, Scoped, CreatesOwn, Own
<1>3. /\ live' = IF refused THEN live ELSE live \cup {c}
      /\ name' = IF refused THEN name ELSE [name EXCEPT ![c] = req[q].title]
      /\ active' = IF req[q].at = "insertActive" /\ ~refused THEN active \cup {c} ELSE active
      /\ UNCHANGED <<drawn, receipts, links>>
  BY DEF Insert
<1>4. name' \in [Collection -> Name \cup {None}]
  <2>1. req[q].title \in Name \cup {None}
    BY ReqType DEF IInv, Local
  <2> QED
    BY <1>3, <2>1 DEF IInv, TypeOK
<1>5. \A d, e \in active' : Owner[d] = Owner[e] => d = e
  BY <1>3 DEF Clashes, IInv, TypeOK
<1>6. /\ live' \subseteq Collection \cap drawn' /\ active' \subseteq live'
      /\ links' \subseteq receipts' \X live'
  BY <1>2, <1>3 DEF IInv, TypeOK
<1> QED
  BY <1>1, <1>3, <1>4, <1>5, <1>6 DEF IInv, TypeOK

LEMMA SetActiveInv ==
    ASSUME IInv, NEW q \in Request, SetActive(q)
    PROVE  IInv'
<1>1. /\ \A g \in Request : Scoped(g)'
      /\ req' \in [Request -> Local] /\ actor' \in User \cup {None}
  BY EndKeeps DEF SetActive
<1>2. active' \subseteq live /\ \A d, e \in active' : Owner[d] = Owner[e] => d = e
  BY DEF SetActive, Clashes, IInv, TypeOK
<1> QED
  BY <1>1, <1>2 DEF SetActive, IInv, TypeOK

LEMMA NameInv ==
    ASSUME IInv, NEW q \in Request, CheckName(q) \/ WriteUpdate(q)
    PROVE  IInv'
<1>1. /\ \A g \in Request : Scoped(g)'
      /\ req' \in [Request -> Local] /\ actor' \in User \cup {None}
  <2>1. CASE End(q)
    BY <2>1, EndKeeps DEF CheckName, WriteUpdate
  <2>2. CASE CheckName(q) /\ Proceed(q, "write")
    <3>1. "write" \in Place /\ req[q].at = "check" /\ UNCHANGED drawn
      BY <2>2 DEF Place, CheckName
    <3> QED
      BY <2>2, <3>1, ProceedKeeps
  <2> QED
    BY <2>1, <2>2 DEF CheckName, WriteUpdate
<1>2. CASE CheckName(q)
  BY <1>1, <1>2 DEF CheckName, IInv, TypeOK
<1>3. CASE WriteUpdate(q)
  <2>1. req[q].title \in Name \cup {None}
    BY ReqType DEF IInv, Local
  <2>2. name' \in [Collection -> Name \cup {None}]
    BY <1>3, <2>1 DEF WriteUpdate, IInv, TypeOK
  <2> QED
    BY <1>1, <1>3, <2>2 DEF WriteUpdate, IInv, TypeOK
<1> QED
  BY <1>2, <1>3

\* The links that the step of a request in flight adds.
LEMMA NewLink ==
    ASSUME IInv, NEW q \in Request, Assign(q) \/ Capture(q)
    PROVE  /\ req[q].rcpt \in Receipt /\ req[q].coll \in Collection
           /\ links' = Linked(req[q].rcpt, req[q].coll)
BY DEF Assign, Capture, IInv, Scoped, TargetsOwn, LinksOwn, CapturesOwn, Own

LEMMA LinkInv ==
    ASSUME IInv, NEW q \in Request, Assign(q) \/ Capture(q)
    PROVE  IInv'
<1>1. /\ \A g \in Request : Scoped(g)'
      /\ req' \in [Request -> Local] /\ actor' \in User \cup {None}
  BY EndKeeps DEF Assign, Capture
<1>2. links' \subseteq receipts \X live
  BY NewLink, LinkedType DEF IInv
<1> QED
  BY <1>1, <1>2 DEF Assign, Capture, IInv, TypeOK

LEMMA ClearInv ==
    ASSUME IInv, NEW q \in Request, ClearLinks(q)
    PROVE  IInv'
<1>1. /\ \A g \in Request : Scoped(g)'
      /\ req' \in [Request -> Local] /\ actor' \in User \cup {None}
  <2>1. "link" \in Place
    BY DEF Place
  <2>2. CASE End(q)
    BY <2>2, EndKeeps DEF ClearLinks
  <2>3. CASE Proceed(q, "link")
    BY <2>1, <2>3, ProceedKeeps DEF ClearLinks
  <2> QED
    BY <2>2, <2>3 DEF ClearLinks
<1> QED
  BY <1>1 DEF ClearLinks, IInv, TypeOK

LEMMA LinkNextInv ==
    ASSUME IInv, NEW q \in Request, LinkNext(q)
    PROVE  IInv'
<1>1. PICK c \in req[q].todo :
         /\ links' = Linked(req[q].rcpt, c)
         /\ \/ End(q)
            \/ actor' = req[q].user /\ req' = [req EXCEPT ![q].todo = @ \ {c}]
  BY DEF LinkNext
<1>2. /\ req[q] \in Local /\ c \in Collection /\ req[q].rcpt \in Receipt
      /\ req[q].at = "link" /\ UNCHANGED <<drawn, live, receipts, active, name>>
  BY ReqType DEF IInv, Local, LinkNext, Scoped, LinksOwn
<1>3. /\ \A g \in Request : Scoped(g)'
      /\ req' \in [Request -> Local] /\ actor' \in User \cup {None}
  <2>1. CASE End(q)
    BY <1>2, <2>1, EndKeeps
  <2>2. CASE actor' = req[q].user /\ req' = [req EXCEPT ![q].todo = @ \ {c}]
    <3> DEFINE mine == [req[q] EXCEPT !.todo = @ \ {c}]
    <3>1. /\ mine \in Local /\ mine.at = "link" /\ mine.user = req[q].user
          /\ mine.rcpt = req[q].rcpt /\ mine.todo = req[q].todo \ {c}
      BY <1>2 DEF Local
    <3>2. req' = [req EXCEPT ![q] = mine]
      BY <2>2
    <3> HIDE DEF mine
    <3>3. req' \in [Request -> Local] /\ req'[q] = mine /\ \A g \in Request \ {q} : Kept(g)
      BY <3>1, <3>2 DEF IInv, TypeOK, Kept
    <3>4. Scoped(q)'
      BY <1>2, <3>1, <3>3 DEF IInv, Scoped, CreatesOwn, TargetsOwn, LinksOwn, CapturesOwn
    <3>5. actor' \in User \cup {None}
      BY <1>2, <2>2 DEF Local
    <3> QED
      BY <1>2, <3>3, <3>4, <3>5, OthersScoped
  <2> QED
    BY <1>1, <2>1, <2>2
<1>4. links' \subseteq receipts \X live
  BY <1>1, <1>2, LinkedType DEF IInv
<1> QED
  BY <1>2, <1>3, <1>4 DEF IInv, TypeOK

LEMMA ReadActiveInv ==
    ASSUME IInv, NEW q \in Request, ReadActive(q)
    PROVE  IInv'
<1>1. UNCHANGED tables
  BY DEF ReadActive, tables
<1>2. /\ \A g \in Request : Scoped(g)'
      /\ req' \in [Request -> Local] /\ actor' \in User \cup {None}
  <2>1. CASE End(q)
    BY <1>1, <2>1, EndKeeps DEF tables
  <2>2. CASE ~End(q)
    <3>1. PICK c \in active \cap Own(req[q].user) :
             /\ actor' = req[q].user
             /\ req' = [req EXCEPT ![q].at = "capture", ![q].coll = c]
      BY <2>2 DEF ReadActive
    <3> DEFINE mine == [req[q] EXCEPT !.at = "capture", !.coll = c]
    <3>2. req[q] \in Local /\ c \in Collection
      BY <3>1, ReqType DEF IInv, TypeOK
    <3>3. /\ mine \in Local /\ mine.at = "capture" /\ mine.user = req[q].user
          /\ mine.rcpt = req[q].rcpt /\ mine.coll = c
      BY <3>2 DEF Local, Place
    <3>4. req' = [req EXCEPT ![q] = mine]
      BY <3>1
    <3> HIDE DEF mine
    <3>5. req' \in [Request -> Local] /\ req'[q] = mine /\ \A g \in Request \ {q} : Kept(g)
      BY <3>3, <3>4 DEF IInv, TypeOK, Kept
    <3>6. req[q].at = "readActive" /\ CapturesOwn(q)
      BY DEF ReadActive, IInv, Scoped
    <3>7. Scoped(q)'
      BY <3>1, <3>3, <3>5, <3>6 DEF Scoped, CreatesOwn, TargetsOwn, LinksOwn, CapturesOwn, Own
    <3>8. actor' \in User \cup {None}
      BY <3>1, <3>2 DEF Local
    <3> QED
      BY <1>1, <3>5, <3>7, <3>8, OthersScoped DEF tables
  <2> QED
    BY <2>1, <2>2
<1> QED
  BY <1>1, <1>2, TablesType DEF IInv

LEMMA DiesInv ==
    ASSUME IInv, NEW q \in Request, Dies(q)
    PROVE  IInv'
<1>1. /\ req' = [req EXCEPT ![q] = Idle] /\ actor' = None /\ UNCHANGED tables
  BY DEF Dies, tables
<1>2. req' \in [Request -> Local] /\ req'[q] = Idle /\ \A g \in Request \ {q} : Kept(g)
  BY <1>1, IdleType DEF IInv, TypeOK, Kept
<1> QED
  BY <1>1, <1>2, IdleScoped, OthersScoped, TablesType DEF IInv, tables

LEMMA StutterInv ==
    ASSUME IInv, UNCHANGED vars
    PROVE  IInv'
<1>1. \A g \in Request : Kept(g)
  BY DEF vars, Kept
<1>2. \A g \in Request : Scoped(g)'
  BY <1>1, AllScoped DEF vars
<1> QED
  BY <1>2 DEF vars, IInv, TypeOK

LEMMA StepInv == IInv /\ [Next]_vars => IInv'
<1> SUFFICES ASSUME IInv, [Next]_vars PROVE IInv'
  OBVIOUS
<1>1. ASSUME NEW q \in Request, Start(q) PROVE IInv'
  BY <1>1, CreateInv, ActivateInv, UpdateInv, AssignStartInv, SetStartInv, OnceInv, PersistInv
     DEF Start
<1>2. ASSUME NEW q \in Request, Continue(q) PROVE IInv'
  BY <1>2, SiblingsInv, InsertInv, SetActiveInv, NameInv, LinkInv, ClearInv, LinkNextInv,
     ReadActiveInv DEF Continue
<1> QED
  BY <1>1, <1>2, DiesInv, StutterInv DEF Next

LEMMA Inductive == Spec => []IInv
BY InitInv, StepInv, PTL DEF Spec

-----------------------------------------------------------------------------
(* Requests that run alone *)

SwitchOf(q) ==
    /\ req[q].at = "siblings" => active = req[q].before
    /\ req[q].at = "insertActive" => active = req[q].before \ Own(req[q].user)
    /\ req[q].at = "siblingsOf" =>
          req[q].user \notin Admin /\ req[q].coll \in live /\ active = req[q].before
    /\ req[q].at = "setActive" =>
          \/ req[q].user \in Admin /\ active = req[q].before
          \/ /\ req[q].user \notin Admin
             /\ req[q].coll \in live
             /\ active = req[q].before \ Own(req[q].user)

Solo(q) ==
    req[q].alone =>
        /\ InFlight(q)
        /\ \A g \in Request \ {q} : ~InFlight(g)
        /\ SwitchOf(q)

SoloInv == \A q \in Request : Solo(q)

LEMMA StartFrame ==
    ASSUME IInv, NEW q \in Request, Start(q)
    PROVE  /\ ~InFlight(q)
           /\ \A g \in Request \ {q} :
                 req'[g] = IF InFlight(g) THEN Aside(req[g]) ELSE req[g]
<1>1. \/ \E u, l : Begin(q, u, l)
      \/ \E u : Once(q, u)
  BY DEF Start, CreateStart, ActivateStart, Deactivate, Delete, UpdateStart, AssignStart, Unassign,
         SetStart, DeleteReceipt, Persist
<1>2. \A g \in Request : Disturbed[g] = IF InFlight(g) THEN Aside(req[g]) ELSE req[g]
  BY DEF Disturbed, Aside
<1>3. ASSUME NEW u, NEW l, Begin(q, u, l)
      PROVE  ~InFlight(q) /\ \A g \in Request \ {q} : req'[g] = Disturbed[g]
  BY <1>3 DEF Begin, Disturbed
<1>4. ASSUME NEW u, Once(q, u)
      PROVE  ~InFlight(q) /\ \A g \in Request \ {q} : req'[g] = Disturbed[g]
  BY <1>4 DEF Once
<1> QED
  BY <1>1, <1>2, <1>3, <1>4

LEMMA ContinueFrame ==
    ASSUME IInv, NEW q \in Request, Continue(q) \/ Dies(q)
    PROVE  /\ InFlight(q)
           /\ \A g \in Request \ {q} : req'[g] = req[g]
<1>1. InFlight(q)
  BY DEF InFlight, Continue, Dies, DeactivateSiblings, Insert, SetActive, CheckName, WriteUpdate,
         Assign, ClearLinks, LinkNext, ReadActive, Capture
<1>2. \E r : req' = [req EXCEPT ![q] = r]
  BY DEF Continue, Dies, DeactivateSiblings, Insert, SetActive, CheckName, WriteUpdate, Assign,
         ClearLinks, LinkNext, ReadActive, Capture, End, Proceed
<1> QED
  BY <1>1, <1>2 DEF IInv, TypeOK

\* After a step of a request no other one has been alone.
LEMMA OthersNotAlone ==
    ASSUME IInv, SoloInv, NEW q \in Request, Start(q) \/ Continue(q) \/ Dies(q),
           NEW g \in Request \ {q}
    PROVE  ~req'[g].alone /\ (InFlight(g)' <=> InFlight(g))
<1>1. CASE Start(q)
  <2>1. req'[g] = IF InFlight(g) THEN Aside(req[g]) ELSE req[g]
    BY <1>1, StartFrame
  <2>2. ~Aside(req[g]).alone /\ Aside(req[g]).at = req[g].at
    BY ReqType DEF IInv, Aside, Local
  <2> QED
    BY <2>1, <2>2 DEF SoloInv, Solo, InFlight
<1>2. CASE Continue(q) \/ Dies(q)
  BY <1>2, ContinueFrame DEF SoloInv, Solo, InFlight
<1> QED
  BY <1>1, <1>2

LEMMA BeginSolo ==
    ASSUME IInv, SoloInv, NEW q \in Request, NEW u \in User, NEW l \in Local, Start(q),
           Begin(q, u, l), UNCHANGED <<active, live>>,
           l.at \notin {"idle", "insertActive"},
           l.at = "siblings" => active = l.before,
           l.at = "siblingsOf" => u \notin Admin /\ l.coll \in live /\ active = l.before,
           l.at = "setActive" => u \in Admin /\ active = l.before
    PROVE  Solo(q)'
<1>1. req'[q] = [l EXCEPT !.user = u, !.alone = NobodyElse]
  BY BeginShape DEF IInv
<1>2. /\ req'[q].at = l.at /\ req'[q].user = u /\ req'[q].coll = l.coll
      /\ req'[q].before = l.before /\ req'[q].alone = NobodyElse
  BY <1>1 DEF Local
<1>3. NobodyElse => \A g \in Request \ {q} : ~InFlight(g)'
  BY OthersNotAlone DEF NobodyElse
<1>4. SwitchOf(q)'
  BY <1>2 DEF SwitchOf
<1> QED
  BY <1>2, <1>3, <1>4 DEF Solo, InFlight

LEMMA IdleSolo == ASSUME NEW q \in Request, req'[q] = Idle PROVE Solo(q)'
BY DEF Idle, Solo

LEMMA OnceSolo ==
    ASSUME IInv, SoloInv, NEW q \in Request, NEW u, Once(q, u)
    PROVE  Solo(q)'
<1>1. req'[q] = req[q] /\ ~InFlight(q)
  BY DEF Once, Disturbed
<1> QED
  BY <1>1 DEF SoloInv, Solo

LEMMA StartSolo ==
    ASSUME IInv, SoloInv, NEW q \in Request, Start(q)
    PROVE  Solo(q)'
<1>1. ASSUME NEW u \in User, NEW c \in Collection, NEW n \in Name, NEW activate \in BOOLEAN,
             CreateStart(q, u, n, c, activate)
      PROVE  Solo(q)'
  <2> DEFINE l == [Idle EXCEPT !.at = IF activate THEN "siblings" ELSE "insert",
                               !.coll = c, !.title = n, !.before = active]
  <2>1. /\ l \in Local /\ l.at \in {"siblings", "insert"} /\ l.before = active
    BY DEF Idle, Local, Place, IInv, TypeOK
  <2>2. Once(q, u) \/ (Begin(q, u, l) /\ UNCHANGED <<active, live>>)
    BY <1>1 DEF CreateStart
  <2> HIDE DEF l
  <2> QED
    BY <2>1, <2>2, BeginSolo, OnceSolo
<1>2. ASSUME NEW u \in User, NEW c \in Collection, ActivateStart(q, u, c) PROVE Solo(q)'
  <2> DEFINE l(place) == [Idle EXCEPT !.at = place, !.coll = c, !.before = active]
  <2>1. ASSUME NEW place \in {"setActive", "siblingsOf"}
        PROVE  /\ l(place) \in Local /\ l(place).at = place /\ l(place).coll = c
               /\ l(place).before = active
    BY DEF Idle, Local, Place, IInv, TypeOK
  <2>2. /\ \/ u \in Admin /\ Begin(q, u, l("setActive"))
           \/ u \notin Admin /\ c \in live /\ Begin(q, u, l("siblingsOf"))
           \/ Once(q, u)
        /\ UNCHANGED <<active, live>>
    BY <1>2 DEF ActivateStart
  <2> HIDE DEF l
  <2> QED
    BY <2>1, <2>2, BeginSolo, OnceSolo
<1>3. ASSUME NEW u \in User, NEW c \in Collection, NEW n \in Name \cup {None},
             UpdateStart(q, u, c, n)
      PROVE  Solo(q)'
  <2> DEFINE l == [Idle EXCEPT !.at = IF n = None THEN "write" ELSE "check",
                               !.coll = c, !.title = IF n = None THEN name[c] ELSE n]
  <2>1. l \in Local /\ l.at \in {"write", "check"}
    BY DEF Idle, Local, Place, IInv, TypeOK
  <2>2. Once(q, u) \/ (Begin(q, u, l) /\ UNCHANGED <<active, live>>)
    BY <1>3 DEF UpdateStart
  <2> HIDE DEF l
  <2> QED
    BY <2>1, <2>2, BeginSolo, OnceSolo
<1>4. ASSUME NEW u \in User, NEW c \in Collection, NEW r \in Receipt, AssignStart(q, u, c, r)
      PROVE  Solo(q)'
  <2> DEFINE l == [Idle EXCEPT !.at = "assign", !.coll = c, !.rcpt = r]
  <2>1. l \in Local /\ l.at = "assign"
    BY DEF Idle, Local, Place
  <2>2. Once(q, u) \/ (Begin(q, u, l) /\ UNCHANGED <<active, live>>)
    BY <1>4 DEF AssignStart
  <2> HIDE DEF l
  <2> QED
    BY <2>1, <2>2, BeginSolo, OnceSolo
<1>5. ASSUME NEW u \in User, NEW r \in Receipt, NEW cs \in SUBSET Collection,
             SetStart(q, u, r, cs)
      PROVE  Solo(q)'
  <2> DEFINE l == [Idle EXCEPT !.at = "clear", !.rcpt = r, !.chosen = cs, !.todo = cs]
  <2>1. l \in Local /\ l.at = "clear"
    BY DEF Idle, Local, Place
  <2>2. Once(q, u) \/ (Begin(q, u, l) /\ UNCHANGED <<active, live>>)
    BY <1>5 DEF SetStart
  <2> HIDE DEF l
  <2> QED
    BY <2>1, <2>2, BeginSolo, OnceSolo
<1>6. ASSUME NEW r \in Receipt, Persist(q, r) PROVE Solo(q)'
  <2> DEFINE l == [Idle EXCEPT !.at = "readActive", !.rcpt = r]
  <2>1. l \in Local /\ l.at = "readActive"
    BY DEF Idle, Local, Place
  <2>2. \/ Once(q, None)
        \/ /\ Owner[r] \in User
           /\ Begin(q, Owner[r], l) /\ UNCHANGED <<active, live>>
    BY <1>6, OwnerAssumption DEF Persist
  <2> HIDE DEF l
  <2> QED
    BY <2>1, <2>2, BeginSolo, OnceSolo
<1>7. CASE \E u \in User : Once(q, u)
  BY <1>7, OnceSolo
<1> QED
  BY <1>1, <1>2, <1>3, <1>4, <1>5, <1>6, <1>7
     DEF Start, Deactivate, Delete, Unassign, DeleteReceipt

LEMMA ContinueSolo ==
    ASSUME IInv, SoloInv, NEW q \in Request, Continue(q) \/ Dies(q)
    PROVE  Solo(q)'
<1> USE DEF IInv, TypeOK
<1>1. CASE req' = [req EXCEPT ![q] = Idle]
  BY <1>1, IdleSolo
<1>2. ASSUME req'[q].at = "idle" \/ req'[q].at \in {"write", "link", "capture"},
             req'[q].alone = req[q].alone, req'[q].at # "idle"
      PROVE  Solo(q)'
  BY <1>2, OthersNotAlone, ContinueFrame DEF Solo, SoloInv, SwitchOf, InFlight
<1>3. CASE DeactivateSiblings(q)
  <2> DEFINE place == IF req[q].at = "siblings" THEN "insertActive" ELSE "setActive"
  <2>1. req[q] \in Local /\ place \in Place
    BY DEF Place
  <2>2. req'[q] = [req[q] EXCEPT !.at = place]
    BY <1>3 DEF DeactivateSiblings, Proceed
  <2>3. /\ req'[q].at = place /\ req'[q].user = req[q].user /\ req'[q].coll = req[q].coll
        /\ req'[q].before = req[q].before /\ req'[q].alone = req[q].alone
    BY <2>1, <2>2 DEF Local
  <2>4. /\ req[q].at \in {"siblings", "siblingsOf"} /\ live' = live
        /\ active' = active \ Own(req[q].user)
    BY <1>3 DEF DeactivateSiblings
  <2>5. req[q].alone => SwitchOf(q)'
    BY <2>3, <2>4 DEF SoloInv, Solo, SwitchOf, Own
  <2>6. req[q].alone => \A g \in Request \ {q} : ~InFlight(g)'
    BY OthersNotAlone DEF SoloInv, Solo
  <2> QED
    BY <2>3, <2>4, <2>5, <2>6 DEF Solo, InFlight
<1>4. CASE Proceed(q, "write") \/ Proceed(q, "link")
  <2>1. req[q] \in Local
    OBVIOUS
  <2>2. req'[q].at \in {"write", "link"} /\ req'[q].alone = req[q].alone
    BY <1>4, <2>1 DEF Proceed, Local
  <2> QED
    BY <1>2, <2>2
<1>5. CASE LinkNext(q) /\ ~End(q)
  <2>1. req[q] \in Local /\ req[q].at = "link"
    BY <1>5 DEF LinkNext
  <2>2. \E c : req' = [req EXCEPT ![q].todo = @ \ {c}]
    BY <1>5 DEF LinkNext
  <2>3. req'[q].at = "link" /\ req'[q].alone = req[q].alone
    BY <2>1, <2>2 DEF Local
  <2> QED
    BY <1>2, <2>3
<1>6. CASE ReadActive(q) /\ ~End(q)
  <2>1. req[q] \in Local
    OBVIOUS
  <2>2. \E c : req' = [req EXCEPT ![q].at = "capture", ![q].coll = c]
    BY <1>6 DEF ReadActive
  <2>3. req'[q].at = "capture" /\ req'[q].alone = req[q].alone
    BY <2>1, <2>2 DEF Local
  <2> QED
    BY <1>2, <2>3
<1> QED
  BY <1>1, <1>3, <1>4, <1>5, <1>6
     DEF Continue, Dies, Insert, SetActive, CheckName, WriteUpdate, Assign, ClearLinks, Capture,
         End

LEMMA SoloStep == IInv /\ SoloInv /\ [Next]_vars => SoloInv'
<1> SUFFICES ASSUME IInv, SoloInv, [Next]_vars PROVE SoloInv'
  OBVIOUS
<1>1. ASSUME NEW q \in Request, Start(q) \/ Continue(q) \/ Dies(q) PROVE SoloInv'
  <2>1. Solo(q)'
    BY <1>1, StartSolo, ContinueSolo
  <2>2. \A g \in Request \ {q} : Solo(g)'
    BY <1>1, OthersNotAlone DEF Solo
  <2> QED
    BY <2>1, <2>2 DEF SoloInv
<1>2. CASE UNCHANGED vars
  BY <1>2 DEF vars, SoloInv, Solo, SwitchOf, InFlight, Own
<1> QED
  BY <1>1, <1>2 DEF Next

LEMMA InitSolo == Init => SoloInv
BY DEF Init, SoloInv, Solo, Idle

LEMMA InductiveSolo == Spec => [](IInv /\ SoloInv)
BY InitInv, InitSolo, StepInv, SoloStep, PTL DEF Spec

-----------------------------------------------------------------------------
(* What single steps do *)

\* A request that ends alone was ended by a step of its own, not by its death.
LEMMA EndsByItself ==
    ASSUME IInv, SoloInv, [Next]_vars, NEW q \in Request,
           NEW places \in SUBSET (Place \ {"idle"}), EndsAlone(q, places)
    PROVE  Continue(q)
<1>1. InFlight(q) /\ ~InFlight(q)' /\ actor' # None
  BY DEF EndsAlone, InFlight
<1>2. ~UNCHANGED vars
  BY <1>1 DEF vars, InFlight
<1>3. PICK g \in Request : Start(g) \/ Continue(g) \/ Dies(g)
  BY <1>2 DEF Next
<1>4. g = q
  BY <1>1, <1>3, OthersNotAlone
<1>5. ~Dies(q)
  BY <1>1 DEF Dies
<1>6. ~Start(q)
  BY <1>1, StartFrame
<1> QED
  BY <1>3, <1>4, <1>5, <1>6

LEMMA SwitchEnds ==
    ASSUME IInv, SoloInv, [Next]_vars, NEW q \in Request,
           EndsAlone(q, {"insertActive", "setActive"})
    PROVE  /\ Switched(q) \/ active' = req[q].before
           /\ req[q].at = "setActive" /\ req[q].user \notin Admin => Switched(q)
<1>1. Continue(q)
  <2>1. {"insertActive", "setActive"} \in SUBSET (Place \ {"idle"})
    BY DEF Place
  <2> QED
    BY <2>1, EndsByItself
<1>2. SwitchOf(q) /\ req[q].at \in {"insertActive", "setActive"}
  BY DEF EndsAlone, SoloInv, Solo
<1>3. CASE req[q].at = "insertActive"
  <2>1. Insert(q)
    BY <1>1, <1>3 DEF Continue, DeactivateSiblings, SetActive, CheckName, WriteUpdate, Assign,
                      ClearLinks, LinkNext, ReadActive, Capture
  <2>2. active = req[q].before \ Own(req[q].user) /\ Owner[req[q].coll] = req[q].user
    BY <1>2, <1>3 DEF SwitchOf, IInv, Scoped, CreatesOwn, Own
  <2>3. ~Clashes(req[q].coll)
    BY <2>2 DEF Clashes, Own, IInv, TypeOK
  <2> QED
    BY <1>3, <2>1, <2>2, <2>3 DEF Insert, Switched
<1>4. CASE req[q].at = "setActive"
  <2>1. SetActive(q)
    BY <1>1, <1>4 DEF Continue, DeactivateSiblings, Insert, CheckName, WriteUpdate, Assign,
                      ClearLinks, LinkNext, ReadActive, Capture
  <2>2. CASE req[q].user \notin Admin
    <3>1. /\ active = req[q].before \ Own(req[q].user) /\ req[q].coll \in live
          /\ Owner[req[q].coll] = req[q].user
      BY <1>2, <1>4, <2>2 DEF SwitchOf, IInv, Scoped, TargetsOwn
    <3>2. ~Clashes(req[q].coll)
      BY <3>1 DEF Clashes, Own, IInv, TypeOK
    <3> QED
      BY <2>1, <3>1, <3>2 DEF SetActive, Sees, Switched
  <2>3. CASE req[q].user \in Admin
    <3>1. active = req[q].before
      BY <1>2, <1>4, <2>3 DEF SwitchOf
    <3>2. CASE active' = active
      BY <2>3, <3>1, <3>2
    <3>3. CASE active' # active
      <4>1. active' = active \cup {req[q].coll} /\ ~Clashes(req[q].coll)
        BY <2>1, <3>3 DEF SetActive
      <4>2. active \cap Own(Owner[req[q].coll]) \subseteq {req[q].coll}
        BY <4>1 DEF Clashes, Own, IInv, TypeOK
      <4> QED
        BY <2>3, <3>1, <4>1, <4>2 DEF Switched
    <3> QED
      BY <3>2, <3>3
  <2> QED
    BY <2>2, <2>3
<1> QED
  BY <1>2, <1>3, <1>4

\* Only the end of an assignment, of a capture, or one of a list adds a link.
LEMMA LinkSource ==
    ASSUME IInv, NEW q \in Request, Start(q) \/ Continue(q) \/ Dies(q),
           NEW x \in links' \ links
    PROVE  Owner[x[1]] = Owner[x[2]] \/ actor' \in Admin
<1>1. Assign(q) \/ Capture(q) \/ LinkNext(q)
  BY DEF Start, Continue, Dies, CreateStart, ActivateStart, Deactivate, Delete, UpdateStart,
         AssignStart, Unassign, SetStart, DeleteReceipt, Persist, DeactivateSiblings, Insert,
         SetActive, CheckName, WriteUpdate, ClearLinks, ReadActive
<1>2. actor' = req[q].user
  BY <1>1 DEF Assign, Capture, LinkNext, End
<1>3. CASE Assign(q) \/ Capture(q)
  <2>1. x = <<req[q].rcpt, req[q].coll>>
    BY <1>3, NewLink DEF Linked
  <2>2. req[q].user \notin Admin => Owner[req[q].rcpt] = Owner[req[q].coll]
    BY <1>3 DEF Assign, Capture, IInv, Scoped, TargetsOwn, LinksOwn, CapturesOwn, Own
  <2> QED
    BY <1>2, <2>1, <2>2
<1>4. CASE LinkNext(q)
  <2>1. PICK c \in req[q].todo : links' = Linked(req[q].rcpt, c)
    BY <1>4 DEF LinkNext
  <2>2. x = <<req[q].rcpt, c>>
    BY <2>1 DEF Linked
  <2>3. req[q].user \notin Admin => Owner[req[q].rcpt] = Owner[c]
    BY <1>4, <2>1 DEF LinkNext, IInv, Scoped, LinksOwn
  <2> QED
    BY <1>2, <2>2, <2>3
<1> QED
  BY <1>1, <1>3, <1>4

Untouched(u) ==
    /\ Rows(u)' = Rows(u)
    /\ (active \cap Own(u))' = active \cap Own(u)
    /\ \A c \in Own(u) : name'[c] = name[c]

\* A step that changes one collection changes nothing of those it is not one of.
LEMMA OneRow ==
    ASSUME IInv, NEW u \in User, NEW c \in Collection, Owner[c] # u,
           live' \in {live, live \cup {c}, live \ {c}},
           active' \in {active, active \cup {c}, active \ {c}},
           name' = name \/ \E n : name' = [name EXCEPT ![c] = n]
    PROVE  Untouched(u)
<1>1. \A d \in Own(u) : d # c /\ d \in Collection
  BY DEF Own
<1>2. \A d \in Own(u) : name'[d] = name[d]
  BY <1>1 DEF IInv, TypeOK
<1> QED
  BY <1>1, <1>2 DEF Untouched, Rows, Own

LEMMA OthersKept ==
    ASSUME IInv, NEW q \in Request, Start(q) \/ Continue(q) \/ Dies(q),
           NEW u \in User, actor' # u, actor' \notin Admin
    PROVE  Untouched(u)
<1>1. CASE UNCHANGED <<live, active, name>>
  BY <1>1 DEF Untouched, Rows, Own
<1>2. ASSUME NEW v \in User, NEW c \in Collection, Deactivate(q, v, c) \/ Delete(q, v, c)
      PROVE  Untouched(u)
  <2>1. actor' = v
    BY <1>2 DEF Deactivate, Delete, Once
  <2>2. CASE Owner[c] = v
    BY <1>2, <2>1, <2>2, OneRow DEF Deactivate, Delete
  <2>3. CASE Owner[c] # v
    BY <1>1, <1>2, <2>1, <2>3 DEF Deactivate, Delete, Sees
  <2> QED
    BY <2>2, <2>3
<1>3. CASE DeactivateSiblings(q)
  <2>1. actor' = req[q].user /\ active' = active \ Own(req[q].user) /\ UNCHANGED <<live, name>>
    BY <1>3 DEF DeactivateSiblings, Proceed
  <2> QED
    BY <2>1 DEF Untouched, Rows, Own
<1>4. CASE Insert(q) \/ SetActive(q) \/ WriteUpdate(q)
  <2>1. actor' = req[q].user
    BY <1>4 DEF Insert, SetActive, WriteUpdate, End
  <2>2. req[q].coll \in Collection /\ Owner[req[q].coll] = req[q].user
    BY <1>4, <2>1 DEF Insert, SetActive, WriteUpdate, IInv, Scoped, CreatesOwn, TargetsOwn, Own
  <2>3. /\ live' \in {live, live \cup {req[q].coll}}
        /\ active' \in {active, active \cup {req[q].coll}}
        /\ name' = name \/ name' = [name EXCEPT ![req[q].coll] = req[q].title]
    BY <1>4 DEF Insert, SetActive, WriteUpdate
  <2> QED
    BY <2>1, <2>2, <2>3, OneRow
<1>5. \/ UNCHANGED <<live, active, name>>
      \/ \E v \in User, c \in Collection : Deactivate(q, v, c) \/ Delete(q, v, c)
      \/ DeactivateSiblings(q) \/ Insert(q) \/ SetActive(q) \/ WriteUpdate(q)
  BY DEF Start, Continue, Dies, CreateStart, ActivateStart, UpdateStart, AssignStart, Unassign,
         SetStart, DeleteReceipt, Persist, CheckName, Assign, ClearLinks, LinkNext, ReadActive,
         Capture
<1> QED
  BY <1>1, <1>2, <1>3, <1>4, <1>5

-----------------------------------------------------------------------------
(* Theorems *)

\* Rows, links and requests keep their types, the links their rows, and no
\* user has two active collections (ux_collections_one_active_per_user).
THEOREM TypeCorrect == Spec => []TypeOK
<1>1. IInv => TypeOK
  BY DEF IInv
<1> QED
  BY <1>1, Inductive, PTL

\* Making a collection active is all or nothing when it runs alone, for the
\* owner and for an administrator (CollectionDB.create and activate).
THEOREM SwitchesWhole == Spec => SwitchIsAllOrNothing
<1>1. ASSUME IInv, SoloInv, [Next]_vars
      PROVE  [\A q \in Request : EndsAlone(q, {"insertActive", "setActive"})
                                   => Switched(q) \/ active' = req[q].before]_vars
  BY <1>1, SwitchEnds
<1> QED
  BY <1>1, InductiveSolo, PTL DEF Spec, SwitchIsAllOrNothing

\* A user who activates a collection of theirs, alone, gets it.
THEOREM OwnersGetTheirs == Spec => OwnersSwitch
<1>1. ASSUME IInv, SoloInv, [Next]_vars
      PROVE  [\A q \in Request :
                 EndsAlone(q, {"setActive"}) /\ req[q].coll \in live /\ req[q].user \notin Admin
                    => Switched(q)]_vars
  <2>1. \A q \in Request : EndsAlone(q, {"setActive"}) =>
           EndsAlone(q, {"insertActive", "setActive"}) /\ req[q].at = "setActive"
    BY DEF EndsAlone
  <2> QED
    BY <1>1, <2>1, SwitchEnds
<1> QED
  BY <1>1, InductiveSolo, PTL DEF Spec, OwnersSwitch

\* No step of a user who is no administrator changes another user's
\* collections, whatever other requests overlap or die.
THEOREM OwnersAreSafe == Spec => OthersUntouched
<1>1. ASSUME IInv, [Next]_vars
      PROVE  [\A u \in User : actor' # u /\ actor' \notin Admin =>
                 /\ Rows(u)' = Rows(u)
                 /\ (active \cap Own(u))' = active \cap Own(u)
                 /\ \A c \in Own(u) : name'[c] = name[c]]_vars
  BY <1>1, OthersKept DEF Next, Untouched
<1> QED
  BY <1>1, Inductive, PTL DEF Spec, OthersUntouched

\* Links made for users stay within one owner (assign, set_receipt_collections
\* and the capture of a persisted receipt).
THEOREM LinksStayWithinOwner == Spec => LinksWithinOwner
<1>1. ASSUME IInv, [Next]_vars
      PROVE  [\A l \in links' \ links : Owner[l[1]] = Owner[l[2]] \/ actor' \in Admin]_vars
  BY <1>1, LinkSource DEF Next
<1> QED
  BY <1>1, Inductive, PTL DEF Spec, LinksWithinOwner
=============================================================================
