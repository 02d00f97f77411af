-------------------------- MODULE Extraction_proofs --------------------------
(***************************************************************************)
(* Theorems about Extraction, for any models, any number of photos, any    *)
(* readings of them and any limit of retries.                              *)
(***************************************************************************)
EXTENDS Extraction, Integers, FiniteSetTheorems, FunctionTheorems,
        NaturalsInduction, WellFoundedInduction, TLAPS

USE PhotosAssumption, RetryAssumption
    DEF PhotosAssumption, RetryAssumption

\* A set of numbers that is not empty has a least one.
LEMMA Least ==
    ASSUME NEW S \in SUBSET Nat, S # {}
    PROVE  \E x \in S : \A y \in S : x <= y
<1>1. \E x \in S : \A y \in S : ~ (<<y, x>> \in OpToRel(<, Nat))
  BY NatLessThanWellFounded, WFMin
<1>2. PICK x \in S : \A y \in S : ~ (<<y, x>> \in OpToRel(<, Nat))
  BY <1>1
<1>3. \A y \in S : ~ (y < x)
  BY <1>2 DEF OpToRel
<1> QED
  BY <1>3

LEMMA RowsAreNumbered ==
    ASSUME NEW x \in Shape
    PROVE  /\ DOMAIN x.rows \subseteq Nat
           /\ \A k \in DOMAIN x.pairs : x.pairs[k] \in Nat \X Nat
           /\ \A i \in DOMAIN x.rows : x.rows[i] \in Row
BY DEF Shape, Candidate

LEMMA InitInv == Init => IInv
<1> SUFFICES ASSUME Init PROVE IInv
  OBVIOUS
<1>1. TypeOK
  BY DEF Init, TypeOK, NoReading, Ended, Requests
<1>2. OutSound /\ OutWhole /\ ToldSound
  BY DEF Init, OutSound, OutWhole, ToldSound
<1> QED
  BY <1>1, <1>2 DEF IInv

-----------------------------------------------------------------------------
(* The invariant is kept *)

LEMMA AsksTypes ==
    ASSUME IInv, NEW m \in Model, Asks(m)
    PROVE  /\ answer' \in [Model -> NoReading \cup Shape]
           /\ at' \in [Model -> {"unasked", "asked", "answered", "overlaps"} \cup Ended]
           /\ attempt' \in [Model -> 0..RetryLimit]
<1> USE DEF IInv, TypeOK, Asks
<1>1. answer' \in [Model -> NoReading \cup Shape]
  BY DEF NoReading
<1>2. CASE attempt[m] < RetryLimit
  BY <1>1, <1>2
<1>3. CASE ~(attempt[m] < RetryLimit)
  BY <1>1, <1>3 DEF Ended
<1> QED
  BY <1>2, <1>3

\* After asking again a model has not seen its new answer yet.
LEMMA AsksSound ==
    ASSUME IInv, NEW m \in Model, Asks(m)
    PROVE  /\ at'[m] \in {"asked", "invalid"}
           /\ attempt[m] <= attempt'[m]
           /\ at'[m] = "asked" => attempt'[m] = attempt[m] + 1
BY DEF IInv, TypeOK, Asks

LEMMA TypeStep == ASSUME IInv, [Next]_vars PROVE TypeOK'
<1> USE DEF IInv
<1>1. ASSUME NEW m \in Model, Ask(m) \/ AskAgain(m) PROVE TypeOK'
  BY <1>1, AsksTypes DEF Ask, AskAgain, TypeOK
<1>2. ASSUME NEW m \in Model, Answer(m) PROVE TypeOK'
  <2>1. Reading[photos] \subseteq Shape
    BY ReadingAssumption DEF ReadingAssumption, TypeOK
  <2> QED
    BY <1>2, <2>1 DEF Answer, Moves, TypeOK
<1>3. ASSUME NEW m \in Model, Repair(m), at[m] \in {"answered", "overlaps"} PROVE TypeOK'
  <2>1. told[m] + 1 \in 0..RetryLimit
    BY <1>3 DEF ToldSound, TypeOK
  <2> QED
    BY <1>3, <2>1, AsksTypes DEF Repair, TypeOK
<1>4. ASSUME NEW m \in Model, GiveUp(m) \/ Deadline(m) \/ Fails(m) \/ AcceptSingle(m) \/ Accept(m)
      PROVE TypeOK'
  BY <1>4 DEF GiveUp, Deadline, Fails, AcceptSingle, Accept, Moves, TypeOK, Ended
<1>5. ASSUME NEW m \in Model, CheckRows(m) PROVE TypeOK'
  <2>1. answer[m] \in Shape
    BY <1>5 DEF CheckRows, TypeOK
  <2>2. CASE Repair(m)
    BY <1>3, <1>5, <2>2 DEF CheckRows
  <2>3. CASE ~Repair(m)
    <3> DEFINE x == answer[m]
               ps == {x.rows[x.pairs[k][1]].photo : k \in DOMAIN x.pairs}
    <3>1. Adjacent(x) /\ todo' = [todo EXCEPT ![m] = ps]
      BY <1>5, <2>3 DEF CheckRows
    <3>2. ps \in SUBSET Nat
      <4>1. ASSUME NEW k \in DOMAIN x.pairs PROVE x.rows[x.pairs[k][1]].photo \in Nat
        <5>1. x.pairs[k][1] \in DOMAIN x.rows
          BY <3>1 DEF Adjacent
        <5>2. x.rows[x.pairs[k][1]] \in Row
          BY <2>1, <5>1, RowsAreNumbered
        <5> QED
          BY <5>2 DEF Row
      <4> QED
        BY <4>1
    <3> HIDE DEF ps
    <3>3. todo' \in [Model -> SUBSET Nat]
      BY <3>1, <3>2 DEF TypeOK
    <3> QED
      BY <1>5, <2>3, <3>3 DEF CheckRows, Moves, TypeOK
  <2> QED
    BY <2>2, <2>3
<1>6. ASSUME NEW m \in Model, NEW p \in todo[m], CheckOverlap(m, p) PROVE TypeOK'
  <2>1. answer[m] \in Shape
    BY <1>6 DEF CheckOverlap, OutSound, TypeOK
  <2>2. CASE Repair(m)
    BY <1>3, <1>6, <2>2 DEF CheckOverlap
  <2>3. CASE ~Repair(m)
    <3>1. {c[2] : c \in PairsOf(answer[m], p)} \in SUBSET Nat
      <4>1. \A c \in PairsOf(answer[m], p) : c \in Nat \X Nat
        BY <2>1, RowsAreNumbered DEF PairsOf, Of
      <4>2. \A c \in Nat \X Nat : c[2] \in Nat
        OBVIOUS
      <4> QED
        BY <4>1, <4>2
    <3>2. out' \in [Model -> SUBSET Nat]
      BY <1>6, <2>3, <3>1 DEF CheckOverlap, TypeOK
    <3> QED
      BY <1>6, <2>3, <3>2 DEF CheckOverlap, TypeOK
  <2> QED
    BY <2>2, <2>3
<1>7. CASE Finish \/ UNCHANGED vars
  BY <1>7 DEF Finish, vars, TypeOK
<1> QED
  BY <1>1, <1>2, <1>3, <1>4, <1>5, <1>6, <1>7 DEF Next, Step, Reject

LEMMA ToldStep == ASSUME IInv, [Next]_vars PROVE ToldSound'
<1> USE DEF IInv, TypeOK
<1> DEFINE Sound(m) == /\ told[m] <= attempt[m]
                       /\ at[m] \in {"asked", "answered", "overlaps"} => told[m] < attempt[m]
<1> SUFFICES ASSUME NEW c \in Model PROVE Sound(c)'
  BY DEF ToldSound
<1>0. Sound(c)
  BY DEF ToldSound
<1>1. ASSUME NEW m \in Model, Asks(m), told' = told PROVE Sound(c)'
  <2>1. c # m => at'[c] = at[c] /\ attempt'[c] = attempt[c]
    BY <1>1 DEF Asks
  <2>2. /\ at'[m] \in {"asked", "invalid"}
        /\ attempt[m] <= attempt'[m]
        /\ at'[m] = "asked" => attempt'[m] = attempt[m] + 1
    BY <1>1, AsksSound
  <2>3. told'[c] = told[c] /\ told[c] \in Nat /\ attempt[c] \in Nat
    BY <1>1
  <2>4. CASE c = m
    <3>1. attempt'[c] = attempt[c] \/ attempt'[c] = attempt[c] + 1
      BY <1>1, <2>4 DEF Asks
    <3> QED
      BY <1>0, <2>2, <2>3, <2>4, <3>1
  <2> QED
    BY <1>0, <2>1, <2>3, <2>4
<1>2. ASSUME NEW m \in Model, Repair(m), at[m] \in {"answered", "overlaps"} PROVE Sound(c)'
  <2>1. Asks(m) /\ told' = [told EXCEPT ![m] = @ + 1]
    BY <1>2 DEF Repair
  <2>2. CASE c # m
    BY <1>0, <2>1, <2>2 DEF Asks
  <2>3. CASE c = m
    <3>1. told'[c] = told[c] + 1 /\ told[c] < attempt[c]
      BY <1>0, <1>2, <2>1, <2>3
    <3>2. /\ at'[m] \in {"asked", "invalid"}
          /\ at'[m] = "asked" => attempt'[m] = attempt[m] + 1
      BY <2>1, AsksSound
    <3>3. attempt'[c] = attempt[c] \/ attempt'[c] = attempt[c] + 1
      BY <2>1, <2>3 DEF Asks
    <3>4. told[c] \in Nat /\ attempt[c] \in Nat
      OBVIOUS
    <3> QED
      BY <2>3, <3>1, <3>2, <3>3, <3>4
  <2> QED
    BY <2>2, <2>3
<1>3. ASSUME NEW m \in Model, UNCHANGED <<told, attempt>>,
             \/ Moves(m, "asked", "answered")
             \/ Moves(m, "answered", "overlaps")
             \/ \E e \in Ended : at' = [at EXCEPT ![m] = e]
             \/ UNCHANGED at
      PROVE Sound(c)'
  BY <1>0, <1>3 DEF Moves, Ended
<1>4. ASSUME NEW m \in Model, Step(m) \/ Answer(m) \/ Fails(m) PROVE Sound(c)'
  <2>1. CASE Ask(m) \/ AskAgain(m)
    BY <1>1, <2>1 DEF Ask, AskAgain
  <2>2. CASE Reject(m)
    BY <1>2, <2>2 DEF Reject
  <2>3. CASE CheckRows(m)
    BY <1>2, <1>3, <2>3 DEF CheckRows
  <2>4. CASE \E p \in todo[m] : CheckOverlap(m, p)
    BY <1>2, <1>3, <2>4 DEF CheckOverlap
  <2>5. CASE Answer(m)
    BY <1>3, <2>5 DEF Answer
  <2>6. CASE GiveUp(m) \/ Deadline(m) \/ Fails(m) \/ AcceptSingle(m) \/ Accept(m)
    BY <1>3, <2>6 DEF GiveUp, Deadline, Fails, AcceptSingle, Accept, Moves, Ended
  <2> QED
    BY <1>4, <2>1, <2>2, <2>3, <2>4, <2>5, <2>6 DEF Step
<1>5. CASE Finish \/ UNCHANGED vars
  BY <1>0, <1>5 DEF Finish, vars
<1> QED
  BY <1>4, <1>5 DEF Next

LEMMA OutStep == ASSUME IInv, [Next]_vars PROVE OutSound'
<1> USE DEF IInv
<1> DEFINE Left(m) == \A b \in out[m] : b \in DOMAIN answer[m].rows /\ HasTwin(answer[m], b)
           Sound(m) ==
             /\ at[m] \in {"unasked", "asked", "answered"} => out[m] = {}
             /\ at[m] = "overlaps" => answer[m] \notin NoReading /\ Adjacent(answer[m]) /\ photos > 1
             /\ at[m] \in {"overlaps", "read"} => answer[m] \notin NoReading /\ Left(m)
<1> SUFFICES ASSUME NEW c \in Model PROVE Sound(c)'
  BY DEF OutSound
<1>0. Sound(c)
  BY DEF OutSound
<1>1. ASSUME UNCHANGED photos, at'[c] = at[c], answer'[c] = answer[c], out'[c] = out[c]
      PROVE Sound(c)'
  BY <1>0, <1>1 DEF Adjacent, HasTwin, Same
<1>2. ASSUME at'[c] \in Ended \ {"read"} PROVE Sound(c)'
  BY <1>2 DEF Ended
<1>3. ASSUME at'[c] \in {"asked", "answered"}, out'[c] = {} PROVE Sound(c)'
  BY <1>3
<1>4. ASSUME NEW m \in Model, Repair(m) PROVE Sound(c)'
  <2>1. CASE c = m
    <3>1. at'[c] \in {"asked", "invalid"} /\ out'[c] = {}
      BY <1>4, <2>1, AsksSound DEF Repair, TypeOK
    <3> QED
      BY <1>2, <1>3, <3>1 DEF Ended
  <2>2. CASE c # m
    BY <1>1, <1>4, <2>2 DEF Repair, Asks, TypeOK
  <2> QED
    BY <2>1, <2>2
<1>5. ASSUME NEW m \in Model, Ask(m) \/ AskAgain(m) PROVE Sound(c)'
  <2>1. CASE c = m
    <3>1. at'[c] \in {"asked", "invalid"} /\ out'[c] = {}
      BY <1>0, <1>5, <2>1, AsksSound DEF Ask, AskAgain
    <3> QED
      BY <1>2, <1>3, <3>1 DEF Ended
  <2>2. CASE c # m
    BY <1>1, <1>5, <2>2 DEF Ask, AskAgain, Asks, TypeOK
  <2> QED
    BY <2>1, <2>2
<1>6. ASSUME NEW m \in Model, Answer(m) PROVE Sound(c)'
  <2>1. CASE c = m
    BY <1>0, <1>3, <1>6, <2>1 DEF Answer, Moves, TypeOK
  <2>2. CASE c # m
    BY <1>1, <1>6, <2>2 DEF Answer, Moves, TypeOK
  <2> QED
    BY <2>1, <2>2
<1>7. ASSUME NEW m \in Model, GiveUp(m) \/ Deadline(m) \/ Fails(m) PROVE Sound(c)'
  <2>1. CASE c = m
    BY <1>2, <1>7, <2>1 DEF GiveUp, Deadline, Fails, Moves, TypeOK, Ended
  <2>2. CASE c # m
    BY <1>1, <1>7, <2>2 DEF GiveUp, Deadline, Fails, Moves, TypeOK
  <2> QED
    BY <2>1, <2>2
<1>8. ASSUME NEW m \in Model, AcceptSingle(m) \/ Accept(m) PROVE Sound(c)'
  <2>0. UNCHANGED <<photos, answer, out>>
    BY <1>8 DEF AcceptSingle, Accept
  <2>1. CASE c = m
    <3>1. at'[c] = "read" /\ answer[c] \notin NoReading /\ Left(c)
      BY <1>0, <1>8, <2>1 DEF AcceptSingle, Accept, Moves, TypeOK
    <3> QED
      BY <2>0, <3>1 DEF HasTwin, Same
  <2>2. CASE c # m
    BY <1>1, <1>8, <2>0, <2>2 DEF AcceptSingle, Accept, Moves, TypeOK
  <2> QED
    BY <2>1, <2>2
<1>9. ASSUME NEW m \in Model, CheckRows(m) PROVE Sound(c)'
  <2>1. CASE Repair(m)
    BY <1>4, <2>1
  <2>2. CASE ~Repair(m)
    <3>0. /\ Adjacent(answer[m]) /\ answer[m] \notin NoReading /\ photos > 1
          /\ at[m] = "answered" /\ at' = [at EXCEPT ![m] = "overlaps"]
          /\ UNCHANGED <<photos, answer, out>>
      BY <1>9, <2>2 DEF CheckRows, Moves
    <3>1. CASE c = m
      BY <1>0, <3>0, <3>1 DEF TypeOK, Adjacent
    <3>2. CASE c # m
      BY <1>1, <3>0, <3>2 DEF TypeOK
    <3> QED
      BY <3>1, <3>2
  <2> QED
    BY <2>1, <2>2
<1>10. ASSUME NEW m \in Model, NEW p \in todo[m], CheckOverlap(m, p) PROVE Sound(c)'
  <2>1. CASE Repair(m)
    BY <1>4, <2>1
  <2>2. CASE ~Repair(m)
    <3> DEFINE x == answer[m]
    <3>0. /\ at[m] = "overlaps" /\ UNCHANGED <<photos, answer, at>>
          /\ out' = [out EXCEPT ![m] =
                       IF AllSame(x, p) THEN @ \cup {d[2] : d \in PairsOf(x, p)} ELSE @]
      BY <1>10, <2>2 DEF CheckOverlap
    <3>1. CASE c = m
      <4>1. ASSUME NEW b \in out'[m] \ out[m] PROVE b \in DOMAIN x.rows /\ HasTwin(x, b)
        <5>1. AllSame(x, p) /\ b \in {d[2] : d \in PairsOf(x, p)}
          BY <3>0, <4>1 DEF TypeOK
        <5>2. PICK k \in DOMAIN x.pairs : b = x.pairs[k][2] /\ x.pairs[k] \in PairsOf(x, p)
          BY <5>1 DEF PairsOf, Of
        <5>3. Same(x.rows[x.pairs[k][1]], x.rows[b])
          BY <5>1, <5>2 DEF AllSame
        <5>4. /\ x.pairs[k][1] \in DOMAIN x.rows /\ b \in DOMAIN x.rows
              /\ x.pairs[k][1] < b
          BY <1>0, <3>0, <3>1, <5>2 DEF Adjacent
        <5> QED
          BY <5>3, <5>4 DEF HasTwin
      <4>2. \A b \in out'[m] : b \in DOMAIN x.rows /\ HasTwin(x, b)
        BY <1>0, <3>0, <3>1, <4>1
      <4> QED
        BY <1>0, <3>0, <3>1, <4>2 DEF Adjacent, HasTwin, Same
    <3>2. CASE c # m
      BY <1>1, <3>0, <3>2 DEF TypeOK
    <3> QED
      BY <3>1, <3>2
  <2> QED
    BY <2>1, <2>2
<1>11. CASE Finish \/ UNCHANGED vars
  BY <1>1, <1>11 DEF Finish, vars
<1> QED
  BY <1>4, <1>5, <1>6, <1>7, <1>8, <1>9, <1>10, <1>11 DEF Next, Step, Reject

\* What goes from an overlap are rows of the later photo.
LEMMA GoesFromNext ==
    ASSUME NEW x, NEW p, IsOverlap(x, p), NEW b \in {c[2] : c \in PairsOf(x, p)}
    PROVE  b \in Rows(x, p + 1)
<1> DEFINE n == Cardinality(Of(x, p))
<1>1. PairsOf(x, p) = {<<i, i + n>> : i \in {j \in Rows(x, p) : j + n \in Rows(x, p + 1)}}
  BY DEF IsOverlap
<1>2. PICK c \in PairsOf(x, p) : b = c[2]
  OBVIOUS
<1> HIDE DEF n
<1>3. PICK i \in Rows(x, p) : i + n \in Rows(x, p + 1) /\ c = <<i, i + n>>
  BY <1>1, <1>2
<1> QED
  BY <1>2, <1>3

LEMMA WholeStep == ASSUME IInv, [Next]_vars PROVE OutWhole'
<1> DEFINE Fine(m) ==
             at[m] \in {"overlaps", "read"} =>
               /\ photos = 1 => out[m] = {}
               /\ photos > 1 => Grouped(answer[m]) /\ Whole(answer[m], out[m])
<1> SUFFICES ASSUME NEW c \in Model PROVE Fine(c)'
  BY DEF OutWhole
<1>0. Fine(c) /\ TypeOK /\ OutSound
  BY DEF IInv, OutWhole
<1>1. ASSUME UNCHANGED photos, at'[c] = at[c], answer'[c] = answer[c], out'[c] = out[c]
      PROVE Fine(c)'
  BY <1>0, <1>1 DEF Grouped
<1>2. ASSUME at'[c] \notin {"overlaps", "read"} PROVE Fine(c)'
  BY <1>2
<1>3. ASSUME NEW m \in Model, Asks(m), UNCHANGED photos, c # m => out'[c] = out[c]
      PROVE Fine(c)'
  <2>1. CASE c = m
    BY <1>2, <1>3, <2>1, AsksSound
  <2>2. CASE c # m
    BY <1>0, <1>1, <1>3, <2>2 DEF Asks, TypeOK
  <2> QED
    BY <2>1, <2>2
<1>4. ASSUME NEW m \in Model, Repair(m) PROVE Fine(c)'
  BY <1>0, <1>3, <1>4 DEF Repair, TypeOK
<1>5. ASSUME NEW m \in Model, Ask(m) \/ AskAgain(m) PROVE Fine(c)'
  BY <1>3, <1>5 DEF Ask, AskAgain
<1>6. ASSUME NEW m \in Model, Answer(m) \/ GiveUp(m) \/ Deadline(m) \/ Fails(m) PROVE Fine(c)'
  <2>1. CASE c = m
    BY <1>0, <1>2, <1>6, <2>1 DEF Answer, GiveUp, Deadline, Fails, Moves, TypeOK
  <2>2. CASE c # m
    BY <1>0, <1>1, <1>6, <2>2 DEF Answer, GiveUp, Deadline, Fails, Moves, TypeOK
  <2> QED
    BY <2>1, <2>2
<1>7. ASSUME NEW m \in Model, AcceptSingle(m) PROVE Fine(c)'
  <2>1. CASE c = m
    BY <1>0, <1>7, <2>1 DEF AcceptSingle, Moves, OutSound
  <2>2. CASE c # m
    BY <1>0, <1>1, <1>7, <2>2 DEF AcceptSingle, Moves, TypeOK
  <2> QED
    BY <2>1, <2>2
<1>8. ASSUME NEW m \in Model, Accept(m) PROVE Fine(c)'
  <2>1. CASE c = m
    <3>1. at[c] = "overlaps" /\ UNCHANGED <<photos, answer, out>>
      BY <1>8, <2>1 DEF Accept, Moves
    <3> QED
      BY <1>0, <3>1 DEF Grouped
  <2>2. CASE c # m
    BY <1>0, <1>1, <1>8, <2>2 DEF Accept, Moves, TypeOK
  <2> QED
    BY <2>1, <2>2
<1>9. ASSUME NEW m \in Model, CheckRows(m) PROVE Fine(c)'
  <2>1. CASE Repair(m)
    BY <1>4, <2>1
  <2>2. CASE ~Repair(m)
    <3>0. /\ Grouped(answer[m]) /\ photos > 1
          /\ at[m] = "answered" /\ at' = [at EXCEPT ![m] = "overlaps"]
          /\ UNCHANGED <<photos, answer, out>>
      BY <1>9, <2>2 DEF CheckRows, Moves
    <3>1. CASE c = m
      <4>1. out'[c] = {} /\ photos' > 1 /\ answer'[c] = answer[c] /\ photos' # 1
        BY <1>0, <3>0, <3>1 DEF OutSound, TypeOK
      <4>2. Grouped(answer[c])'
        BY <3>0, <3>1 DEF Grouped
      <4>3. Whole(answer[c], out[c])'
        BY <4>1 DEF Whole
      <4> QED
        BY <4>1, <4>2, <4>3
    <3>2. CASE c # m
      BY <1>0, <1>1, <3>0, <3>2 DEF TypeOK
    <3> QED
      BY <3>1, <3>2
  <2> QED
    BY <2>1, <2>2
<1>10. ASSUME NEW m \in Model, NEW p \in todo[m], CheckOverlap(m, p) PROVE Fine(c)'
  <2>1. CASE Repair(m)
    BY <1>4, <2>1
  <2>2. CASE ~Repair(m)
    <3> DEFINE x == answer[m]
               G == {d[2] : d \in PairsOf(x, p)}
    <3>0. /\ at[m] = "overlaps" /\ UNCHANGED <<photos, answer, at>> /\ IsOverlap(x, p)
          /\ out' = [out EXCEPT ![m] = IF AllSame(x, p) THEN @ \cup G ELSE @]
      BY <1>10, <2>2 DEF CheckOverlap
    <3>1. CASE c = m /\ AllSame(x, p)
      <4>1. photos > 1 /\ Grouped(x) /\ Whole(x, out[m]) /\ p \in Nat
        BY <1>0, <3>0, <3>1 DEF OutSound, TypeOK
      <4>2. out'[m] = out[m] \cup G
        BY <1>0, <3>0, <3>1 DEF TypeOK
      <4>3. ASSUME NEW b \in G PROVE p \in 0..x.rows[b].photo
        <5>1. b \in Rows(x, p + 1)
          BY <3>0, <4>3, GoesFromNext
        <5> QED
          BY <4>1, <5>1 DEF Rows
      <4> HIDE DEF G
      <4>4. Whole(x, out'[m])
        <5> SUFFICES ASSUME NEW b \in out'[m]
                     PROVE  \E q \in 0..x.rows[b].photo :
                              /\ IsOverlap(x, q) /\ AllSame(x, q)
                              /\ b \in {d[2] : d \in PairsOf(x, q)}
                              /\ {d[2] : d \in PairsOf(x, q)} \subseteq out'[m]
          BY DEF Whole
        <5>1. CASE b \in G
          BY <3>0, <3>1, <4>2, <4>3, <5>1 DEF G
        <5>2. CASE b \in out[m]
          <6>1. PICK q \in 0..x.rows[b].photo :
                  /\ IsOverlap(x, q) /\ AllSame(x, q)
                  /\ b \in {d[2] : d \in PairsOf(x, q)}
                  /\ {d[2] : d \in PairsOf(x, q)} \subseteq out[m]
            BY <4>1, <5>2 DEF Whole
          <6>2. {d[2] : d \in PairsOf(x, q)} \subseteq out'[m]
            BY <4>2, <6>1
          <6> QED
            BY <6>1, <6>2
        <5> QED
          BY <4>2, <5>1, <5>2
      <4>5. answer'[c] = x /\ photos' = photos /\ photos # 1
        BY <1>0, <3>0, <3>1, <4>1 DEF TypeOK
      <4>6. Grouped(answer[c])'
        BY <4>1, <4>5 DEF Grouped
      <4>7. Whole(answer[c], out[c])'
        BY <3>1, <4>4, <4>5
      <4> QED
        BY <4>5, <4>6, <4>7
    <3>2. CASE c # m \/ ~AllSame(x, p)
      BY <1>0, <1>1, <3>0, <3>2 DEF TypeOK
    <3> QED
      BY <3>1, <3>2
  <2> QED
    BY <2>1, <2>2
<1>11. CASE Finish \/ UNCHANGED vars
  BY <1>1, <1>11 DEF Finish, vars
<1> QED
  BY <1>4, <1>5, <1>6, <1>7, <1>8, <1>9, <1>10, <1>11 DEF Next, Step, Reject

-----------------------------------------------------------------------------
(* The theorems of the specification *)

LEMMA Invariance == Spec => []IInv
<1>1. Init => IInv
  BY InitInv
<1>2. IInv /\ [Next]_vars => IInv'
  BY TypeStep, ToldStep, OutStep, WholeStep DEF IInv
<1> QED
  BY <1>1, <1>2, PTL DEF Spec

\* No model is asked more often than RETRY_LIMIT allows, nor told of more
\* answers (the loop of analyse_receipt_with_metadata).
THEOREM TypeCorrect == Spec => []TypeOK
<1>1. IInv => TypeOK
  BY DEF IInv
<1> QED
  BY <1>1, Invariance, PTL

LEMMA TwinIsKept == IInv => NothingLost
<1> SUFFICES ASSUME IInv, NEW m \in Model, Accepted(m), NEW b \in out[m]
             PROVE  \E a \in KeptRows(m) : a < b /\ Same(answer[m].rows[a], answer[m].rows[b])
  BY DEF NothingLost
<1> DEFINE x == answer[m]
           S == {i \in DOMAIN x.rows : Same(x.rows[i], x.rows[b])}
<1>1. /\ x \in Shape /\ b \in DOMAIN x.rows
      /\ \A d \in out[m] : d \in DOMAIN x.rows /\ HasTwin(x, d)
  BY DEF IInv, OutSound, Accepted, TypeOK
<1>2. DOMAIN x.rows \subseteq Nat
  BY <1>1, RowsAreNumbered
<1>3. PICK i \in DOMAIN x.rows : i < b /\ Same(x.rows[i], x.rows[b])
  BY <1>1 DEF HasTwin
<1>4. PICK a \in S : \A j \in S : a <= j
  BY <1>2, <1>3, Least
<1>5. a \notin out[m]
  <2> SUFFICES ASSUME a \in out[m] PROVE FALSE
    OBVIOUS
  <2>1. PICK j \in DOMAIN x.rows : j < a /\ Same(x.rows[j], x.rows[a])
    BY <1>1 DEF HasTwin
  <2>2. j \in S
    BY <1>4, <2>1 DEF Same
  <2> QED
    BY <1>2, <1>4, <2>1, <2>2
<1>6. a < b
  BY <1>1, <1>2, <1>3, <1>4
<1> QED
  BY <1>4, <1>5, <1>6 DEF KeptRows

\* A row that is left out of a receipt has an equal one in it, before it,
\* whatever the candidates and however photos overlap (reconciled).
THEOREM NoRowIsLost == Spec => []NothingLost
BY Invariance, TwinIsKept, PTL

-----------------------------------------------------------------------------
(* Every photo is shown *)

LEMMA RowsInOrder ==
    ASSUME NEW x \in Shape, Grouped(x), NEW i \in DOMAIN x.rows, NEW j \in DOMAIN x.rows,
           x.rows[i].photo < x.rows[j].photo
    PROVE  i < j
<1>1. i \in Nat /\ j \in Nat /\ x.rows[i].photo \in Nat /\ x.rows[j].photo \in Nat
  BY RowsAreNumbered DEF Row
<1>2. j < i => x.rows[j].photo <= x.rows[i].photo
  BY DEF Grouped
<1> QED
  BY <1>1, <1>2

\* The overlap of two photos lies at their boundary: with a row that goes all
\* of its photo before it go, and every row after its twin has one that goes.
LEMMA OverlapAtBoundary ==
    ASSUME NEW x \in Shape, Grouped(x), NEW p \in Nat, IsOverlap(x, p),
           NEW b \in {c[2] : c \in PairsOf(x, p)}
    PROVE  LET n == Cardinality(Of(x, p))
               gone == {c[2] : c \in PairsOf(x, p)}
           IN  /\ n \in Nat
               /\ \A d \in gone : /\ d \in Rows(x, p + 1) /\ d - n \in Rows(x, p)
                                  /\ <<d - n, d>> \in PairsOf(x, p)
               /\ \A d \in gone, i \in Rows(x, p + 1) : i < d => i \in gone
               /\ \A d \in gone, l \in Rows(x, p) : d - n < l => l + n \in gone
<1> DEFINE n == Cardinality(Of(x, p))
           gone == {c[2] : c \in PairsOf(x, p)}
           D == {j \in Rows(x, p) : j + n \in Rows(x, p + 1)}
<1>1. /\ Rows(x, p) \subseteq Nat /\ Rows(x, p + 1) \subseteq Nat
      /\ Rows(x, p) \subseteq DOMAIN x.rows /\ Rows(x, p + 1) \subseteq DOMAIN x.rows
  BY RowsAreNumbered DEF Rows
<1>2. n \in Nat
  <2>1. IsFiniteSet(DOMAIN x.pairs)
    <3>1. DOMAIN x.pairs = 1..Len(x.pairs) /\ Len(x.pairs) \in Nat
      BY DEF Shape
    <3> QED
      BY <3>1, FS_Interval
  <2>2. Of(x, p) \subseteq DOMAIN x.pairs
    BY DEF Of
  <2> QED
    BY <2>1, <2>2, FS_Subset, FS_CardinalityType
<1>3. PairsOf(x, p) = {<<i, i + n>> : i \in D} /\ Cardinality(PairsOf(x, p)) = n
  BY DEF IsOverlap
<1> HIDE DEF n
<1>4. gone = {i + n : i \in D}
  <2>1. gone = {c[2] : c \in {<<i, i + n>> : i \in D}}
    BY <1>3
  <2>2. \A i \in D : <<i, i + n>>[2] = i + n
    OBVIOUS
  <2> HIDE DEF D, gone
  <2> QED
    BY <2>1, <2>2
<1>5. PICK s \in Rows(x, p + 1) : \A j \in Rows(x, p + 1) : s <= j
  <2>1. Rows(x, p + 1) # {}
    BY <1>4
  <2> QED
    BY <1>1, <2>1, Least
<1>6. \A j \in Rows(x, p) : j < s
  <2> SUFFICES ASSUME NEW j \in Rows(x, p) PROVE j < s
    OBVIOUS
  <2>1. x.rows[j].photo = p /\ x.rows[s].photo = p + 1
    BY <1>5 DEF Rows
  <2> QED
    BY <1>1, <2>1, RowsInOrder
<1>7. D = (s - n)..(s - 1)
  <2>1. s \in Nat /\ D \subseteq (s - n)..(s - 1)
    BY <1>1, <1>2, <1>5, <1>6
  <2>2. IsFiniteSet((s - n)..(s - 1)) /\ Cardinality((s - n)..(s - 1)) = n
    <3>1. s - n \in Int /\ s - 1 \in Int
      BY <1>2, <2>1
    <3>2. (IF s - n > s - 1 THEN 0 ELSE (s - 1) - (s - n) + 1) = n
      BY <1>2, <2>1
    <3> QED
      BY <3>1, <3>2, FS_Interval
  <2>3. IsFiniteSet(D)
    BY <2>1, <2>2, FS_Subset
  <2>4. Cardinality(D) = n
    <3> DEFINE h == [i \in D |-> <<i, i + n>>]
    <3>1. h \in Bijection(D, PairsOf(x, p))
      <4>1. h \in [D -> PairsOf(x, p)]
        BY <1>3
      <4>2. \A i, j \in D : h[i] = h[j] => i = j
        OBVIOUS
      <4>3. \A c \in PairsOf(x, p) : \E i \in D : h[i] = c
        BY <1>3
      <4> HIDE DEF h
      <4> QED
        BY <4>1, <4>2, <4>3 DEF Bijection, Injection, Surjection, IsInjective
    <3>2. ExistsBijection(D, PairsOf(x, p))
      BY <3>1 DEF ExistsBijection
    <3> QED
      BY <1>3, <2>3, <3>2, FS_Bijection
  <2> QED
    BY <2>1, <2>2, <2>4, FS_Subset
<1>8. ASSUME NEW d \in gone
      PROVE  /\ d \in Rows(x, p + 1) /\ d - n \in Rows(x, p) /\ <<d - n, d>> \in PairsOf(x, p)
             /\ d - n \in D
  <2>1. PICK i \in D : d = i + n
    BY <1>4
  <2>2. d - n = i
    BY <1>1, <1>2, <2>1
  <2> QED
    BY <1>3, <2>1, <2>2
<1>9. ASSUME NEW d \in gone, NEW i \in Rows(x, p + 1), i < d PROVE i \in gone
  <2>1. d - n \in (s - n)..(s - 1)
    BY <1>7, <1>8
  <2>2. i \in Nat /\ d \in Nat /\ s \in Nat /\ s <= i
    BY <1>1, <1>5, <1>8
  <2>3. i - n \in (s - n)..(s - 1) /\ i = (i - n) + n
    BY <1>2, <1>9, <2>1, <2>2
  <2> QED
    BY <1>4, <1>7, <2>3
<1>10. ASSUME NEW d \in gone, NEW l \in Rows(x, p), d - n < l PROVE l + n \in gone
  <2>1. d - n \in (s - n)..(s - 1)
    BY <1>7, <1>8
  <2>2. l \in Nat /\ s \in Nat /\ l < s
    BY <1>1, <1>5, <1>6
  <2>3. l \in (s - n)..(s - 1)
    BY <1>2, <1>10, <2>1, <2>2
  <2> QED
    BY <1>4, <1>7, <2>3
<1> QED
  BY <1>2, <1>8, <1>9, <1>10 DEF n


\* The rows kept of a photo and those before it, and what it means that they
\* end with what the photo says.
UpTo(x, gone, p) == {k \in DOMAIN x.rows \ gone : x.rows[k].photo <= p}

EndsWith(f, x, gone, p) ==
    /\ f \in [Rows(x, p) -> UpTo(x, gone, p)]
    /\ \A i \in Rows(x, p) : x.rows[f[i]].value = x.rows[i].value
    /\ \A i, j \in Rows(x, p) : i < j => f[i] < f[j]
    /\ \A i \in Rows(x, p), k \in UpTo(x, gone, p) :
          f[i] < k => \E l \in Rows(x, p) : f[l] = k

\* No row of the first photo goes.
LEMMA FirstPhotoStays ==
    ASSUME NEW x \in Shape, Grouped(x), NEW gone \in SUBSET DOMAIN x.rows, Whole(x, gone)
    PROVE  EndsWith([i \in Rows(x, 0) |-> i], x, gone, 0)
<1>1. \A i \in DOMAIN x.rows : i \in Nat /\ x.rows[i].photo \in Nat
  BY RowsAreNumbered DEF Row
<1>2. Rows(x, 0) \subseteq UpTo(x, gone, 0)
  <2> SUFFICES ASSUME NEW b \in Rows(x, 0), b \in gone PROVE FALSE
    BY <1>1 DEF Rows, UpTo
  <2>1. PICK p \in 0..x.rows[b].photo :
            IsOverlap(x, p) /\ b \in {c[2] : c \in PairsOf(x, p)}
    BY DEF Whole
  <2>2. p \in Nat
    BY <1>1, <2>1 DEF Rows
  <2>3. b \in Rows(x, p + 1)
    BY <2>1, <2>2, GoesFromNext
  <2> QED
    BY <2>2, <2>3 DEF Rows
<1>3. UpTo(x, gone, 0) \subseteq Rows(x, 0)
  BY <1>1 DEF Rows, UpTo
<1> QED
  BY <1>2, <1>3 DEF EndsWith

\* What a photo says that is left out, the one before it says at its end.
LEMMA NextPhotoFollows ==
    ASSUME NEW x \in Shape, Grouped(x), NEW gone \in SUBSET DOMAIN x.rows, Whole(x, gone),
           NEW p \in Nat, NEW f, EndsWith(f, x, gone, p)
    PROVE  \E g : EndsWith(g, x, gone, p + 1)
<1> DEFINE n == Cardinality(Of(x, p))
           G == {c[2] : c \in PairsOf(x, p)}
           g == [i \in Rows(x, p + 1) |-> IF i \in gone THEN f[i - n] ELSE i]
<1>1. \A i \in DOMAIN x.rows : i \in Nat /\ x.rows[i].photo \in Nat
  BY RowsAreNumbered DEF Row
<1>2. ASSUME NEW d \in Rows(x, p + 1), d \in gone
      PROVE  IsOverlap(x, p) /\ AllSame(x, p) /\ d \in G /\ G \subseteq gone
  <2>1. PICK q \in 0..x.rows[d].photo :
            /\ IsOverlap(x, q) /\ AllSame(x, q)
            /\ d \in {c[2] : c \in PairsOf(x, q)}
            /\ {c[2] : c \in PairsOf(x, q)} \subseteq gone
    BY <1>2 DEF Whole
  <2>2. q \in Nat
    BY <1>1, <2>1 DEF Rows
  <2>3. d \in Rows(x, q + 1)
    BY <2>1, <2>2, GoesFromNext
  <2>4. q = p
    BY <2>2, <2>3 DEF Rows
  <2> QED
    BY <2>1, <2>4
<1>3. ASSUME NEW d \in Rows(x, p + 1), d \in gone
      PROVE  /\ n \in Nat /\ d - n \in Rows(x, p)
             /\ x.rows[d - n].value = x.rows[d].value
             /\ \A i \in Rows(x, p + 1) : i < d => i \in gone
             /\ \A l \in Rows(x, p) : d - n < l => l + n \in gone /\ l + n \in Rows(x, p + 1)
  <2>1. /\ n \in Nat
        /\ \A e \in G : /\ e \in Rows(x, p + 1) /\ e - n \in Rows(x, p)
                        /\ <<e - n, e>> \in PairsOf(x, p)
        /\ \A e \in G, i \in Rows(x, p + 1) : i < e => i \in G
        /\ \A e \in G, l \in Rows(x, p) : e - n < l => l + n \in G
    BY <1>2, <1>3, OverlapAtBoundary
  <2>2. Same(x.rows[d - n], x.rows[d])
    <3>1. <<d - n, d>> \in PairsOf(x, p)
      BY <1>2, <1>3, <2>1
    <3>2. \A c \in PairsOf(x, p) : Same(x.rows[c[1]], x.rows[c[2]])
      BY <1>2, <1>3 DEF AllSame
    <3>3. <<d - n, d>>[1] = d - n /\ <<d - n, d>>[2] = d
      OBVIOUS
    <3> HIDE DEF n
    <3> QED
      BY <3>1, <3>2, <3>3
  <2> HIDE DEF n, G
  <2> QED
    BY <1>2, <1>3, <2>1, <2>2 DEF Same
<1> HIDE DEF n
<1>4. ASSUME NEW i \in Rows(x, p + 1)
      PROVE  /\ g[i] \in UpTo(x, gone, p + 1) /\ x.rows[g[i]].value = x.rows[i].value
             /\ i \in gone => g[i] = f[i - n] /\ i - n \in Rows(x, p)
                              /\ g[i] \in UpTo(x, gone, p)
             /\ i \notin gone => g[i] = i /\ x.rows[g[i]].photo = p + 1
  <2>1. CASE i \in gone
    <3>1. i - n \in Rows(x, p) /\ x.rows[i - n].value = x.rows[i].value
      BY <1>3, <2>1
    <3>2. f[i - n] \in UpTo(x, gone, p) /\ x.rows[f[i - n]].value = x.rows[i - n].value
      BY <3>1 DEF EndsWith
    <3>3. UpTo(x, gone, p) \subseteq UpTo(x, gone, p + 1)
      BY <1>1 DEF UpTo
    <3> QED
      BY <2>1, <3>1, <3>2, <3>3
  <2>2. CASE i \notin gone
    BY <2>2 DEF UpTo, Rows
  <2> QED
    BY <2>1, <2>2
<1>5. ASSUME NEW i \in Rows(x, p + 1), NEW j \in Rows(x, p + 1), i < j
      PROVE  g[i] < g[j]
  <2>0. i \in Nat /\ j \in Nat
    BY <1>1 DEF Rows
  <2>1. CASE j \in gone
    <3>1. i \in gone /\ n \in Nat
      BY <1>3, <1>5, <2>1
    <3>2. i - n < j - n
      BY <1>5, <2>0, <3>1
    <3> QED
      BY <1>4, <2>1, <3>1, <3>2 DEF EndsWith
  <2>2. CASE j \notin gone /\ i \in gone
    <3>1. x.rows[g[i]].photo < x.rows[g[j]].photo /\ g[i] \in DOMAIN x.rows
      BY <1>1, <1>4, <2>2 DEF UpTo
    <3>2. g[j] = j /\ j \in DOMAIN x.rows
      BY <1>4, <2>2 DEF Rows
    <3> HIDE DEF g
    <3> QED
      BY <3>1, <3>2, RowsInOrder
  <2>3. CASE j \notin gone /\ i \notin gone
    BY <1>4, <1>5, <2>3
  <2> QED
    BY <2>1, <2>2, <2>3
<1>6. ASSUME NEW i \in Rows(x, p + 1), NEW k \in UpTo(x, gone, p + 1), g[i] < k
      PROVE  \E l \in Rows(x, p + 1) : g[l] = k
  <2>0. k \in DOMAIN x.rows /\ k \in Nat /\ k \notin gone /\ x.rows[k].photo \in Nat
    BY <1>1 DEF UpTo
  <2>1. CASE x.rows[k].photo = p + 1
    <3>1. k \in Rows(x, p + 1)
      BY <2>0, <2>1 DEF Rows
    <3> QED
      BY <1>4, <2>0, <3>1
  <2>2. CASE x.rows[k].photo # p + 1
    <3>1. k \in UpTo(x, gone, p) /\ x.rows[k].photo < p + 1
      BY <2>0, <2>2 DEF UpTo
    <3>2. i \in gone
      <4> SUFFICES ASSUME i \notin gone PROVE FALSE
        OBVIOUS
      <4>1. g[i] = i /\ x.rows[i].photo = p + 1 /\ i \in DOMAIN x.rows /\ i \in Nat
        BY <1>1, <1>4 DEF Rows
      <4>2. k < i
        BY <2>0, <3>1, <4>1, RowsInOrder
      <4> QED
        BY <1>6, <2>0, <4>1, <4>2
    <3>3. i - n \in Rows(x, p) /\ g[i] = f[i - n]
      BY <1>4, <3>2
    <3>4. PICK l \in Rows(x, p) : f[l] = k
      BY <1>6, <3>1, <3>3 DEF EndsWith
    <3>5. i - n < l
      <4>1. i - n \in Nat /\ l \in Nat /\ f[i - n] \in Nat
        BY <1>1, <1>4, <3>2, <3>3 DEF Rows, UpTo
      <4>2. l < i - n => f[l] < f[i - n]
        BY <3>3 DEF EndsWith
      <4>3. l = i - n => f[l] = f[i - n]
        OBVIOUS
      <4> QED
        BY <1>6, <2>0, <3>3, <3>4, <4>1, <4>2, <4>3
    <3>6. l + n \in gone /\ l + n \in Rows(x, p + 1) /\ n \in Nat
      BY <1>3, <3>2, <3>5
    <3>7. (l + n) - n = l
      BY <1>1, <3>6 DEF Rows
    <3> QED
      BY <1>4, <3>4, <3>6, <3>7
  <2> QED
    BY <2>1, <2>2
<1> HIDE DEF g
<1>7. g \in [Rows(x, p + 1) -> UpTo(x, gone, p + 1)]
  BY <1>4 DEF g
<1>8. EndsWith(g, x, gone, p + 1)
  BY <1>4, <1>5, <1>6, <1>7 DEF EndsWith
<1> QED
  BY <1>8

\* Were there a photo without such an ending, there would be a first.
LEMMA EveryPhotoEnds ==
    ASSUME NEW x \in Shape, Grouped(x), NEW gone \in SUBSET DOMAIN x.rows, Whole(x, gone)
    PROVE  \A p \in Nat : \E f : EndsWith(f, x, gone, p)
<1> DEFINE S == {p \in Nat : ~ \E f : EndsWith(f, x, gone, p)}
<1> SUFFICES ASSUME S # {} PROVE FALSE
  OBVIOUS
<1>1. PICK p \in S : \A q \in S : p <= q
  BY Least
<1>2. p # 0
  BY FirstPhotoStays
<1>3. p - 1 \in Nat /\ p - 1 \notin S /\ (p - 1) + 1 = p
  BY <1>1, <1>2
<1>4. PICK f : EndsWith(f, x, gone, p - 1)
  BY <1>3
<1>5. \E g : EndsWith(g, x, gone, (p - 1) + 1)
  BY <1>3, <1>4, NextPhotoFollows
<1> QED
  BY <1>3, <1>5


LEMMA EveryPhotoIsShown == IInv => ShowsEveryPhoto
<1> SUFFICES ASSUME IInv, NEW m \in Model, Accepted(m), NEW p \in 0..(photos - 1)
             PROVE  \E f \in [OfPhoto(answer[m], p) -> KeptRows(m)] :
                       ShownBy(f, answer[m], OfPhoto(answer[m], p), KeptRows(m))
  BY DEF ShowsEveryPhoto
<1> DEFINE x == answer[m]
           kept == KeptRows(m)
<1>1. /\ x \in Shape /\ photos \in Nat \ {0} /\ out[m] \subseteq DOMAIN x.rows
      /\ photos = 1 => out[m] = {}
      /\ photos > 1 => Grouped(x) /\ Whole(x, out[m])
  BY DEF IInv, OutSound, OutWhole, Accepted, TypeOK
<1>2. CASE photos = 1
  <2>1. OfPhoto(x, p) = kept
    BY <1>1, <1>2 DEF OfPhoto, KeptRows
  <2> DEFINE f == [i \in kept |-> i]
  <2>2. ShownBy(f, x, kept, kept)
    BY DEF ShownBy
  <2> QED
    BY <2>1, <2>2
<1>3. CASE photos > 1
  <2>0. p \in Nat /\ OfPhoto(x, p) = Rows(x, p)
    BY <1>1, <1>3 DEF OfPhoto
  <2>1. PICK f : EndsWith(f, x, out[m], p)
    BY <1>1, <1>3, <2>0, EveryPhotoEnds
  <2>2. UpTo(x, out[m], p) \subseteq kept
    BY DEF UpTo, KeptRows
  <2>3. f \in [Rows(x, p) -> kept]
    BY <2>1, <2>2 DEF EndsWith
  <2>4. ASSUME NEW i \in Rows(x, p), NEW j \in Rows(x, p), NEW k \in kept,
               f[i] < k, k < f[j]
        PROVE  \E l \in Rows(x, p) : f[l] = k
    <3>1. f[j] \in DOMAIN x.rows /\ x.rows[f[j]].photo <= p /\ k \in DOMAIN x.rows
      BY <2>1 DEF EndsWith, UpTo, KeptRows
    <3>2. x.rows[f[j]].photo \in Nat /\ x.rows[k].photo \in Nat
      BY <1>1, <3>1, RowsAreNumbered DEF Row
    <3>3. x.rows[k].photo <= x.rows[f[j]].photo
      BY <1>1, <1>3, <2>4, <3>1 DEF Grouped
    <3>4. k \in UpTo(x, out[m], p)
      BY <2>0, <3>1, <3>2, <3>3 DEF UpTo, KeptRows
    <3> QED
      BY <2>1, <2>4, <3>4 DEF EndsWith
  <2>5. ShownBy(f, x, Rows(x, p), kept)
    BY <2>1, <2>4 DEF EndsWith, ShownBy
  <2> QED
    BY <2>0, <2>3, <2>5
<1> QED
  BY <1>1, <1>2, <1>3

\* A receipt shows the rows of each photo in one piece, for any number of
\* photos, rows and candidates (reconciled: never search globally).
THEOREM PhotosAreShown == Spec => []ShowsEveryPhoto
BY Invariance, EveryPhotoIsShown, PTL

-----------------------------------------------------------------------------
(* Progress *)

\* What a step of one model leaves of the others.
Spared(m) ==
    \A n \in Model \ {m} :
        Untouched(n) /\ answer'[n] = answer[n] /\ out'[n] = out[n]

LEMMA AskingAdvances ==
    ASSUME IInv, NEW m \in Model, Asks(m)
    PROVE  /\ Advances(m)
           /\ \A n \in Model \ {m} :
                 at'[n] = at[n] /\ attempt'[n] = attempt[n] /\ answer'[n] = answer[n]
<1> USE DEF IInv, TypeOK, Asks
<1>1. \A n \in Model \ {m} :
         at'[n] = at[n] /\ attempt'[n] = attempt[n] /\ answer'[n] = answer[n]
  OBVIOUS
<1>2. CASE attempt[m] < RetryLimit
  BY <1>2 DEF Advances
<1>3. CASE ~(attempt[m] < RetryLimit)
  BY <1>3 DEF Advances, Ended
<1> QED
  BY <1>1, <1>2, <1>3

LEMMA StepAdvances ==
    ASSUME IInv, NEW m \in Model, Step(m) \/ Answer(m) \/ Fails(m)
    PROVE  at[m] \notin Ended /\ Advances(m) /\ Spared(m)
<1> USE DEF IInv
<1>1. CASE Ask(m) \/ AskAgain(m)
  <2>1. at[m] \notin Ended /\ Asks(m) /\ UNCHANGED <<todo, out>>
    BY <1>1 DEF Ask, AskAgain, Ended
  <2> QED
    BY <2>1, AskingAdvances DEF Spared, Untouched
<1>2. ASSUME Repair(m), at[m] \in {"answered", "overlaps"}
      PROVE  at[m] \notin Ended /\ Advances(m) /\ Spared(m)
  <2>1. /\ Asks(m)
        /\ todo' = [todo EXCEPT ![m] = {}]
        /\ out' = [out EXCEPT ![m] = {}]
    BY <1>2 DEF Repair
  <2>2. at[m] \notin Ended
    BY <1>2 DEF Ended
  <2>3. \A n \in Model \ {m} : todo'[n] = todo[n] /\ out'[n] = out[n]
    BY <2>1 DEF TypeOK
  <2> QED
    BY <2>1, <2>2, <2>3, AskingAdvances DEF Spared, Untouched
<1>3. CASE Reject(m)
  BY <1>2, <1>3 DEF Reject
<1>4. CASE Answer(m)
  <2>1. at[m] = "asked" /\ at'[m] = "answered" /\ UNCHANGED <<attempt, todo, out>>
    BY <1>4 DEF Answer, Moves, TypeOK
  <2>2. Spared(m)
    BY <1>4 DEF Answer, Moves, TypeOK, Spared, Untouched
  <2> QED
    BY <2>1, <2>2 DEF Advances, Ended
<1>5. CASE GiveUp(m) \/ Deadline(m) \/ Fails(m) \/ AcceptSingle(m) \/ Accept(m)
  <2>1. at[m] \notin Ended /\ at'[m] \in Ended
    BY <1>5 DEF GiveUp, Deadline, Fails, AcceptSingle, Accept, Moves, TypeOK, Ended
  <2>2. Spared(m)
    BY <1>5 DEF GiveUp, Deadline, Fails, AcceptSingle, Accept, Moves, TypeOK, Spared, Untouched
  <2> QED
    BY <2>1, <2>2 DEF Advances
<1>6. CASE CheckRows(m)
  <2>1. CASE Repair(m)
    BY <1>2, <1>6, <2>1 DEF CheckRows
  <2>2. CASE ~Repair(m)
    <3> DEFINE ps == {answer[m].rows[answer[m].pairs[k][1]].photo : k \in DOMAIN answer[m].pairs}
    <3>1. /\ Moves(m, "answered", "overlaps") /\ todo' = [todo EXCEPT ![m] = ps]
          /\ UNCHANGED <<attempt, answer, out>>
      BY <1>6, <2>2 DEF CheckRows
    <3> HIDE DEF ps
    <3>2. at[m] = "answered" /\ at'[m] = "overlaps" /\ attempt'[m] = attempt[m]
      BY <3>1 DEF Moves, TypeOK
    <3>3. Spared(m)
      BY <3>1 DEF Moves, TypeOK, Spared, Untouched
    <3> QED
      BY <3>2, <3>3 DEF Advances, Ended
  <2> QED
    BY <2>1, <2>2
<1>7. ASSUME NEW p \in todo[m], CheckOverlap(m, p)
      PROVE  at[m] \notin Ended /\ Advances(m) /\ Spared(m)
  <2>1. CASE Repair(m)
    BY <1>2, <1>7, <2>1 DEF CheckOverlap
  <2>2. CASE ~Repair(m)
    <3>1. /\ at[m] = "overlaps" /\ todo' = [todo EXCEPT ![m] = @ \ {p}]
          /\ UNCHANGED <<at, attempt, answer>>
      BY <1>7, <2>2 DEF CheckOverlap
    <3>2. PICK rows : out' = [out EXCEPT ![m] = rows]
      BY <1>7, <2>2 DEF CheckOverlap
    <3>3. todo'[m] = todo[m] \ {p}
      BY <3>1 DEF TypeOK
    <3>4. \A n \in Model \ {m} : todo'[n] = todo[n] /\ out'[n] = out[n]
      BY <3>1, <3>2 DEF TypeOK
    <3>5. Spared(m)
      BY <3>1, <3>4 DEF Spared, Untouched
    <3>6. todo'[m] \subseteq todo[m] /\ todo'[m] # todo[m]
      BY <1>7, <3>3
    <3> QED
      BY <3>1, <3>5, <3>6 DEF Advances, Ended
  <2> QED
    BY <2>1, <2>2
<1> QED
  BY <1>1, <1>3, <1>4, <1>5, <1>6, <1>7 DEF Step

\* Every step of an extraction brings it nearer to its end, for any models,
\* answers and limit of retries, and an end once reached is never left
\* (analyse_receipt_with_metadata).
THEOREM ExtractionsOnlyAdvance == Spec => OnlyAdvances
<1>1. IInv /\ [Next]_vars => [Advance /\ Outcome]_vars
  <2> SUFFICES ASSUME IInv, Next PROVE Advance /\ Outcome
    OBVIOUS
  <2>1. ASSUME NEW m \in Model, Step(m) \/ Answer(m) \/ Fails(m)
        PROVE  Advance /\ Outcome
    <3>1. at[m] \notin Ended /\ Advances(m) /\ Spared(m)
      BY <2>1, StepAdvances
    <3> QED
      BY <3>1 DEF Advance, Outcome, Spared, Untouched
  <2>2. CASE Finish
    BY <2>2 DEF Finish, Advance, Outcome, Untouched
  <2> QED
    BY <2>1, <2>2 DEF Next
<1> QED
  BY <1>1, Invariance, PTL DEF Spec, OnlyAdvances
=============================================================================
