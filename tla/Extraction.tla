----------------------------- MODULE Extraction -----------------------------
(* A request for a receipt's extraction: models are asked about its photos, *)
(* told what was wrong with their answers, and asked again; the rows that   *)
(* overlapping photos show twice are left out of the answer accepted. Only  *)
(* a model's answer is awaited: what follows it, up to the next message, is *)
(* not interrupted.                                                         *)
EXTENDS Naturals, Sequences, FiniteSets

CONSTANTS
    Model,
    Chosen,      \* the model asked, unless all are
    MaxPhotos,
    Value,       \* what a row says: description, quantity, total
    Nameless,    \* of these, the ones with a blank description
    Reading,     \* answers of the schema for n photos: rows and duplicate candidates
    Empty,       \* answers that are none: no text,
    Invalid,     \* nothing of the schema,
    Unreadable,  \* the error the prompt asks for,
    Imageless,   \* and a request to provide the image
    RetryLimit

Row       == [photo: Nat, value: Value]
Candidate == Nat \X Nat
Shape     == [rows: Seq(Row), pairs: Seq(Candidate)]

NoReading == {Empty, Invalid, Unreadable, Imageless}

ASSUME PhotosAssumption == MaxPhotos \in Nat \ {0}
ASSUME RetryAssumption == RetryLimit \in Nat \ {0}
ASSUME ReadingAssumption == \A n \in 1..MaxPhotos : \A x \in Reading[n] : x \in Shape
ASSUME ChosenAssumption == Chosen \in Model
ASSUME ValueAssumption == Nameless \subseteq Value

VARIABLES
    request,   \* how the extraction was asked for
    photos,    \* how many photos it is about
    file,      \* the photo is stored in a temporary file of the request
    at,        \* where the extraction by a model is
    attempt,   \* how often the model was asked
    told,      \* how many of its answers it was told to repair
    answer,    \* the answer being looked at, or accepted
    todo,      \* the photos whose overlap with the next is yet to be checked
    out        \* the rows left out

vars == <<request, photos, file, at, attempt, told, answer, todo, out>>

\* From its photos' paths, from the bytes of one, or by every model from those.
Requests == {"path", "bytes", "all"}
Ended == {"read", "unreadable", "invalid", "timeout", "failed"}

TypeOK ==
    /\ request \in Requests
    /\ photos \in 1..MaxPhotos
    /\ file \in BOOLEAN
    /\ at \in [Model -> {"unasked", "asked", "answered", "overlaps"} \cup Ended]
    /\ attempt \in [Model -> 0..RetryLimit]
    /\ told \in [Model -> 0..RetryLimit]
    /\ answer \in [Model -> NoReading \cup Shape]
    /\ todo \in [Model -> SUBSET Nat]
    /\ out \in [Model -> SUBSET Nat]

\* A temporary file is written before anything is asked.
Init ==
    /\ request \in Requests
    /\ photos \in 1..MaxPhotos
    /\ request # "path" => photos = 1
    /\ file = (request # "path")
    /\ at = [m \in Model |-> IF request = "all" \/ m = Chosen THEN "unasked" ELSE "failed"]
    /\ attempt = [m \in Model |-> 0]
    /\ told = [m \in Model |-> 0]
    /\ answer = [m \in Model |-> Empty]
    /\ todo = [m \in Model |-> {}]
    /\ out = [m \in Model |-> {}]

-----------------------------------------------------------------------------
(* Asking, and asking again *)

Moves(m, from, to) == at[m] = from /\ at' = [at EXCEPT ![m] = to]

\* Mutant: one attempt too many.
AsksOnceMore(m) ==
    /\ answer' = [answer EXCEPT ![m] = Empty]
    /\ at' = [at EXCEPT ![m] = IF attempt[m] <= RetryLimit THEN "asked" ELSE "invalid"]
    /\ attempt' = [attempt EXCEPT ![m] = @ + 1]

\* The last answer is of no more use, except in the words of a repair.
Asks(m) ==
    /\ answer' = [answer EXCEPT ![m] = Empty]
    /\ IF attempt[m] < RetryLimit
         THEN at' = [at EXCEPT ![m] = "asked"] /\ attempt' = [attempt EXCEPT ![m] = @ + 1]
         ELSE at' = [at EXCEPT ![m] = "invalid"] /\ UNCHANGED attempt

\* The photos are read from their files, and sent with the prompt.
Ask(m) ==
    /\ at[m] = "unasked"
    /\ Asks(m)
    /\ UNCHANGED <<request, photos, file, told, todo, out>>

Answer(m) ==
    /\ Moves(m, "asked", "answered")
    /\ \E x \in NoReading \cup Reading[photos] : answer' = [answer EXCEPT ![m] = x]
    /\ UNCHANGED <<request, photos, file, attempt, told, todo, out>>

\* Mutant: an empty answer is no attempt.
AskAnew(m) ==
    /\ answer[m] = Empty
    /\ Moves(m, "answered", "asked")
    /\ UNCHANGED <<request, photos, file, attempt, told, answer, todo, out>>

\* An empty answer is asked for again, as it was.
AskAgain(m) ==
    /\ at[m] = "answered" /\ answer[m] = Empty
    /\ Asks(m)
    /\ UNCHANGED <<request, photos, file, told, todo, out>>

\* Mutant: the rows found to be duplicates so far stay out.
RepairKeepsOut(m) ==
    /\ Asks(m)
    /\ told' = [told EXCEPT ![m] = @ + 1]
    /\ todo' = [todo EXCEPT ![m] = {}]
    /\ UNCHANGED <<request, photos, file, out>>

\* The model is told what is wrong with its answer, and asked again.
Repair(m) ==
    /\ Asks(m)
    /\ told' = [told EXCEPT ![m] = @ + 1]
    /\ todo' = [todo EXCEPT ![m] = {}]
    /\ out' = [out EXCEPT ![m] = {}]
    /\ UNCHANGED <<request, photos, file>>

Reject(m) == at[m] = "answered" /\ answer[m] = Invalid /\ Repair(m)

\* These end the extraction at once.
GiveUp(m) ==
    /\ \/ answer[m] = Unreadable /\ Moves(m, "answered", "unreadable")
       \/ answer[m] = Imageless /\ Moves(m, "answered", "failed")
    /\ UNCHANGED <<request, photos, file, attempt, told, answer, todo, out>>

\* Neither the deadline of the extraction nor the client waits for longer;
\* only the latter bounds a message when every model is asked.
Deadline(m) ==
    /\ Moves(m, "asked", IF request = "all" THEN "failed" ELSE "timeout")
    /\ UNCHANGED <<request, photos, file, attempt, told, answer, todo, out>>

\* A photo is missing, the model is out of reach, or the analysis is cancelled,
\* as at a shutdown.  A process that is killed runs nothing more and leaves the
\* temporary file behind.
Fails(m) ==
    /\ at[m] \in {"unasked", "asked"}
    /\ at' = [at EXCEPT ![m] = "failed"]
    /\ UNCHANGED <<request, photos, file, attempt, told, answer, todo, out>>

-----------------------------------------------------------------------------
(* reconciled *)

Rows(x, p) == {i \in DOMAIN x.rows : x.rows[i].photo = p}

\* Rows are in the order of the photos.
Grouped(x) ==
    /\ \A i \in DOMAIN x.rows : x.rows[i].photo < photos
    /\ \A i, j \in DOMAIN x.rows : i < j => x.rows[i].photo <= x.rows[j].photo

\* Candidates are rows of a photo and the next.
Adjacent(x) ==
    \A k \in DOMAIN x.pairs :
        LET a == x.pairs[k][1]
            b == x.pairs[k][2]
        IN  /\ a \in DOMAIN x.rows /\ b \in DOMAIN x.rows /\ a < b
            /\ x.rows[b].photo = x.rows[a].photo + 1

Of(x, p) == {k \in DOMAIN x.pairs : x.rows[x.pairs[k][1]].photo = p}
PairsOf(x, p) == {x.pairs[k] : k \in Of(x, p)}

\* Mutant: any pairs of rows of the photos will do.
AnyPairs(x, p) == p \in Nat

\* The n candidates of p are the last n rows of p and the first n of the next
\* photo, in order.
IsOverlap(x, p) ==
    LET n == Cardinality(Of(x, p)) IN
    /\ PairsOf(x, p) = {<<i, i + n>> : i \in {j \in Rows(x, p) : j + n \in Rows(x, p + 1)}}
    /\ Cardinality(PairsOf(x, p)) = n

\* verify_duplicate, with its default tolerances of zero.
Same(r, s) == r.value = s.value /\ r.value \notin Nameless

\* Mutant: one pair that is the same will do.
SomeSame(x, p) == \E c \in PairsOf(x, p) : Same(x.rows[c[1]], x.rows[c[2]])

AllSame(x, p) == \A c \in PairsOf(x, p) : Same(x.rows[c[1]], x.rows[c[2]])

\* An answer about one photo is taken as it is.
AcceptSingle(m) ==
    /\ answer[m] \notin NoReading /\ photos = 1
    /\ Moves(m, "answered", "read")
    /\ UNCHANGED <<request, photos, file, attempt, told, answer, todo, out>>

CheckRows(m) ==
    LET x == answer[m] IN
    /\ at[m] = "answered" /\ x \notin NoReading /\ photos > 1
    /\ IF Grouped(x) /\ Adjacent(x)
         THEN /\ Moves(m, "answered", "overlaps")
              /\ todo' = [todo EXCEPT ![m] = {x.rows[x.pairs[k][1]].photo : k \in DOMAIN x.pairs}]
              /\ UNCHANGED <<request, photos, file, attempt, told, answer, out>>
         ELSE Repair(m)

\* Overlaps are checked in the order their candidates were given: it makes
\* no difference. All rows of an overlap go, or none.
CheckOverlap(m, p) ==
    LET x == answer[m] IN
    /\ at[m] = "overlaps" /\ p \in todo[m]
    /\ IF IsOverlap(x, p)
         THEN /\ todo' = [todo EXCEPT ![m] = @ \ {p}]
              /\ out' = [out EXCEPT ![m] =
                           IF AllSame(x, p) THEN @ \cup {c[2] : c \in PairsOf(x, p)} ELSE @]
              /\ UNCHANGED <<request, photos, file, at, attempt, told, answer>>
         ELSE Repair(m)

Accept(m) ==
    /\ todo[m] = {}
    /\ Moves(m, "overlaps", "read")
    /\ UNCHANGED <<request, photos, file, attempt, told, answer, todo, out>>

-----------------------------------------------------------------------------
\* The request is answered, and its temporary file unlinked.
AllEnded == \A m \in Model : at[m] \in Ended

Finish ==
    /\ file /\ AllEnded
    /\ file' = FALSE
    /\ UNCHANGED <<request, photos, at, attempt, told, answer, todo, out>>

\* What the process does by itself, and the end of waiting.
Step(m) ==
    \/ Ask(m) \/ Deadline(m)
    \/ AskAgain(m) \/ Reject(m) \/ GiveUp(m)
    \/ AcceptSingle(m) \/ CheckRows(m) \/ Accept(m)
    \/ \E p \in todo[m] : CheckOverlap(m, p)

Next ==
    \/ \E m \in Model : Step(m) \/ Answer(m) \/ Fails(m)
    \/ Finish

Spec == Init /\ [][Next]_vars

-----------------------------------------------------------------------------
(* Safety *)

Accepted(m) == at[m] = "read"
KeptRows(m) == DOMAIN answer[m].rows \ out[m]

\* A row is left out of a receipt only if it is in it: an earlier row that is
\* kept says the same (the prompt: preserve genuinely repeated purchases).
NothingLost ==
    \A m \in Model : Accepted(m) =>
        \A b \in out[m] :
            \E a \in KeptRows(m) : a < b /\ Same(answer[m].rows[a], answer[m].rows[b])

\* An answer about one photo names none: its rows are all that photo's.
OfPhoto(x, p) == IF photos = 1 THEN DOMAIN x.rows ELSE Rows(x, p)

\* In the rows that are kept, these are shown in one piece, in order: each
\* stands for itself or for one that says the same, and no other in between.
ShownBy(f, x, rows, kept) ==
    /\ \A i \in rows : x.rows[f[i]].value = x.rows[i].value
    /\ \A i, j \in rows : i < j => f[i] < f[j]
    /\ \A i, j \in rows, k \in kept : f[i] < k /\ k < f[j] => \E l \in rows : f[l] = k

\* The receipt shows each photo's rows in one piece, repeated purchases and
\* all, whatever the candidates of the model are (reconciled: never search
\* globally).
ShowsEveryPhoto ==
    \A m \in Model : Accepted(m) =>
        \A p \in 0..(photos - 1) :
            LET x == answer[m]
                rows == OfPhoto(x, p)
            IN  \E f \in [rows -> KeptRows(m)] : ShownBy(f, x, rows, KeptRows(m))

\* What is left out is a row of a later photo that says the same as one of
\* the photo before it.
HasTwin(x, b) ==
    \E a \in DOMAIN x.rows : a < b /\ Same(x.rows[a], x.rows[b])

OutSound ==
    \A m \in Model :
        /\ at[m] \in {"unasked", "asked", "answered"} => out[m] = {}
        /\ at[m] = "overlaps" =>
              answer[m] \notin NoReading /\ Adjacent(answer[m]) /\ photos > 1
        /\ at[m] \in {"overlaps", "read"} =>
              /\ answer[m] \notin NoReading
              /\ \A b \in out[m] : b \in DOMAIN answer[m].rows /\ HasTwin(answer[m], b)

\* All rows of an overlap are left out, or none, and nothing else.
Whole(x, rows) ==
    \A b \in rows : \E p \in 0..x.rows[b].photo :
        /\ IsOverlap(x, p) /\ AllSame(x, p)
        /\ b \in {c[2] : c \in PairsOf(x, p)}
        /\ {c[2] : c \in PairsOf(x, p)} \subseteq rows

OutWhole ==
    \A m \in Model : at[m] \in {"overlaps", "read"} =>
        /\ photos = 1 => out[m] = {}
        /\ photos > 1 => Grouped(answer[m]) /\ Whole(answer[m], out[m])

\* A model is told of each answer once at most.
ToldSound ==
    \A m \in Model :
        /\ told[m] <= attempt[m]
        /\ at[m] \in {"asked", "answered", "overlaps"} => told[m] < attempt[m]

\* The inductive invariant behind the theorems.
IInv == TypeOK /\ OutSound /\ OutWhole /\ ToldSound

-----------------------------------------------------------------------------
(* Progress *)

Untouched(m) == at'[m] = at[m] /\ attempt'[m] = attempt[m] /\ todo'[m] = todo[m]

\* The extraction ends, or asks once more within the limit, or goes on to the
\* next stage of the same attempt, or has one overlap less to check.
Advances(m) ==
    \/ at'[m] \in Ended
    \/ at'[m] = "asked" /\ attempt'[m] = attempt[m] + 1 /\ attempt[m] < RetryLimit
    \/ /\ attempt'[m] = attempt[m]
       /\ \/ at[m] = "asked" /\ at'[m] = "answered"
          \/ at[m] = "answered" /\ at'[m] = "overlaps"
          \/ /\ at[m] = "overlaps" /\ at'[m] = "overlaps"
             /\ todo'[m] \subseteq todo[m] /\ todo'[m] # todo[m]

\* Nothing takes an extraction back, and one that has ended keeps its end and
\* its receipt: empty answers and answers to repair share one count of attempts,
\* in whatever order they come (analyse_receipt_with_metadata).
Advance ==
    \A m \in Model :
        \/ Untouched(m)
        \/ at[m] \notin Ended /\ Advances(m)
Outcome ==
    \A m \in Model : at[m] \in Ended =>
        at'[m] = at[m] /\ answer'[m] = answer[m] /\ out'[m] = out[m]
OnlyAdvances == [][Advance /\ Outcome]_vars

-----------------------------------------------------------------------------
(* Liveness *)

\* The process runs, and deadlines pass.
FairSpec ==
    /\ Spec
    /\ \A m \in Model : WF_vars(Step(m))
    /\ WF_vars(Finish)

\* Every extraction ends, though models be silent or never make sense, and
\* leaves no temporary file.
RequestEnds == <>[](AllEnded /\ ~file)
=============================================================================
