------------------------------- MODULE Server -------------------------------
(* One server process, its starts and stops, its settings and its accounts: *)
(* lifespan and bootstrap_admin (main.py), registration (api/auth.py), the  *)
(* users table (user_db.py) and the settings of Settings.tla.  The process  *)
(* is single (the image runs one uvicorn worker); a statement it has sent   *)
(* to the database may still land after its death.                          *)
EXTENDS Settings

CONSTANTS
    Request,    \* registration requests, each served at most once
    Name,       \* usernames
    Bootstrap,  \* the bootstrap as the creator of an account
    NoOne       \* no account, no name

ASSUME AccountAssumption ==
    /\ Bootstrap \notin Request /\ NoOne \notin Request \cup {Bootstrap}
    /\ NoOne \notin Name

VARIABLES
    db,          \* receipt_service.db_ready
    boot,        \* auth.bootstrap_username with its password, or NoOne
    accounts,    \* who created the account of a name; the bootstrap makes admins
    orphans,     \* the tables that have rows without an owner
    reg,         \* where a registration request is, or how it was answered
    name,        \* the username it asks for
    sent,        \* names of admins whose INSERT outlived its bootstrap
    late,        \* history: those that have landed since
    interrupted  \* history: an admin came to be without its backfill

lateVars == <<sent, late>>
accountVars == <<boot, accounts, orphans, reg, name, lateVars, interrupted>>
serverVars == <<settingsVars, db, accountVars>>

Users == {n \in Name : accounts[n] # NoOne}
Admins == {n \in Name : accounts[n] = Bootstrap}

Init ==
    /\ SettingsInit
    /\ db = FALSE
    /\ boot \in Name \cup {NoOne}
    /\ accounts = [n \in Name |-> NoOne]
    /\ orphans \in SUBSET {"receipts", "images"}
    /\ reg = [r \in Request |-> "idle"]
    /\ name = [r \in Request |-> NoOne]
    /\ sent = {} /\ late = {} /\ interrupted = FALSE

-----------------------------------------------------------------------------
(* The start: lifespan and bootstrap_admin.                                 *)

\* The operator changes the bootstrap credentials between two starts.
EditCredentials ==
    /\ phase = "down" /\ spent.edits < MaxEdits /\ Spend("edits")
    /\ boot' \in (Name \cup {NoOne}) \ {boot}
    /\ UNCHANGED <<phase, env, diskVars, settings, provider, startup, stage, candidate,
                   historyVars, db, accounts, orphans, reg, name, lateVars, interrupted>>

startVars == <<env, diskVars, settings, provider, startup, stage, candidate, historyVars,
               boot, reg, name, late>>

\* init_db opens the pools; without them the process comes up all the same.
OpenDatabase ==
    /\ phase = "built"
    /\ phase' = "counting" /\ db' = TRUE
    /\ UNCHANGED <<startVars, accounts, orphans, sent, interrupted, spent>>

\* Mutant: the users are not counted.
CountNobody ==
    /\ phase = "counting"
    /\ phase' = IF boot # NoOne THEN "creatingAdmin" ELSE "up"
    /\ UNCHANGED <<startVars, db, accounts, orphans, sent, interrupted, spent>>

\* count_users and the bootstrap credentials decide whether there is anything to do.
CountUsers ==
    /\ phase = "counting"
    /\ phase' = IF Users = {} /\ boot # NoOne THEN "creatingAdmin" ELSE "up"
    /\ UNCHANGED <<startVars, db, accounts, orphans, sent, interrupted, spent>>

\* create_user, or UniqueViolationError when the name has come up since.
CreateAdmin ==
    /\ phase = "creatingAdmin"
    /\ IF accounts[boot] = NoOne
       THEN /\ accounts' = [accounts EXCEPT ![boot] = Bootstrap]
            /\ phase' = "adoptingReceipts"
       ELSE phase' = "up" /\ UNCHANGED accounts
    /\ UNCHANGED <<startVars, db, orphans, sent, interrupted, spent>>

\* The two statements of set_owner_of_orphan_rows, each committed by itself.
AdoptReceipts ==
    /\ phase = "adoptingReceipts" /\ phase' = "adoptingImages"
    /\ orphans' = orphans \ {"receipts"}
    /\ UNCHANGED <<startVars, db, accounts, sent, interrupted, spent>>

\* Mutant: the second statement is missing.
AdoptNoImages ==
    /\ phase = "adoptingImages" /\ phase' = "up"
    /\ UNCHANGED <<startVars, db, accounts, orphans, sent, interrupted, spent>>

AdoptImages ==
    /\ phase = "adoptingImages" /\ phase' = "up"
    /\ orphans' = orphans \ {"images"}
    /\ UNCHANGED <<startVars, db, accounts, sent, interrupted, spent>>

Adopting == phase \in {"adoptingReceipts", "adoptingImages"}

\* The bootstrap ends, by an exception or with its process, while a statement
\* may be on its way: the INSERT lands later or never, the backfill's UPDATE,
\* which nobody waits for, has landed or has not.
BootstrapEnds ==
    /\ sent' = IF phase = "creatingAdmin" THEN sent \cup {boot} ELSE sent
    /\ \/ UNCHANGED orphans
       \/ phase = "adoptingReceipts" /\ orphans' = orphans \ {"receipts"}
       \/ phase = "adoptingImages" /\ orphans' = orphans \ {"images"}
    /\ interrupted' = (interrupted \/ Adopting)

\* The database fails or its answer is lost: lifespan logs it and goes on.
StartFails ==
    /\ phase \in {"built", "counting", "creatingAdmin"} \/ Adopting
    /\ spent.faults < MaxFaults /\ Spend("faults")
    /\ phase' = "up"
    /\ BootstrapEnds
    /\ UNCHANGED <<startVars, db, accounts>>

\* The INSERT of a bootstrap that has ended lands; its backfill never runs.
LandAdmin(n) ==
    /\ n \in sent /\ sent' = sent \ {n}
    /\ IF n \in Users THEN UNCHANGED <<accounts, late, interrupted>>
       ELSE /\ accounts' = [accounts EXCEPT ![n] = Bootstrap]
            /\ late' = late \cup {n} /\ interrupted' = TRUE
    /\ UNCHANGED <<settingsVars, db, boot, orphans, reg, name>>

-----------------------------------------------------------------------------
(* Requests.                                                                *)

requestVars == <<settingsVars, db, boot, orphans, lateVars, interrupted>>

Moves(r, from, to) == reg[r] = from /\ reg' = [reg EXCEPT ![r] = to]

\* register up to its first await: 503, 403, or the query for the name.
Register(r, n) ==
    /\ phase = "up" /\ stage = "none"
    /\ name' = [name EXCEPT ![r] = n]
    /\ Moves(r, "idle", IF ~db THEN "unavailable"
                        ELSE IF settings.registration = "closed" THEN "closed"
                        ELSE "looking")
    /\ UNCHANGED <<requestVars, accounts>>

\* get_user_by_username: 409, or on to create_user.
LookUp(r) ==
    /\ phase = "up"
    /\ Moves(r, "looking", IF name[r] \in Users THEN "taken" ELSE "free")
    /\ UNCHANGED <<requestVars, accounts, name>>

\* Mutant: usernames are not unique, the later account takes the name.
InsertAnyway(r) ==
    accounts' = [accounts EXCEPT ![name[r]] = r]

\* The unique constraint of users decides what an INSERT does.
InsertUser(r) ==
    accounts' = IF name[r] \in Users THEN accounts ELSE [accounts EXCEPT ![name[r]] = r]

\* create_user: 201 with the session cookie of the new account; a name taken
\* since the query is an UniqueViolationError that nothing catches, a 500.
CreateUser(r) ==
    /\ phase = "up"
    /\ Moves(r, "free", IF name[r] \in Users THEN "error" ELSE "created")
    /\ InsertUser(r)
    /\ UNCHANGED <<requestVars, name>>

\* The connection fails: 500, and a statement that was sent may land.
RegisterFails(r) ==
    /\ phase = "up" /\ spent.faults < MaxFaults /\ Spend("faults")
    /\ Moves(r, "looking", "error") \/ Moves(r, "free", "adrift")
    /\ UNCHANGED <<phase, env, diskVars, settings, provider, startup, stage, candidate,
                   historyVars, db, boot, accounts, orphans, name, lateVars, interrupted>>

Land(r) ==
    /\ Moves(r, "adrift", "error")
    /\ InsertUser(r)
    /\ UNCHANGED <<requestVars, name>>

\* PUT /system/settings passes require_admin, which reads the users table.
RequestUpdate(wanted) ==
    /\ db /\ Admins # {}
    /\ StartUpdate(wanted)
    /\ UNCHANGED <<db, accountVars>>

-----------------------------------------------------------------------------
\* The process is stopped or killed; what it had sent may still land.
Stop ==
    /\ LoseProcess
    /\ db' = FALSE
    /\ reg' = [r \in Request |-> IF reg[r] = "looking" THEN "error"
                                 ELSE IF reg[r] = "free" THEN "adrift" ELSE reg[r]]
    /\ BootstrapEnds
    /\ UNCHANGED <<boot, accounts, name, late>>

Start ==
    \/ EditCredentials \/ OpenDatabase \/ CountUsers \/ CreateAdmin
    \/ AdoptReceipts \/ AdoptImages \/ StartFails

Serve ==
    \/ \E r \in Request : \/ \E n \in Name : Register(r, n)
                          \/ LookUp(r) \/ CreateUser(r) \/ RegisterFails(r) \/ Land(r)
    \/ \E wanted \in Wanted : RequestUpdate(wanted)

Next ==
    \/ SettingsStep /\ UNCHANGED <<db, accountVars>>
    \/ Start \/ Serve \/ Stop
    \/ \E n \in Name : LandAdmin(n)

Spec == Init /\ [][Next]_serverVars

-----------------------------------------------------------------------------
(* Properties.                                                              *)

Starting == {"counting", "creatingAdmin", "adoptingReceipts", "adoptingImages"}
Phase == {"down", "creating", "loaded", "built", "up"} \cup Starting
Answer == {"idle", "looking", "free", "adrift", "created", "taken", "closed", "error",
           "unavailable"}

\* The type invariant.
TypeOK ==
    /\ SettingsTypeOK
    /\ phase \in Phase
    /\ db \in BOOLEAN /\ interrupted \in BOOLEAN
    /\ boot \in Name \cup {NoOne}
    /\ accounts \in [Name -> Request \cup {Bootstrap, NoOne}]
    /\ orphans \subseteq {"receipts", "images"}
    /\ reg \in [Request -> Answer]
    /\ name \in [Request -> Name \cup {NoOne}]
    /\ sent \subseteq Name /\ late \subseteq Name

\* An answer 201 sets the cookie of the account the request itself created,
\* for good, however registrations, the bootstrap and statements that land
\* late interleave (register, create_user).
OneOwner == \A r \in Request : reg[r] = "created" => accounts[name[r]] = r

\* There is at most one administrator, whatever the operator writes into the
\* bootstrap credentials between starts (bootstrap_admin: the first admin on
\* an empty database), but for those whose INSERT lands when its bootstrap has
\* ended: a start between the two finds the table empty and may create an
\* admin under another name.
AtMostOneAdmin == \A m, n \in Admins \ late : m = n

\* A server that is up and has its first admin has no rows without an owner,
\* unless that start was cut off between the two or its admin landed late
\* (bootstrap_admin, which then never comes back to them).
OrphansAdopted == phase = "up" /\ Admins # {} /\ ~interrupted => orphans = {}

-----------------------------------------------------------------------------
(* What the properties rest on.                                             *)

\* The first admin is created under the name configured, in a table that was
\* empty: an admin there is by then has landed late, without its backfill.
AdminSound ==
    /\ phase = "creatingAdmin" => Admins \subseteq late /\ boot \in Name
    /\ late # {} => interrupted

\* How far the rows without an owner are, once there is an admin.
OrphanSound ==
    Admins # {} /\ ~interrupted =>
        \/ phase = "adoptingReceipts"
        \/ phase = "adoptingImages" /\ orphans \subseteq {"images"}
        \/ orphans = {}

NameSound == \A r \in Request : reg[r] # "idle" => name[r] \in Name

IInv ==
    /\ TypeOK /\ SettingsInv /\ AdminSound /\ OrphanSound /\ NameSound
    /\ OneOwner /\ AtMostOneAdmin
=============================================================================
