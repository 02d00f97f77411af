---------------------------- MODULE Server_proofs ----------------------------
(***************************************************************************)
(* Theorems about Server, for any values of the settings, any environments *)
(* and submissions, any requests and names and any bounds.                 *)
(***************************************************************************)
EXTENDS Server, TLAPS

USE ValueAssumption, BoundAssumption, AccountAssumption
    DEF ValueAssumption, BoundAssumption, AccountAssumption

-----------------------------------------------------------------------------
(* The settings: each step keeps SettingsInv.                               *)

LEMMA SpendTypes ==
    ASSUME SettingsTypeOK, NEW what \in {"starts", "edits", "updates", "faults"},
           what = "starts" => spent.starts < MaxStarts,
           what = "edits" => spent.edits < MaxEdits,
           what = "updates" => spent.updates < MaxUpdates,
           what = "faults" => spent.faults < MaxFaults,
           Spend(what)
    PROVE  spent' \in [starts : 0..MaxStarts, edits : 0..MaxEdits,
                       updates : 0..MaxUpdates, faults : 0..MaxFaults]
BY DEF SettingsTypeOK, Spend

LEMMA ResolvedIsComplete ==
    ASSUME env \in Environments, file \in Complete \cup {Nothing},
           \A f \in Fields : Resolved[f] # NotSet
    PROVE  Resolved \in Complete
<1>1. env \in Environment
  BY ValueAssumption
<1>2. Resolved["provider"] \in Providers
  BY <1>1, ValueAssumption DEF Resolved, Fields, Environment, Complete, Default
<1>3. Resolved["host"] \in Hosts
  BY <1>1, ValueAssumption DEF Resolved, Fields, Environment, Complete, Default
<1>4. Resolved["temperature"] \in Temperatures
  BY <1>1, ValueAssumption DEF Resolved, Fields, Environment, Complete, Default
<1>5. Resolved["registration"] \in {"open", "closed"}
  BY <1>1, ValueAssumption DEF Resolved, Fields, Environment, Complete, Default
<1>6. Resolved = [f \in Fields |-> Resolved[f]]
  BY DEF Resolved
<1>7. Resolved = [provider |-> Resolved["provider"], host |-> Resolved["host"],
                  temperature |-> Resolved["temperature"],
                  registration |-> Resolved["registration"]]
  BY <1>6 DEF Fields
<1> QED
  BY <1>2, <1>3, <1>4, <1>5, <1>7 DEF Complete

\* An edit of the environment disturbs nothing the process has loaded.
LEMMA EditEnvironmentInv ==
    ASSUME SettingsInv, EditEnvironment PROVE SettingsInv'
<1> USE DEF SettingsInv, EditEnvironment, diskVars, historyVars
<1>1. SettingsTypeOK'
  BY SpendTypes DEF SettingsTypeOK
<1>2. StageSound' /\ ProcessSound' /\ FileSound' /\ PromiseSound'
  BY DEF StageSound, ProcessSound, FileSound, PromiseSound
<1> QED
  BY <1>1, <1>2

LEMMA LoadInv ==
    ASSUME SettingsInv, Load PROVE SettingsInv'
<1> USE DEF SettingsInv, Load, diskVars
<1>1. Resolved \in Complete
  BY ResolvedIsComplete DEF SettingsTypeOK
<1>2. SettingsTypeOK'
  BY <1>1, SpendTypes DEF SettingsTypeOK
<1>3. StageSound' /\ ProcessSound'
  BY <1>1 DEF StageSound, ProcessSound, SettingsTypeOK
<1>4. FileSound'
  BY DEF FileSound, Resolved
<1>5. PromiseSound'
  BY DEF PromiseSound, StageSound
<1> QED
  BY <1>2, <1>3, <1>4, <1>5

LEMMA BuildProviderInv ==
    ASSUME SettingsInv, BuildProvider PROVE SettingsInv'
<1> USE DEF SettingsInv, BuildProvider, diskVars, historyVars
<1>1. settings \in Complete
  BY DEF ProcessSound
<1>2. SettingsTypeOK'
  BY <1>1 DEF SettingsTypeOK, Complete, Built, Identity
<1>3. StageSound' /\ FileSound' /\ PromiseSound'
  BY DEF StageSound, FileSound, PromiseSound
<1>4. ProcessSound'
  <2>1. CASE phase' = "down"
    BY <2>1, <1>1 DEF ProcessSound
  <2>2. CASE phase' = "built"
    <3>1. provider' \in Built
      BY <2>2, <1>1 DEF Built, Complete
    <3> QED
      BY <2>2, <3>1, <1>1 DEF ProcessSound
  <2> QED
    BY <2>1, <2>2
<1> QED
  BY <1>2, <1>3, <1>4

LEMMA StartUpdateInv ==
    ASSUME SettingsInv, NEW wanted \in Wanted, StartUpdate(wanted) PROVE SettingsInv'
<1> USE DEF SettingsInv, StartUpdate, diskVars, historyVars
<1>1. SettingsTypeOK'
  BY SpendTypes DEF SettingsTypeOK
<1>2. StageSound' /\ ProcessSound' /\ FileSound' /\ PromiseSound'
  BY DEF StageSound, ProcessSound, FileSound, PromiseSound
<1> QED
  BY <1>1, <1>2

LEMMA WriteInv ==
    ASSUME SettingsInv, OpenTemporary \/ DumpSettings PROVE SettingsInv'
<1> USE DEF SettingsInv, OpenTemporary, DumpSettings, historyVars
<1>1. SettingsTypeOK'
  BY DEF SettingsTypeOK
<1>2. StageSound' /\ ProcessSound' /\ FileSound' /\ PromiseSound'
  BY DEF StageSound, ProcessSound, FileSound, PromiseSound
<1> QED
  BY <1>1, <1>2

\* The temporary file is whole, so is the file it becomes.
LEMMA ReplaceFileInv ==
    ASSUME SettingsInv, ReplaceFile PROVE SettingsInv'
<1> USE DEF SettingsInv, ReplaceFile, historyVars
<1>1. temporary = candidate /\ candidate \in Complete
  BY DEF StageSound
<1>2. SettingsTypeOK'
  BY <1>1 DEF SettingsTypeOK
<1>3. StageSound' /\ ProcessSound'
  BY <1>1 DEF StageSound, ProcessSound
<1>4. FileSound'
  BY <1>1 DEF FileSound, StageSound
<1>5. PromiseSound'
  <2>1. phase = "creating" => promised = Nothing
    BY DEF PromiseSound, StageSound, SettingsTypeOK
  <2> QED
    BY <1>1, <2>1 DEF PromiseSound
<1> QED
  BY <1>2, <1>3, <1>4, <1>5

LEMMA WriteFailsInv ==
    ASSUME SettingsInv, WriteFails PROVE SettingsInv'
<1> USE DEF SettingsInv, WriteFails, diskVars, historyVars
<1>1. SettingsTypeOK'
  BY SpendTypes DEF SettingsTypeOK
<1>2. StageSound' /\ ProcessSound' /\ FileSound' /\ PromiseSound'
  BY DEF StageSound, ProcessSound, FileSound, PromiseSound
<1> QED
  BY <1>1, <1>2

LEMMA ApplySettingsInv ==
    ASSUME SettingsInv, ApplySettings PROVE SettingsInv'
<1> USE DEF SettingsInv, ApplySettings, diskVars
<1>1. phase = "up" /\ file = candidate /\ candidate \in Complete
  BY DEF StageSound
<1>2. provider \in Built
  BY <1>1 DEF ProcessSound, SettingsTypeOK
<1>3. SettingsTypeOK'
  BY <1>1, <1>2 DEF SettingsTypeOK, Complete, Built, Identity
<1>4. StageSound' /\ FileSound' /\ PromiseSound'
  BY <1>1 DEF StageSound, FileSound, PromiseSound
<1>5. ProcessSound'
  <2>1. provider' \in Built /\ provider'.temperature = candidate.temperature
    BY <1>1, <1>2 DEF Built, Complete
  <2>2. provider'.kind = provider.kind /\ provider'.host = provider.host
    BY <1>2 DEF Built
  <2> QED
    BY <1>1, <2>1, <2>2 DEF ProcessSound
<1> QED
  BY <1>3, <1>4, <1>5

LEMMA LoseProcessInv ==
    ASSUME SettingsInv, LoseProcess PROVE SettingsInv'
<1> USE DEF SettingsInv, LoseProcess, diskVars
<1>1. SettingsTypeOK'
  BY DEF SettingsTypeOK, StageSound
<1>2. StageSound' /\ ProcessSound' /\ FileSound' /\ PromiseSound'
  BY DEF StageSound, ProcessSound, FileSound, PromiseSound
<1> QED
  BY <1>1, <1>2

LEMMA SettingsStepInv ==
    ASSUME SettingsInv, SettingsStep PROVE SettingsInv'
BY EditEnvironmentInv, LoadInv, BuildProviderInv, WriteInv, ReplaceFileInv, WriteFailsInv,
   ApplySettingsInv DEF SettingsStep

\* The later phases of a start have all of the settings behind them.
LEMMA LaterPhaseInv ==
    ASSUME SettingsInv, UNCHANGED <<env, diskVars, settings, provider, startup, stage,
                                    candidate, historyVars>>,
           spent' \in [starts : 0..MaxStarts, edits : 0..MaxEdits,
                       updates : 0..MaxUpdates, faults : 0..MaxFaults],
           phase \in {"built"} \cup Starting, phase' \in {"up"} \cup Starting
    PROVE  SettingsInv'
<1> USE DEF SettingsInv, diskVars, historyVars, Starting
<1>1. SettingsTypeOK'
  BY DEF SettingsTypeOK
<1>2. StageSound' /\ ProcessSound' /\ FileSound' /\ PromiseSound'
  BY DEF StageSound, ProcessSound, FileSound, PromiseSound
<1> QED
  BY <1>1, <1>2
\* Nor does a step that leaves the settings alone disturb them.
LEMMA SamePhaseInv ==
    ASSUME SettingsInv, UNCHANGED <<env, diskVars, settings, provider, startup, stage,
                                    candidate, historyVars>>,
           spent' \in [starts : 0..MaxStarts, edits : 0..MaxEdits,
                       updates : 0..MaxUpdates, faults : 0..MaxFaults],
           phase' = phase
    PROVE  SettingsInv'
<1> USE DEF SettingsInv, diskVars, historyVars
<1>1. SettingsTypeOK'
  BY DEF SettingsTypeOK
<1>2. StageSound' /\ ProcessSound' /\ FileSound' /\ PromiseSound'
  BY DEF StageSound, ProcessSound, FileSound, PromiseSound
<1> QED
  BY <1>1, <1>2

-----------------------------------------------------------------------------
(* The server: each step keeps IInv.                                        *)

LEMMA InitInv == Init => IInv
<1> SUFFICES ASSUME Init PROVE IInv
  OBVIOUS
<1> USE DEF Init, SettingsInit
<1>1. SettingsTypeOK
  BY DEF SettingsTypeOK
<1>2. SettingsInv
  BY <1>1 DEF SettingsInv, StageSound, ProcessSound, FileSound, PromiseSound
<1>3. TypeOK
  BY <1>1 DEF TypeOK, Phase, Answer
<1>4. AdminSound /\ OrphanSound /\ NameSound /\ OneOwner /\ AtMostOneAdmin
  BY DEF AdminSound, OrphanSound, NameSound, OneOwner, AtMostOneAdmin, Admins
<1> QED
  BY <1>2, <1>3, <1>4 DEF IInv

LEMMA SettingsPart == ASSUME IInv, [Next]_serverVars PROVE SettingsInv'
<1> DEFINE Kept == UNCHANGED <<env, diskVars, settings, provider, startup, stage,
                               candidate, historyVars>>
           Spent == [starts : 0..MaxStarts, edits : 0..MaxEdits,
                     updates : 0..MaxUpdates, faults : 0..MaxFaults]
<1>0. SettingsInv /\ SettingsTypeOK /\ phase \in Phase /\ spent \in Spent
  BY DEF IInv, TypeOK, SettingsTypeOK
<1>1. CASE SettingsStep
  BY <1>0, <1>1, SettingsStepInv
<1>2. CASE EditCredentials
  <2>1. Kept /\ phase' = phase /\ spent' \in Spent
    BY <1>0, <1>2, SpendTypes DEF EditCredentials
  <2> QED
    BY <1>0, <2>1, SamePhaseInv
<1>3. CASE OpenDatabase \/ CountUsers \/ CreateAdmin \/ AdoptReceipts \/ AdoptImages
  <2>1. Kept /\ spent' = spent
    BY <1>3 DEF OpenDatabase, CountUsers, CreateAdmin, AdoptReceipts, AdoptImages, startVars
  <2>2. phase \in {"built"} \cup Starting /\ phase' \in {"up"} \cup Starting
    BY <1>3 DEF OpenDatabase, CountUsers, CreateAdmin, AdoptReceipts, AdoptImages, Starting
  <2> QED
    BY <1>0, <2>1, <2>2, LaterPhaseInv
<1>4. CASE StartFails
  <2>1. Kept /\ spent' \in Spent
    BY <1>0, <1>4, SpendTypes DEF StartFails, startVars
  <2>2. phase \in {"built"} \cup Starting /\ phase' = "up"
    BY <1>4 DEF StartFails, Adopting, Starting
  <2> QED
    BY <1>0, <2>1, <2>2, LaterPhaseInv
<1>5. CASE UNCHANGED settingsVars
  <2>1. Kept /\ phase' = phase /\ spent' = spent
    BY <1>5 DEF settingsVars, diskVars, historyVars
  <2> QED
    BY <1>0, <2>1, SamePhaseInv
<1>6. ASSUME NEW r \in Request, RegisterFails(r) PROVE SettingsInv'
  <2>1. Kept /\ phase' = phase /\ spent' \in Spent
    BY <1>0, <1>6, SpendTypes DEF RegisterFails
  <2> QED
    BY <1>0, <2>1, SamePhaseInv
<1>7. ASSUME NEW wanted \in Wanted, RequestUpdate(wanted) PROVE SettingsInv'
  BY <1>0, <1>7, StartUpdateInv DEF RequestUpdate
<1>8. CASE Stop
  BY <1>0, <1>8, LoseProcessInv DEF Stop
<1>9. ASSUME NEW r \in Request, NEW n \in Name, Register(r, n) PROVE UNCHANGED settingsVars
  BY <1>9 DEF Register, requestVars
<1>10. ASSUME NEW r \in Request, LookUp(r) \/ CreateUser(r) \/ Land(r)
       PROVE  UNCHANGED settingsVars
  BY <1>10 DEF LookUp, CreateUser, Land, requestVars
<1>11. CASE UNCHANGED serverVars
  BY <1>5, <1>11 DEF serverVars
<1>12. ASSUME NEW n \in Name, LandAdmin(n) PROVE UNCHANGED settingsVars
  BY <1>12 DEF LandAdmin
<1> QED
  BY <1>1, <1>2, <1>3, <1>4, <1>5, <1>6, <1>7, <1>8, <1>9, <1>10, <1>11, <1>12
  DEF Next, Start, Serve

\* What the steps of the settings do to the phase: they never enter or leave
\* one of the bootstrap's.
LEMMA SettingsPhases ==
    ASSUME SettingsInv, phase \in Phase, SettingsStep
    PROVE  /\ phase' \in Phase
           /\ phase' \in Starting <=> phase \in Starting
           /\ phase \in Starting => phase' = phase
<1> USE DEF Phase, Starting
<1>1. CASE EditEnvironment \/ OpenTemporary \/ DumpSettings \/ ApplySettings
  BY <1>1 DEF EditEnvironment, OpenTemporary, DumpSettings, ApplySettings
<1>2. CASE Load \/ BuildProvider
  BY <1>2 DEF Load, BuildProvider
<1>3. CASE ReplaceFile \/ WriteFails
  BY <1>3 DEF ReplaceFile, WriteFails
<1> QED
  BY <1>1, <1>2, <1>3 DEF SettingsStep

LEMMA TypeStep == ASSUME IInv, [Next]_serverVars PROVE TypeOK'
<1>0. TypeOK /\ SettingsInv /\ SettingsTypeOK'
  BY SettingsPart DEF IInv, SettingsInv
<1> USE <1>0 DEF TypeOK
<1>1. CASE SettingsStep /\ UNCHANGED <<db, accountVars>>
  BY <1>1, SettingsPhases DEF accountVars, lateVars
<1>2. CASE EditCredentials
  BY <1>2 DEF EditCredentials, lateVars
<1>3. ASSUME BootstrapEnds, phase = "creatingAdmin" => boot \in Name
      PROVE  /\ sent' \subseteq Name /\ interrupted' \in BOOLEAN
             /\ orphans' \subseteq {"receipts", "images"}
  BY <1>3 DEF BootstrapEnds, Adopting
<1>10. phase = "creatingAdmin" => boot \in Name
  BY DEF IInv, AdminSound
<1>11. CASE StartFails
  BY <1>3, <1>10, <1>11 DEF StartFails, startVars, Phase
<1>12. CASE Start
  BY <1>2, <1>11, <1>12 DEF Start, OpenDatabase, CountUsers, CreateAdmin, AdoptReceipts,
     AdoptImages, startVars, Phase, Starting
<1>13. ASSUME NEW n \in Name, LandAdmin(n) PROVE TypeOK'
  BY <1>13 DEF LandAdmin, settingsVars
<1>4. ASSUME NEW r \in Request, NEW n \in Name, Register(r, n) PROVE TypeOK'
  BY <1>4 DEF Register, Moves, requestVars, settingsVars, lateVars, Answer
<1>5. ASSUME NEW r \in Request, InsertUser(r)
      PROVE  accounts' \in [Name -> Request \cup {Bootstrap, NoOne}]
  BY <1>5 DEF InsertUser
<1>6. ASSUME NEW r \in Request, LookUp(r) \/ CreateUser(r) \/ RegisterFails(r) \/ Land(r)
      PROVE  TypeOK'
  <2>1. accounts' \in [Name -> Request \cup {Bootstrap, NoOne}]
    BY <1>5, <1>6 DEF LookUp, CreateUser, RegisterFails, Land
  <2>2. reg' \in [Request -> Answer]
    BY <1>6 DEF LookUp, CreateUser, RegisterFails, Land, Moves, Answer
  <2> QED
    BY <1>6, <2>1, <2>2
    DEF LookUp, CreateUser, RegisterFails, Land, requestVars, settingsVars, lateVars
<1>7. ASSUME NEW wanted \in Wanted, RequestUpdate(wanted) PROVE TypeOK'
  BY <1>7 DEF RequestUpdate, StartUpdate, accountVars, lateVars
<1>8. CASE Stop
  <2>1. reg' \in [Request -> Answer]
    BY <1>8 DEF Stop, Answer
  <2>2. phase' = "down"
    BY <1>8 DEF Stop, LoseProcess
  <2> QED
    BY <1>3, <1>8, <1>10, <2>1, <2>2 DEF Stop, Phase
<1>9. CASE UNCHANGED serverVars
  BY <1>9 DEF serverVars, settingsVars, accountVars, lateVars
<1> QED
  BY <1>1, <1>4, <1>6, <1>7, <1>8, <1>9, <1>12, <1>13 DEF Next, Serve

\* Accounts are only added: by the request of their name, by the bootstrap, or
\* by an INSERT that outlived its bootstrap.
LEMMA AccountStep ==
    ASSUME IInv, [Next]_serverVars
    PROVE  \/ accounts' = accounts
           \/ \E r \in Request : /\ reg[r] \in {"free", "adrift"} /\ name[r] \in Name \ Users
                                 /\ accounts' = [accounts EXCEPT ![name[r]] = r]
           \/ /\ CreateAdmin /\ boot \in Name \ Users
              /\ accounts' = [accounts EXCEPT ![boot] = Bootstrap]
           \/ \E n \in Name \ Users : LandAdmin(n) /\ accounts' = [accounts EXCEPT ![n] = Bootstrap]
<1>1. CASE SettingsStep /\ UNCHANGED <<db, accountVars>>
  BY <1>1 DEF accountVars
<1>2. CASE EditCredentials \/ OpenDatabase \/ CountUsers \/ AdoptReceipts \/ AdoptImages
           \/ StartFails
  BY <1>2 DEF EditCredentials, OpenDatabase, CountUsers, AdoptReceipts, AdoptImages, StartFails
<1>3. CASE CreateAdmin
  BY <1>3 DEF CreateAdmin, IInv, AdminSound, Users
<1>4. ASSUME NEW r \in Request, CreateUser(r) \/ Land(r) PROVE
          \/ accounts' = accounts
          \/ /\ reg[r] \in {"free", "adrift"} /\ name[r] \in Name \ Users
             /\ accounts' = [accounts EXCEPT ![name[r]] = r]
  BY <1>4 DEF CreateUser, Land, InsertUser, Moves, IInv, NameSound
<1>5. ASSUME NEW r \in Request, NEW n \in Name, Register(r, n) PROVE accounts' = accounts
  BY <1>5 DEF Register
<1>6. ASSUME NEW r \in Request, LookUp(r) \/ RegisterFails(r) PROVE accounts' = accounts
  BY <1>6 DEF LookUp, RegisterFails
<1>7. ASSUME NEW wanted \in Wanted, RequestUpdate(wanted) PROVE accounts' = accounts
  BY <1>7 DEF RequestUpdate, accountVars
<1>8. CASE Stop \/ UNCHANGED serverVars
  BY <1>8 DEF Stop, serverVars, accountVars
<1>9. ASSUME NEW n \in Name, LandAdmin(n)
      PROVE  \/ accounts' = accounts
             \/ n \in Name \ Users /\ accounts' = [accounts EXCEPT ![n] = Bootstrap]
  BY <1>9 DEF LandAdmin
<1> QED
  BY <1>1, <1>2, <1>3, <1>4, <1>5, <1>6, <1>7, <1>8, <1>9 DEF Next, Start, Serve

LEMMA NameStep == ASSUME IInv, [Next]_serverVars PROVE NameSound'
<1>0. NameSound /\ TypeOK
  BY DEF IInv
<1> USE <1>0 DEF NameSound, TypeOK
<1>1. CASE UNCHANGED <<reg, name>>
  BY <1>1
<1>2. ASSUME NEW r \in Request, NEW n \in Name, Register(r, n) PROVE NameSound'
  BY <1>2 DEF Register, Moves
<1>3. ASSUME NEW r \in Request, LookUp(r) \/ CreateUser(r) \/ RegisterFails(r) \/ Land(r)
      PROVE  NameSound'
  BY <1>3 DEF LookUp, CreateUser, RegisterFails, Land, Moves
<1>4. CASE Stop
  BY <1>4 DEF Stop
<1>5. CASE Start
  BY <1>1, <1>5 DEF Start, EditCredentials, OpenDatabase, CountUsers, CreateAdmin,
     AdoptReceipts, AdoptImages, StartFails, startVars
<1>6. CASE (SettingsStep /\ UNCHANGED <<db, accountVars>>) \/ UNCHANGED serverVars
  BY <1>1, <1>6 DEF accountVars, serverVars
<1>7. ASSUME NEW wanted \in Wanted, RequestUpdate(wanted) PROVE NameSound'
  BY <1>1, <1>7 DEF RequestUpdate, accountVars
<1>8. ASSUME NEW n \in Name, LandAdmin(n) PROVE NameSound'
  BY <1>1, <1>8 DEF LandAdmin
<1> QED
  BY <1>2, <1>3, <1>4, <1>5, <1>6, <1>7, <1>8 DEF Next, Serve

LEMMA OwnerStep == ASSUME IInv, [Next]_serverVars PROVE OneOwner'
<1>0. OneOwner /\ NameSound /\ TypeOK
  BY DEF IInv
<1>1. \A r \in Request : reg[r] = "created" =>
          accounts'[name[r]] = accounts[name[r]]
  BY <1>0, AccountStep DEF OneOwner, NameSound, TypeOK, Users
<1>2. \A r \in Request : reg'[r] = "created" /\ reg[r] = "created" => name'[r] = name[r]
  BY <1>0 DEF TypeOK, Next, Start, Serve, SettingsStep, EditCredentials, OpenDatabase,
     CountUsers, CreateAdmin, AdoptReceipts, AdoptImages, StartFails, startVars, Register,
     LookUp, CreateUser, RegisterFails, Land, Moves, RequestUpdate, Stop, LandAdmin, serverVars,
     accountVars
<1>3. \A r \in Request : reg'[r] = "created" /\ reg[r] # "created" =>
          accounts'[name'[r]] = r
  <2> SUFFICES ASSUME NEW r \in Request, reg'[r] = "created", reg[r] # "created"
               PROVE  accounts'[name'[r]] = r
    OBVIOUS
  <2>1. CreateUser(r)
    BY <1>0 DEF TypeOK, Next, Start, Serve, SettingsStep, EditCredentials, OpenDatabase,
       CountUsers, CreateAdmin, AdoptReceipts, AdoptImages, StartFails, startVars, Register,
       LookUp, CreateUser, RegisterFails, Land, Moves, RequestUpdate, Stop, LandAdmin,
       serverVars, accountVars
  <2> QED
    BY <1>0, <2>1 DEF CreateUser, InsertUser, Moves, NameSound, TypeOK, Users
<1> QED
  <2> SUFFICES ASSUME NEW r \in Request, reg'[r] = "created" PROVE accounts'[name'[r]] = r
    BY DEF OneOwner
  <2>1. CASE reg[r] = "created"
    BY <1>0, <1>1, <1>2, <2>1 DEF OneOwner
  <2>2. CASE reg[r] # "created"
    BY <1>3, <2>2
  <2> QED
    BY <2>1, <2>2

\* An account of the bootstrap is new only in the step of CreateAdmin, or it
\* has landed late and is in `late` from then on.
LEMMA AdminsGrow ==
    ASSUME IInv, [Next]_serverVars
    PROVE  \/ Admins' = Admins /\ late' = late
           \/ CreateAdmin /\ Admins' = Admins \cup {boot} /\ late' = late
           \/ \E n \in Name : LandAdmin(n) /\ Admins' = Admins \cup {n} /\ late' = late \cup {n}
<1>0. TypeOK
  BY DEF IInv
<1>1. ASSUME NEW r \in Request, name[r] \in Name \ Users,
             accounts' = [accounts EXCEPT ![name[r]] = r]
      PROVE  Admins' = Admins
  BY <1>0, <1>1 DEF Admins, Users, TypeOK
<1>2. ASSUME NEW n \in Name, accounts' = [accounts EXCEPT ![n] = Bootstrap]
      PROVE  Admins' = Admins \cup {n}
  BY <1>0, <1>2 DEF Admins, TypeOK
<1>3. ASSUME NEW n \in Name, LandAdmin(n)
      PROVE  \/ Admins' = Admins /\ late' = late
             \/ Admins' = Admins \cup {n} /\ late' = late \cup {n}
  BY <1>2, <1>3 DEF LandAdmin, Admins
<1>4. CASE \A n \in Name : ~LandAdmin(n)
  <2>1. late' = late
    BY <1>4 DEF Next, Start, Serve, EditCredentials, OpenDatabase, CountUsers, CreateAdmin,
       AdoptReceipts, AdoptImages, StartFails, startVars, Register, LookUp, CreateUser,
       RegisterFails, Land, requestVars, RequestUpdate, Stop, serverVars, accountVars, lateVars
  <2>2. \/ Admins' = Admins
        \/ CreateAdmin /\ Admins' = Admins \cup {boot}
    BY <1>1, <1>2, <1>4, AccountStep DEF Admins
  <2> QED
    BY <2>1, <2>2
<1> QED
  BY <1>3, <1>4

\* A step into the phase of the first admin is the one that has counted nobody.
LEMMA EnterCreating ==
    ASSUME IInv, [Next]_serverVars, phase' = "creatingAdmin", phase # "creatingAdmin"
    PROVE  CountUsers /\ Users = {} /\ boot \in Name /\ boot' = boot
<1>0. SettingsInv /\ phase \in Phase /\ TypeOK
  BY DEF IInv, TypeOK
<1>1. ~(SettingsStep /\ UNCHANGED <<db, accountVars>>)
  BY <1>0, SettingsPhases DEF Starting
<1>2. CountUsers
  BY <1>0, <1>1 DEF Next, Start, Serve, EditCredentials, OpenDatabase, CreateAdmin,
     AdoptReceipts, AdoptImages, StartFails, Register, LookUp, CreateUser, RegisterFails,
     Land, requestVars, RequestUpdate, StartUpdate, Stop, LoseProcess, LandAdmin, serverVars,
     settingsVars
<1> QED
  BY <1>0, <1>2 DEF CountUsers, TypeOK, startVars

\* The users are counted in the phase before, and nobody but the bootstrap
\* makes admins.
LEMMA AdminStep == ASSUME IInv, [Next]_serverVars PROVE AdminSound' /\ AtMostOneAdmin'
<1>0. AdminSound /\ AtMostOneAdmin /\ TypeOK
  BY DEF IInv
<1>1. AtMostOneAdmin'
  <2>1. CASE CreateAdmin /\ Admins' = Admins \cup {boot} /\ late' = late
    <3>1. Admins \subseteq late
      BY <1>0, <2>1 DEF CreateAdmin, AdminSound
    <3> QED
      BY <2>1, <3>1 DEF AtMostOneAdmin
  <2>2. CASE ~(CreateAdmin /\ Admins' = Admins \cup {boot} /\ late' = late)
    <3>1. Admins' \ late' \subseteq Admins \ late
      BY <2>2, AdminsGrow
    <3> QED
      BY <1>0, <3>1 DEF AtMostOneAdmin
  <2> QED
    BY <2>1, <2>2
<1>2. ASSUME phase' = "creatingAdmin" PROVE Admins' \subseteq late' /\ boot' \in Name
  <2>1. ~CreateAdmin
    BY <1>2 DEF CreateAdmin
  <2>2. Admins \subseteq late => Admins' \subseteq late'
    BY <2>1, AdminsGrow
  <2>3. CASE phase = "creatingAdmin"
    <3>1. boot' = boot
      BY <2>3 DEF Next, Start, Serve, EditCredentials, OpenDatabase, CountUsers, CreateAdmin,
         AdoptReceipts, AdoptImages, StartFails, startVars, Register, LookUp, CreateUser,
         RegisterFails, Land, requestVars, RequestUpdate, Stop, LandAdmin, serverVars, accountVars
    <3> QED
      BY <1>0, <2>2, <2>3, <3>1 DEF AdminSound
  <2>4. CASE phase # "creatingAdmin"
    <3>1. Users = {} /\ boot \in Name /\ boot' = boot
      BY <1>2, <2>4, EnterCreating
    <3>2. Admins = {}
      BY <1>0, <3>1 DEF Users, Admins
    <3> QED
      BY <2>2, <3>1, <3>2
  <2> QED
    BY <2>3, <2>4
<1>3. late' # {} => interrupted'
  <2>1. interrupted => interrupted'
    BY <1>0 DEF TypeOK, Next, Start, Serve, EditCredentials, OpenDatabase, CountUsers,
       CreateAdmin, AdoptReceipts, AdoptImages, StartFails, BootstrapEnds, Register, LookUp,
       CreateUser, RegisterFails, Land, requestVars, RequestUpdate, Stop, LandAdmin, serverVars,
       accountVars
  <2>2. late' = late \/ interrupted'
    BY AdminsGrow DEF LandAdmin
  <2> QED
    BY <1>0, <2>1, <2>2 DEF AdminSound
<1> QED
  BY <1>1, <1>2, <1>3 DEF AdminSound

LEMMA OrphanStep == ASSUME IInv, [Next]_serverVars PROVE OrphanSound'
<1>0. OrphanSound /\ SettingsInv /\ phase \in Phase /\ TypeOK /\ AdminSound
  BY DEF IInv, TypeOK
<1>1. CASE CreateAdmin
  <2>1. CASE accounts[boot] = NoOne
    BY <1>1, <2>1 DEF CreateAdmin, OrphanSound
  <2>2. CASE accounts[boot] # NoOne
    <3>1. Admins \subseteq late /\ Admins' = Admins /\ interrupted' = interrupted
      BY <1>0, <1>1, <2>2 DEF CreateAdmin, Admins, AdminSound
    <3>2. Admins # {} => interrupted
      BY <1>0, <3>1 DEF AdminSound
    <3> QED
      BY <3>1, <3>2 DEF OrphanSound
  <2> QED
    BY <2>1, <2>2
<1>2. ASSUME NEW n \in Name, LandAdmin(n) PROVE OrphanSound'
  <2>1. CASE n \in Users
    <3>1. Admins' = Admins
      BY <1>2, <2>1 DEF LandAdmin, Admins
    <3> QED
      BY <1>0, <1>2, <2>1, <3>1 DEF LandAdmin, OrphanSound, settingsVars
  <2>2. CASE n \notin Users
    BY <1>2, <2>2 DEF LandAdmin, OrphanSound
  <2> QED
    BY <2>1, <2>2
<1>3. CASE ~CreateAdmin /\ \A n \in Name : ~LandAdmin(n)
  <2>1. Admins' = Admins
    BY <1>3, AdminsGrow
  <2>2. CASE AdoptReceipts \/ AdoptImages
    BY <1>0, <2>1, <2>2 DEF AdoptReceipts, AdoptImages, OrphanSound, TypeOK
  <2>3. CASE BootstrapEnds
    BY <1>0, <2>1, <2>3 DEF BootstrapEnds, Adopting, OrphanSound
  <2>4. CASE SettingsStep /\ UNCHANGED <<db, accountVars>>
    BY <1>0, <2>1, <2>4, SettingsPhases DEF OrphanSound, Starting, accountVars
  <2>5. CASE EditCredentials \/ OpenDatabase \/ CountUsers
    BY <1>0, <2>1, <2>5 DEF EditCredentials, OpenDatabase, CountUsers, OrphanSound
  <2>6. CASE Serve \/ UNCHANGED serverVars
    BY <1>0, <2>1, <2>6 DEF Serve, Register, LookUp, CreateUser, RegisterFails, Land,
       requestVars, settingsVars, RequestUpdate, StartUpdate, accountVars, serverVars, OrphanSound
  <2> QED
    BY <1>3, <2>2, <2>3, <2>4, <2>5, <2>6 DEF Next, Start, StartFails, Stop
<1> QED
  BY <1>1, <1>2, <1>3

-----------------------------------------------------------------------------
(* The theorems.                                                            *)

\* Every step of the server keeps the inductive invariant (config.py,
\* update_settings, bootstrap_admin, register).
THEOREM Invariance == Spec => []IInv
<1>1. IInv /\ [Next]_serverVars => IInv'
  BY SettingsPart, TypeStep, AdminStep, OrphanStep, NameStep, OwnerStep DEF IInv
<1> QED
  BY <1>1, InitInv, PTL DEF Spec

\* The type invariant: in particular config.yaml is never half written
\* (write_config_file).
THEOREM TypeCorrect == Spec => []TypeOK
<1>1. IInv => TypeOK
  BY DEF IInv
<1> QED
  BY <1>1, Invariance, PTL

\* File, process and provider agree between two updates, and the restart hint
\* is right (update_settings, runtime_restart_required).
THEOREM Agreement == Spec => []SettingsAgree
<1>1. IInv => SettingsAgree
  <2> SUFFICES ASSUME IInv, phase = "up", stage = "none"
               PROVE  /\ file # Nothing =>
                             \A f \in Fields : settings[f] \in {file[f], loaded[f]}
                      /\ provider.temperature = settings.temperature
                      /\ RestartRequired <=> <<provider.kind, provider.host>>
                                               # <<settings.provider, settings.host>>
    BY DEF SettingsAgree
  <2>1. FileSound /\ ProcessSound /\ SettingsTypeOK
    BY DEF IInv, SettingsInv
  <2>2. provider \in Built /\ settings \in Complete
    BY <2>1 DEF ProcessSound, SettingsTypeOK
  <2>3. startup = [provider |-> provider.kind, host |-> provider.host] /\ startup # Nothing
    BY <2>1, <2>2 DEF ProcessSound, Built, Identity
  <2> QED
    BY <2>1, <2>3 DEF FileSound, ProcessSound, RestartRequired
<1> QED
  BY <1>1, Invariance, PTL

\* Who is answered 201 owns the account of the name (register).
THEOREM Ownership == Spec => []OneOwner
<1>1. IInv => OneOwner
  BY DEF IInv
<1> QED
  BY <1>1, Invariance, PTL

\* There is never a second administrator, but for those whose INSERT lands
\* when its bootstrap has ended (bootstrap_admin).
THEOREM SingleAdmin == Spec => []AtMostOneAdmin
<1>1. IInv => AtMostOneAdmin
  BY DEF IInv
<1> QED
  BY <1>1, Invariance, PTL

\* The first admin of an uninterrupted start has every row without an owner
\* (bootstrap_admin, set_owner_of_orphan_rows).
THEOREM Adoption == Spec => []OrphansAdopted
<1>1. IInv => OrphansAdopted
  BY DEF IInv, OrphanSound, OrphansAdopted
<1> QED
  BY <1>1, Invariance, PTL

\* What a PUT answered is what the next start finds (write_config_file, Load).
THEOREM Durability == Spec => PutIsDurable
<1> DEFINE Durable == phase = "down" /\ phase' # "down" /\ promised # Nothing =>
        \E s \in {promised} \cup attempted :
            \A f \in Fields : env[f] = NotSet => settings'[f] = s[f]
<1>1. ASSUME IInv, [Next]_serverVars PROVE Durable
  <2> SUFFICES ASSUME phase = "down", phase' # "down", promised # Nothing
               PROVE  \E s \in {promised} \cup attempted :
                          \A f \in Fields : env[f] = NotSet => settings'[f] = s[f]
    OBVIOUS
  <2>1. PromiseSound /\ StageSound /\ SettingsTypeOK
    BY <1>1 DEF IInv, SettingsInv
  <2>2. Load
    <3>1. stage = "none"
      BY <2>1 DEF StageSound, SettingsTypeOK
    <3>2. CASE SettingsStep
      BY <3>1, <3>2 DEF SettingsStep, EditEnvironment, BuildProvider, OpenTemporary,
         DumpSettings, ReplaceFile, WriteFails, ApplySettings
    <3>3. ~Start
      BY DEF Start, EditCredentials, OpenDatabase, CountUsers, CreateAdmin, AdoptReceipts,
         AdoptImages, StartFails, Adopting
    <3>4. ~Serve
      BY DEF Serve, Register, LookUp, CreateUser, RegisterFails, Land, requestVars,
         settingsVars, RequestUpdate, StartUpdate
    <3> QED
      BY <1>1, <3>2, <3>3, <3>4 DEF Next, Stop, LoseProcess, LandAdmin, serverVars, settingsVars
  <2>3. file \in {promised} \cup attempted /\ file \in Complete
    BY <2>1 DEF PromiseSound, StageSound, SettingsTypeOK
  <2>4. \A f \in Fields : env[f] = NotSet => settings'[f] = file[f]
    BY <2>2, <2>3 DEF Load, Resolved
  <2> QED
    BY <2>3, <2>4
<1>2. IInv /\ [Next]_serverVars => [Durable]_settingsVars
  BY <1>1
<1>3. PutIsDurable <=> [][Durable]_settingsVars
  BY DEF PutIsDurable
<1> QED
  BY <1>2, <1>3, Invariance, PTL DEF Spec
=============================================================================
