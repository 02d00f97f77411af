------------------------------ MODULE Settings ------------------------------
(* The settings of one server process (config.py, api/system/main.py,       *)
(* provider/factory.py): where they are loaded from, how an administrator's *)
(* change reaches the YAML file, the process and the live LLM provider, and *)
(* what survives a stop between any two of these steps.                     *)
(*                                                                          *)
(* update_settings never awaits, so no other handler runs while `stage` is  *)
(* not "none"; only the death of the process and an edit of the environment *)
(* by its operator fall between the steps.  The field model_name is left    *)
(* out: it is loaded, locked, written and applied as temperature is, but    *)
(* the provider keeps no copy of it.                                        *)
EXTENDS Integers, FiniteSets

CONSTANTS
    Ollama,         \* the default of llm.provider
    Providers,      \* LLMProviderEnum
    Supported,      \* those get_llm_provider can build
    Hosts,          \* values of llm.host
    Temperatures,   \* values of llm.temperature
    Wanted,         \* what administrators submit
    Environments,   \* what the operator puts into environment and dotenv files
    NotSet,         \* a name that environment and dotenv files do not have
    Nothing,        \* no file, no provider, no candidate
    Torn,           \* a file that is being written
    MaxStarts, MaxEdits, MaxUpdates, MaxFaults   \* bounds of the runs

Fields == {"provider", "host", "temperature", "registration"}

\* LLMSettings and AuthSettings.allow_registration, fully resolved.
Complete == [provider : Providers, host : Hosts, temperature : Temperatures,
             registration : {"open", "closed"}]

\* The names of EDITABLE_ENV_KEYS in the environment and the dotenv files.
Environment == [provider : Providers \cup {NotSet}, host : Hosts \cup {NotSet},
                temperature : Temperatures \cup {NotSet},
                registration : {"open", "closed", NotSet}]

\* What get_llm_provider builds, as far as the settings go.
Built == [kind : Supported, host : Hosts, temperature : Temperatures]

\* What mark_startup_settings records.
Identity == [provider : Providers, host : Hosts]

ASSUME ValueAssumption ==
    /\ Ollama \in Supported /\ Supported \subseteq Providers
    /\ Wanted \subseteq Complete /\ Environments \subseteq Environment
    /\ NotSet \notin Providers \cup Hosts \cup Temperatures \cup {"open", "closed"}
    /\ {Nothing, Torn} \cap Complete = {} /\ Nothing # Torn
    /\ Nothing \notin Built \cup Identity

ASSUME BoundAssumption ==
    {MaxStarts, MaxEdits, MaxUpdates, MaxFaults} \subseteq Nat

VARIABLES
    phase,      \* how far the process has come: "down", "creating", ..., "up"
    env,        \* environment variables and dotenv files
    file,       \* config.yaml
    temporary,  \* .config.yaml.tmp
    settings,   \* the module-level Settings of the process
    provider,   \* the LLM provider of the process, with its own temperature
    startup,    \* _startup_llm_identity
    stage,      \* the step of write_config_file or update_settings under way
    candidate,  \* what it writes
    loaded,     \* history: the environment as the process loaded it
    promised,   \* history: the settings the last successful PUT answered
    attempted,  \* history: candidates of processes that died, since then
    spent       \* what is used of the bounds

settingsVars == <<phase, env, file, temporary, settings, provider, startup, stage,
                  candidate, loaded, promised, attempted, spent>>
diskVars == <<file, temporary>>
historyVars == <<loaded, promised, attempted>>

Spend(what) == spent' = [spent EXCEPT ![what] = @ + 1]

SettingsInit ==
    /\ phase = "down"
    /\ env \in Environments
    /\ file = Nothing /\ temporary = Nothing
    /\ settings = Nothing /\ provider = Nothing /\ startup = Nothing
    /\ stage = "none" /\ candidate = Nothing
    /\ loaded = Nothing /\ promised = Nothing /\ attempted = {}
    /\ spent = [starts |-> 0, edits |-> 0, updates |-> 0, faults |-> 0]

-----------------------------------------------------------------------------
(* Loading.                                                                 *)

\* The operator edits a dotenv file, at any time, or the environment of the
\* next start.
EditEnvironment ==
    /\ spent.edits < MaxEdits /\ Spend("edits")
    /\ env' \in Environments \ {env}
    /\ UNCHANGED <<phase, diskVars, settings, provider, startup, stage, candidate, historyVars>>

Default == [provider |-> Ollama, host |-> NotSet, temperature |-> NotSet,
            registration |-> "open"]

\* settings_customise_sources: environment and dotenv files, then YAML.
Resolved ==
    [f \in Fields |-> IF env[f] # NotSet THEN env[f]
                      ELSE IF file # Nothing THEN file[f] ELSE Default[f]]

\* Mutant: the file is written at every start.
LoadRewrites ==
    /\ phase = "down" /\ spent.starts < MaxStarts
    /\ \A f \in Fields : Resolved[f] # NotSet
    /\ Spend("starts")
    /\ settings' = Resolved /\ loaded' = env
    /\ provider' = Nothing /\ startup' = Nothing
    /\ phase' = "creating" /\ stage' = "open" /\ candidate' = Resolved
    /\ UNCHANGED <<env, diskVars, promised, attempted>>

\* Settings(), which raises when a required field has no value, and
\* initialize_config_file, which returns when the file is there.
Load ==
    /\ phase = "down" /\ spent.starts < MaxStarts
    /\ \A f \in Fields : Resolved[f] # NotSet
    /\ Spend("starts")
    /\ settings' = Resolved /\ loaded' = env
    /\ provider' = Nothing /\ startup' = Nothing
    /\ IF file = Nothing
       THEN phase' = "creating" /\ stage' = "open" /\ candidate' = Resolved
       ELSE phase' = "loaded" /\ stage' = "none" /\ candidate' = Nothing
    /\ UNCHANGED <<env, diskVars, promised, attempted>>

\* mark_startup_settings and get_llm_provider, whose ValueError ends the start.
BuildProvider ==
    /\ phase = "loaded"
    /\ startup' = [provider |-> settings.provider, host |-> settings.host]
    /\ IF settings.provider \in Supported
       THEN /\ provider' = [kind |-> settings.provider, host |-> settings.host,
                            temperature |-> settings.temperature]
            /\ phase' = "built"
       ELSE UNCHANGED provider /\ phase' = "down"
    /\ UNCHANGED <<env, diskVars, settings, stage, candidate, historyVars, spent>>

-----------------------------------------------------------------------------
(* Changing them: update_settings and write_config_file.                    *)

\* The fields that editable_setting_sources finds in the environment now and
\* the request would change.
LockedChanges(wanted) == {f \in Fields : env[f] # NotSet /\ wanted[f] # settings[f]}

\* Mutant: the candidate shares its llm and auth sections with the settings.
StartUpdateShallow(wanted) ==
    /\ phase = "up" /\ stage = "none" /\ spent.updates < MaxUpdates
    /\ LockedChanges(wanted) = {}
    /\ Spend("updates")
    /\ stage' = "open" /\ candidate' = wanted /\ settings' = wanted
    /\ UNCHANGED <<phase, env, diskVars, provider, startup, historyVars>>

\* A deep copy of the settings with the wanted values; a request with locked
\* changes is answered 409 and changes nothing.
StartUpdate(wanted) ==
    /\ phase = "up" /\ stage = "none" /\ spent.updates < MaxUpdates
    /\ LockedChanges(wanted) = {}
    /\ Spend("updates")
    /\ stage' = "open" /\ candidate' = wanted
    /\ UNCHANGED <<phase, env, diskVars, settings, provider, startup, historyVars>>

\* Mutant: config.yaml is written in place.
OpenInPlace ==
    /\ stage = "open" /\ stage' = "dump"
    /\ temporary' = Torn /\ file' = Torn
    /\ UNCHANGED <<phase, env, settings, provider, startup, candidate, historyVars, spent>>

\* open("w") truncates the temporary file.
OpenTemporary ==
    /\ stage = "open" /\ stage' = "dump"
    /\ temporary' = Torn
    /\ UNCHANGED <<phase, env, file, settings, provider, startup, candidate, historyVars, spent>>

\* yaml.safe_dump and chmod.
DumpSettings ==
    /\ stage = "dump" /\ stage' = "replace"
    /\ temporary' = candidate
    /\ UNCHANGED <<phase, env, file, settings, provider, startup, candidate, historyVars, spent>>

\* Path.replace, after which a start goes on and an update applies.
ReplaceFile ==
    /\ stage = "replace"
    /\ file' = temporary /\ temporary' = Nothing
    /\ IF phase = "creating"
       THEN phase' = "loaded" /\ stage' = "none" /\ candidate' = Nothing
       ELSE stage' = "apply" /\ UNCHANGED <<phase, candidate>>
    /\ UNCHANGED <<env, settings, provider, startup, historyVars, spent>>

\* OSError: logged by initialize_config_file, answered 503 by update_settings.
WriteFails ==
    /\ stage \in {"open", "dump", "replace"}
    /\ spent.faults < MaxFaults /\ Spend("faults")
    /\ stage' = "none" /\ candidate' = Nothing
    /\ phase' = IF phase = "creating" THEN "loaded" ELSE phase
    /\ UNCHANGED <<env, diskVars, settings, provider, startup, historyVars>>

\* The assignments after the write, the live provider's temperature, and 200.
ApplySettings ==
    /\ stage = "apply"
    /\ settings' = candidate
    /\ provider' = [provider EXCEPT !.temperature = candidate.temperature]
    /\ stage' = "none" /\ candidate' = Nothing
    /\ promised' = candidate /\ attempted' = {}
    /\ UNCHANGED <<phase, env, diskVars, startup, loaded, spent>>

\* The process ends: what is on disk stays.
LoseProcess ==
    /\ phase # "down" /\ phase' = "down"
    /\ settings' = Nothing /\ provider' = Nothing /\ startup' = Nothing
    /\ stage' = "none" /\ candidate' = Nothing
    /\ attempted' = IF phase = "up" /\ stage # "none" THEN attempted \cup {candidate}
                    ELSE attempted
    /\ UNCHANGED <<env, diskVars, loaded, promised, spent>>

SettingsStep ==
    \/ EditEnvironment \/ Load \/ BuildProvider
    \/ OpenTemporary \/ DumpSettings \/ ReplaceFile \/ WriteFails \/ ApplySettings

\* runtime_restart_required, shown to the administrator.
RestartRequired ==
    startup # Nothing
    /\ startup # [provider |-> settings.provider, host |-> settings.host]

-----------------------------------------------------------------------------
(* Properties.                                                              *)

SettingsTypeOK ==
    /\ env \in Environments
    /\ file \in Complete \cup {Nothing} /\ temporary \in Complete \cup {Nothing, Torn}
    /\ settings \in Complete \cup {Nothing} /\ candidate \in Complete \cup {Nothing}
    /\ provider \in Built \cup {Nothing}
    /\ startup \in Identity \cup {Nothing}
    /\ stage \in {"none", "open", "dump", "replace", "apply"}
    /\ loaded \in Environments \cup {Nothing}
    /\ promised \in Complete \cup {Nothing} /\ attempted \subseteq Complete
    /\ spent \in [starts : 0..MaxStarts, edits : 0..MaxEdits,
                  updates : 0..MaxUpdates, faults : 0..MaxFaults]

\* While no update is under way, the process runs with what the file says, or
\* with what its environment said when it started; the provider answers at the
\* temperature of the settings, and the administrator is told to restart just
\* when the live provider is another one than the settings name
\* (update_settings after a failed write, mark_startup_settings).
SettingsAgree ==
    phase = "up" /\ stage = "none" =>
        /\ file # Nothing => \A f \in Fields : settings[f] \in {file[f], loaded[f]}
        /\ provider.temperature = settings.temperature
        /\ RestartRequired <=> <<provider.kind, provider.host>>
                                 # <<settings.provider, settings.host>>

\* A start finds what the last successful PUT answered, but for the fields the
\* environment holds now; only an update whose process died unanswered may
\* stand in its place, and then as a whole (write_config_file is atomic, and
\* initialize_config_file leaves a file alone).
PutIsDurable ==
    [][phase = "down" /\ phase' # "down" /\ promised # Nothing =>
        \E s \in {promised} \cup attempted :
            \A f \in Fields : env[f] = NotSet => settings'[f] = s[f]]_settingsVars

-----------------------------------------------------------------------------
(* What the properties rest on.                                             *)

\* Where a write can be under way, and what it works on.
StageSound ==
    /\ stage # "none" => candidate \in Complete /\ phase \in {"creating", "up"}
    /\ phase = "creating" => /\ file = Nothing /\ candidate = settings
                             /\ stage \in {"open", "dump", "replace"}
    /\ stage = "replace" => temporary = candidate
    /\ stage = "apply" => file = candidate

\* The process has settings, and once it is built, their provider.
ProcessSound ==
    /\ phase # "down" => settings \in Complete /\ loaded \in Environments
    /\ phase \notin {"down", "creating", "loaded"} =>
        /\ provider # Nothing /\ provider.temperature = settings.temperature
        /\ startup = [provider |-> provider.kind, host |-> provider.host]

FileSound ==
    phase # "down" /\ stage # "apply" /\ file # Nothing =>
        \A f \in Fields : settings[f] \in {file[f], loaded[f]}

\* What the file holds when something is promised.
PromiseSound ==
    promised # Nothing =>
        file \in {promised} \cup attempted \cup (IF stage = "apply" THEN {candidate} ELSE {})

SettingsInv ==
    SettingsTypeOK /\ StageSound /\ ProcessSound /\ FileSound /\ PromiseSound
=============================================================================
