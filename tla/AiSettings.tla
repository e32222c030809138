---- MODULE AiSettings ----
(***************************************************************************)
(* The AI settings of one agency (ai-settings.service.ts) and the calls    *)
(* made with them (ai.service.ts, the providers).  A stored key is known   *)
(* by the secret it is encrypted with and by whether it is blank.  The     *)
(* configuration is read at every call and changes only when the process   *)
(* is started again.                                                       *)
(***************************************************************************)
EXTENDS Common

CONSTANTS
    Models,
    ModelsOf,           \* the models each provider serves
    ConfiguredModel,    \* GEMINI_MODEL and AI_DEMO_MODEL, or their defaults
    Environments,       \* environments the process may be started with
    Secrets,            \* values of AI_SETTINGS_ENCRYPTION_KEY or JWT_SECRET
    AiPatches           \* concurrent PATCH requests

Providers == {"gemini", "demo"}
\* AI_PROVIDER is not checked: "other" is a provider the application does not have.
Configurable == Providers \cup {"other"}

VARIABLES
    aiSettings,     \* the row of agency_ai_settings, or None
    aiPatch,        \* the PATCH requests under way
    config          \* the environment the process runs with

aiVars == <<aiSettings, aiPatch, config>>

\* getEncryptionKey: without a secret, a fixed one.
DevSecret == "development-only-ai-settings-secret"
Key == [secret : Secrets \cup {DevSecret}, blank : BOOLEAN]
AiRow ==
    [provider : Configurable, model : Models \cup {None}, key : Key \cup {None}]
AiPatch == [row : AiRow, insert : BOOLEAN, fits : BOOLEAN]
\* In production the process does not start without JWT_SECRET.
Config ==
    {c \in [production : BOOLEAN, provider : Configurable, \* AI_PROVIDER
            envKey : BOOLEAN,                              \* GEMINI_API_KEY
            secret : Secrets \cup {None}] :
        c.production => c.secret # None}

ASSUME AiAssumption ==
    /\ ModelsOf \in [Providers -> SUBSET Models]
    /\ ConfiguredModel \in [Providers -> Models]
    /\ \A p \in Providers : ConfiguredModel[p] \in ModelsOf[p]
    /\ Environments \subseteq Config
    /\ None \notin Models \cup Secrets \cup {DevSecret, "blank"} \cup Key \cup AiRow \cup AiPatch
    /\ "blank" \notin Models

AiTypeOK ==
    /\ aiSettings \in AiRow \cup {None}
    /\ aiPatch \in [AiPatches -> AiPatch \cup {None}]
    /\ config \in Config

AiInit ==
    /\ aiSettings = None
    /\ aiPatch = [p \in AiPatches |-> None]
    /\ config \in Environments

-----------------------------------------------------------------------------
(* What a reader of the row makes of it.                                    *)

DemoAvailable == ~config.production
AvailableProvider(p) == IF p = "demo" /\ ~DemoAvailable THEN "gemini" ELSE p
DefaultProvider == AvailableProvider(config.provider)

CurrentProvider ==
    IF aiSettings = None THEN DefaultProvider ELSE AvailableProvider(aiSettings.provider)

DefaultModel(p) == ConfiguredModel[IF p = "demo" THEN "demo" ELSE "gemini"]
\* The model stored counts only for the provider stored.
StoredModel(p) ==       \* wrong: whatever the provider
    IF aiSettings = None \/ aiSettings.model = None
    THEN DefaultModel(p) ELSE aiSettings.model
CurrentModel(p) ==
    IF aiSettings # None /\ aiSettings.provider = p /\ aiSettings.model # None
    THEN aiSettings.model ELSE DefaultModel(p)

HasKey == aiSettings # None /\ aiSettings.key # None
PublicSettings ==
    [provider |-> CurrentProvider, model |-> CurrentModel(CurrentProvider),
     configured |-> HasKey \/ config.envKey]

EncryptionSecret == IF config.secret = None THEN DevSecret ELSE config.secret
Decryptable == HasKey => aiSettings.key.secret = EncryptionSecret

\* A blank key decrypts to nothing, which getApiKey takes for no key.
BlankKey == HasKey /\ aiSettings.key.blank
RuntimeSettings ==
    [provider |-> CurrentProvider, model |-> CurrentModel(CurrentProvider),
     key |-> HasKey /\ ~BlankKey]

\* resolveProvider and isConfigured: generateTextForAgency goes out to the provider.
NeedsRowKey(s) == s.provider = "demo" \/ s.key      \* wrong: the key of the environment is not tried
IsConfigured(s) == s.provider = "demo" \/ s.key \/ config.envKey
CallGoesOut(s) ==
    s.provider \in Providers /\ (s.provider = "demo" => DemoAvailable) /\ IsConfigured(s)
\* listModelsForAgency, for the provider of the settings.
ModelsListed(s) ==
    \/ s.provider = "demo" /\ DemoAvailable
    \/ s.provider = "gemini" /\ (s.key \/ config.envKey)

-----------------------------------------------------------------------------
(* updateSettings.                                                          *)

NewRow == [provider |-> DefaultProvider, model |-> None, key |-> None]
HeldRow == IF aiSettings = None THEN NewRow ELSE aiSettings

\* A request gives a provider and a model or not, and keeps, clears or sets the key.
\* What it gives is trimmed after it was found long enough, so that a model or a key
\* of blanks is stored as an empty one: an empty model is no model.
GivenModels == Models \cup {None, "blank"}
GivenKeys == {"keep", "clear", "set", "blank"}
AsGiven(row, provider, model, key) ==      \* wrong: what a request leaves out becomes null
    [row EXCEPT !.provider = provider, !.model = model]
Patched(row, provider, model, key) ==
    [provider |-> IF provider = None THEN row.provider ELSE provider,
     model |-> CASE model = None -> row.model
                 [] model = "blank" -> None
                 [] OTHER -> model,
     key |-> CASE key = "keep" -> row.key
               [] key = "clear" -> None
               [] OTHER -> [secret |-> EncryptionSecret, blank |-> key = "blank"]]

\* History: the request gives a model of the provider it gives, or a blank one,
\* or neither.
Fits(provider, model) ==
    \/ provider = None /\ model = None
    \/ model = "blank"
    \/ provider # None /\ model \in ModelsOf[provider]

PatchSettings(p, provider, model, key) ==
    /\ aiPatch[p] = None
    /\ provider = "demo" => DemoAvailable
    /\ aiPatch' = [aiPatch EXCEPT ![p] =
         [row |-> Patched(HeldRow, provider, model, key), insert |-> aiSettings = None,
          fits |-> Fits(provider, model)]]
    /\ UNCHANGED <<aiSettings, config>>

\* The index on the agency refuses a second row; the row is never removed.
PatchSettingsSave(p) ==
    /\ aiPatch[p] # None
    /\ aiSettings' = IF aiPatch[p].insert /\ aiSettings # None
                     THEN aiSettings ELSE aiPatch[p].row
    /\ aiPatch' = [aiPatch EXCEPT ![p] = None]
    /\ UNCHANGED config

\* Stopped, and started with another environment.
AiRestart ==
    /\ config' \in Environments
    /\ aiPatch' = [p \in AiPatches |-> None]
    /\ UNCHANGED aiSettings

AiNext ==
    \/ \E p \in AiPatches :
         \/ \E provider \in Providers \cup {None}, model \in GivenModels, key \in GivenKeys :
               PatchSettings(p, provider, model, key)
         \/ PatchSettingsSave(p)
    \/ AiRestart

AiSpec == AiInit /\ [][AiNext]_aiVars

-----------------------------------------------------------------------------
(* Properties.                                                             *)

\* What the settings page says is what a call finds, whatever was stored before the
\* process was started again with another environment.  An agency whose calls go out
\* is shown as ready (configured, or free of a key), and its models are listed; one
\* shown as ready whose calls are refused holds a key encrypted with another secret,
\* or a blank key without one of the environment beside it, or the provider of an
\* AI_PROVIDER the application does not have.
Ready == PublicSettings.provider = "demo" \/ PublicSettings.configured
Accepted == Decryptable /\ CallGoesOut(RuntimeSettings)
ShownIsAccepted ==
    /\ Accepted => Ready
    /\ Accepted <=> Decryptable /\ ModelsListed(RuntimeSettings)
    /\ Ready /\ ~Accepted =>
         \/ ~Decryptable
         \/ BlankKey /\ ~config.envKey
         \/ CurrentProvider \notin Providers

\* A provider is called with a model it serves, and in production never with the
\* model of the demo, as long as a request that gives a provider or a model
\* gives both, and they fit, or leaves the model blank.
RequestsFit == \A p \in AiPatches : aiPatch[p] # None => aiPatch[p].fits
ModelFits ==
    RuntimeSettings.provider \in Providers =>
        RuntimeSettings.model \in ModelsOf[RuntimeSettings.provider]
FittingRequestsFit == []RequestsFit => []ModelFits
====
