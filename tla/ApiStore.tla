------------------------------- MODULE ApiStore -------------------------------
(***************************************************************************)
(* The custom resources as clients see them: two served versions, v1alpha1  *)
(* and v1beta1 (the one stored), the conversions between them, and the      *)
(* validating webhooks, which with the default matchPolicy Equivalent judge *)
(* a write through either version.  A write is one step: the API server     *)
(* runs admission and the conversion to storage against the object it then  *)
(* replaces.  The Strategy and TradeBotConfig reconcilers, and the TradeBot *)
(* reconciler's writes of its finalizer, act on what is stored.             *)
(* An optional section of a spec is a set with at most one element.         *)
(***************************************************************************)
EXTENDS Naturals, FiniteSets

CONSTANTS
    Payloads,   \* contents that every conversion carries over unchanged
    MaxWrites   \* bound on what users write and delete

ASSUME StoreAssumption == Payloads # {} /\ MaxWrites \in Nat

Optional(S) == {s \in SUBSET S : \A x, y \in s : x = y}
Refs == {"", "s"}
Names == {"b1", "b2"}

AlphaBots == [command: {"", "trade", "backtesting"}, arguments: {"none", "ok", "denied"},
              data: {"none", "set"}, interval: {"none", "short"}, app: Payloads]
BetaBots == [state: {"Running", "Stopped"}, interval: {"none", "short"}, app: Payloads]

\* The fields of a section that are set, the credentials and references apart.
ExchangeFields == {"name", "account_id", "ccxt_config", "ccxt_async_config", "ccxt_sync_config",
                   "whitelist", "blacklist", "log_responses", "enable_ws", "outdated_offset",
                   "market_refresh_interval"}
ServerFields == {"enabled", "listen_ip_address", "listen_port", "verbosity", "enable_openapi",
                 "username", "cors_origins"}
NotificationFields == {"enabled", "balance_dust_level", "reload", "allow_custom_messages",
                       "chat_id", "topic_id", "authorized_users", "settings", "webhook", "discord"}
SimpleSections == {"ai", "data", "advanced", "timeout", "internals", "pairlist",
                   "pairlist_method", "entry_pricing", "exit_pricing", "order",
                   "risk_management", "experimental", "logging"}

\* plain: a plaintext credential is set, one of the six of an exchange, one of the
\* two of the API server, or Telegram's token.
AlphaExchanges == [secretRef: Refs, plain: BOOLEAN, unkownFeeRate: Payloads,
                   fields: SUBSET ExchangeFields]
BetaExchanges == [secretRef: Refs, unknownFeeRate: Payloads, fields: SUBSET ExchangeFields]
AlphaServers == [secretRef: Refs, plain: BOOLEAN, fields: SUBSET ServerFields]
BetaServers == [secretRef: Refs, fields: SUBSET ServerFields]
AlphaNotifications == [secretRef: Refs, plain: BOOLEAN, fields: SUBSET NotificationFields]
BetaNotifications == [secretRef: Refs, fields: SUBSET NotificationFields]
DryRuns == {"unset", "true", "false"}
AlphaConfigs == [dryRun: DryRuns, simple: SUBSET SimpleSections,
                 exchange: Optional(AlphaExchanges), apiServer: Optional(AlphaServers),
                 notification: Optional(AlphaNotifications)]
BetaConfigs == [dryRun: DryRuns, simple: SUBSET SimpleSections,
                exchange: Optional(BetaExchanges), apiServer: Optional(BetaServers),
                notification: Optional(BetaNotifications)]

\* A Strategy's name and script, as far as the validator tells them apart.
Scripts == [name: {"", "class", "1class"}, script: {"", "complete", "incomplete"}]

\* A reference is a bare name in v1alpha1 and an object with a name in v1beta1.
FreqUIFields == {"host", "tls", "ingressAnnotations", "app", "gateway"}
Exposures == {"Ingress", "Gateway", "None"}
AlphaFreqUIs == [refs: SUBSET Names, exposure: Exposures, fields: SUBSET FreqUIFields]
BetaFreqUIs == [refs: SUBSET [name: Names], exposure: Exposures, fields: SUBSET FreqUIFields]

VARIABLES
    bot,        \* the TradeBot stored, and its metadata
    config,     \* the TradeBotConfig
    strategy,   \* the Strategy
    frequi,     \* the FreqUI
    secret,     \* the Secret that refs name: absent, or with a known key or without
    due,        \* reconciles due: "config", "strategy"
    last,       \* the last write of a spec and its answer
    writes

vars == <<bot, config, strategy, frequi, secret, due, last, writes>>

NoSpec == [kind |-> "none", version |-> "v1beta1", ok |-> TRUE, object |-> {}]
Phases == {"", "Valid", "Invalid"}

TypeOK ==
    /\ bot \in [spec: Optional(BetaBots), deleting: BOOLEAN, finalizer: BOOLEAN]
    /\ config \in [spec: Optional(BetaConfigs), phase: Phases]
    /\ strategy \in [spec: Optional(Scripts), phase: Phases]
    /\ frequi \in Optional(BetaFreqUIs)
    /\ secret \in {"absent", "keys", "other"}
    /\ due \subseteq {"config", "strategy"}
    /\ last.kind \in {"none", "bot", "config", "strategy", "frequi"}
    /\ last.version \in {"v1alpha1", "v1beta1"} /\ last.ok \in BOOLEAN
    /\ writes \in 0..MaxWrites

Maybe(S) == {{}} \cup {{x} : x \in S}

\* What earlier writes can have left behind, the reconcilers at rest.
Init ==
    /\ \E p \in Payloads :
         /\ bot \in [spec: Maybe([state: {"Running", "Stopped"}, interval: {"none"}, app: {p}]),
                     deleting: {FALSE}, finalizer: BOOLEAN]
         /\ config \in [spec: Maybe([dryRun: {"false"}, simple: {{}}, apiServer: {{}},
                                     notification: {{}},
                                     exchange: {{[secretRef |-> "s", unknownFeeRate |-> p,
                                                  fields |-> {"name"}]}}]),
                        phase: {"", "Valid"}]
    /\ config.phase = (IF config.spec = {} THEN "" ELSE "Valid")
    /\ bot.finalizer => bot.spec # {}
    /\ strategy = [spec |-> {[name |-> "class", script |-> "complete"]}, phase |-> "Valid"]
    /\ frequi = {}
    /\ secret \in {"absent", "keys", "other"}
    /\ due = {}
    /\ last = NoSpec /\ writes = 0

-------------------------------------------------------------------------------
\* Conversions.  ConvertTo may refuse: the result is then the empty set.

\* The state is not in v1alpha1; what is stored gets the CRD's default.  The
\* arguments and the data settings have no v1beta1 field and are left behind,
\* without an error.
TradeBotConvertTo(a) ==
    IF a.command \notin {"", "trade"} THEN {}
    ELSE {[state |-> "Running", interval |-> a.interval, app |-> a.app]}

TradeBotConvertFrom(b) ==
    [command |-> "", arguments |-> "none", data |-> "none", interval |-> b.interval, app |-> b.app]

\* Mutant: the Telegram token is forgotten.
PlaintextWithoutTelegram(a) ==
    (IF \E e \in a.exchange : e.plain THEN {"exchange"} ELSE {}) \cup
    (IF \E s \in a.apiServer : s.plain THEN {"apiServer"} ELSE {})

plaintextCredentialFields(a) ==
    (IF \E e \in a.exchange : e.plain THEN {"exchange"} ELSE {}) \cup
    (IF \E s \in a.apiServer : s.plain THEN {"apiServer"} ELSE {}) \cup
    (IF \E t \in a.notification : t.plain THEN {"telegram"} ELSE {})

\* What is copied is listed field by field, as the code has it.
convertExchangeSpecToBeta(e) ==
    [secretRef |-> e.secretRef, unknownFeeRate |-> e.unkownFeeRate,
     fields |-> e.fields \cap {"name", "account_id", "ccxt_config", "ccxt_async_config",
                               "ccxt_sync_config", "log_responses", "enable_ws",
                               "outdated_offset", "market_refresh_interval",
                               "whitelist", "blacklist"}]
convertExchangeSpecFromBeta(e) ==
    [secretRef |-> e.secretRef, plain |-> FALSE, unkownFeeRate |-> e.unknownFeeRate,
     fields |-> e.fields \cap {"name", "account_id", "ccxt_config", "ccxt_async_config",
                               "ccxt_sync_config", "log_responses", "enable_ws",
                               "outdated_offset", "market_refresh_interval",
                               "whitelist", "blacklist"}]

\* spec.apiServer.
convertAPIServerToBeta(s) ==
    [secretRef |-> s.secretRef,
     fields |-> s.fields \cap {"enabled", "listen_ip_address", "listen_port", "verbosity",
                               "enable_openapi", "username", "cors_origins"}]
convertAPIServerFromBeta(s) ==
    [secretRef |-> s.secretRef, plain |-> FALSE,
     fields |-> s.fields \cap {"enabled", "listen_ip_address", "listen_port", "verbosity",
                               "enable_openapi", "username", "cors_origins"}]

convertNotificationSpecToBeta(t) ==
    [secretRef |-> t.secretRef,
     fields |-> t.fields \cap {"enabled", "balance_dust_level", "reload",
                               "allow_custom_messages", "chat_id", "topic_id",
                               "authorized_users", "settings", "webhook", "discord"}]
convertNotificationSpecFromBeta(t) ==
    [secretRef |-> t.secretRef, plain |-> FALSE,
     fields |-> t.fields \cap {"enabled", "balance_dust_level", "reload",
                               "allow_custom_messages", "chat_id", "topic_id",
                               "authorized_users", "settings", "webhook", "discord"}]

\* The sections that are the same in both versions.  spec.bot, which is one of
\* them, appears here through dry_run only.
convertSimpleSpecFieldsToBeta(a) ==
    a.simple \cap {"ai", "data", "advanced", "timeout", "internals", "pairlist",
                   "pairlist_method", "entry_pricing", "exit_pricing", "order",
                   "risk_management", "experimental", "logging"}
convertSimpleSpecFieldsFromBeta(b) ==
    b.simple \cap {"ai", "data", "advanced", "timeout", "internals", "pairlist",
                   "pairlist_method", "entry_pricing", "exit_pricing", "order",
                   "risk_management", "experimental", "logging"}

TradeBotConfigConvertTo(a) ==
    IF plaintextCredentialFields(a) # {} THEN {}
    ELSE {[dryRun |-> a.dryRun, simple |-> convertSimpleSpecFieldsToBeta(a),
           exchange |-> {convertExchangeSpecToBeta(e) : e \in a.exchange},
           apiServer |-> {convertAPIServerToBeta(s) : s \in a.apiServer},
           notification |-> {convertNotificationSpecToBeta(t) : t \in a.notification}]}

TradeBotConfigConvertFrom(b) ==
    [dryRun |-> b.dryRun, simple |-> convertSimpleSpecFieldsFromBeta(b),
     exchange |-> {convertExchangeSpecFromBeta(e) : e \in b.exchange},
     apiServer |-> {convertAPIServerFromBeta(s) : s \in b.apiServer},
     notification |-> {convertNotificationSpecFromBeta(t) : t \in b.notification}]

FreqUIConvertTo(f) ==
    [refs |-> {[name |-> n] : n \in f.refs}, exposure |-> f.exposure,
     fields |-> f.fields \cap {"host", "tls", "ingressAnnotations", "app", "gateway"}]
FreqUIConvertFrom(f) ==
    [refs |-> {r.name : r \in f.refs}, exposure |-> f.exposure,
     fields |-> f.fields \cap {"host", "tls", "ingressAnnotations", "app", "gateway"}]

StrategyConvertTo(s) == {s}
StrategyConvertFrom(s) == s

-------------------------------------------------------------------------------
\* Webhooks.

\* Mutant: no look at the stored state.
ValidateTradeBotUnguarded(a) ==
    /\ strategy.spec # {} /\ config.spec # {}
    /\ a.arguments # "denied" /\ a.interval # "short"

\* TradeBotCustomValidator.validate.  It is a v1alpha1 webhook: a v1beta1 write
\* reaches it converted, and the stored object's state decides in both cases.
ValidateTradeBot(a) ==
    /\ strategy.spec # {} /\ config.spec # {}
    /\ a.arguments # "denied" /\ a.interval # "short"
    /\ \A b \in bot.spec : b.state # "Stopped"

\* Mutant: an object being deleted is validated like any other.
ValidateTradeBotWriteAlways(a) == ValidateTradeBot(a)

\* ValidateCreate and ValidateUpdate: an object being deleted passes.
ValidateTradeBotWrite(a) == bot.deleting \/ ValidateTradeBot(a)

\* The v1alpha1 webhook of TradeBotConfig: plaintext credentials only with the
\* annotation.
ValidateAlphaConfig(a, annotated) == plaintextCredentialFields(a) = {} \/ annotated

\* Mutant: dry_run must be false, not merely unset, before a Secret is required.
ValidateBetaConfigUnset(b) ==
    \E e \in b.exchange :
        IF e.secretRef = "" THEN b.dryRun \in {"true", "unset"} ELSE secret = "keys"

\* The v1beta1 webhook: an exchange, a Secret unless dry_run is true, and the
\* Secret named must exist with a key the config builder knows.
ValidateBetaConfig(b) ==
    \E e \in b.exchange :
        IF e.secretRef = "" THEN b.dryRun = "true" ELSE secret = "keys"

ValidateStrategyScript(s) == s.script = "complete"
IsValidPythonClassName(name) == name = "class"

\* Mutant: any non-empty name.
ValidStrategyAnyName(s) == s.name # "" /\ s.script # "" /\ ValidateStrategyScript(s)

\* The webhook's check and, in controllers/strategy, the reconciler's.
validateStrategySpec(s) ==
    s.name # "" /\ s.script # "" /\ IsValidPythonClassName(s.name) /\ ValidateStrategyScript(s)
validateStrategy(s) ==
    s.name # "" /\ s.script # "" /\ IsValidPythonClassName(s.name) /\ ValidateStrategyScript(s)

-------------------------------------------------------------------------------
\* Writes.  stored is the set with the v1beta1 object that the write would store,
\* empty when the conversion refuses.

Write == writes < MaxWrites /\ writes' = writes + 1
Answered(kind, version, ok, object) ==
    last' = [kind |-> kind, version |-> version, ok |-> ok, object |-> object]

WriteTradeBot(version, object, alpha, stored) ==
    LET ok == stored # {} /\ ValidateTradeBotWrite(alpha)
    IN  /\ Write
        /\ Answered("bot", version, ok, {object})
        /\ bot' = IF ok THEN [bot EXCEPT !.spec = stored] ELSE bot
        /\ UNCHANGED <<config, strategy, frequi, secret, due>>

WriteTradeBotAlpha(a) == WriteTradeBot("v1alpha1", a, a, TradeBotConvertTo(a))
WriteTradeBotBeta(b) == WriteTradeBot("v1beta1", b, TradeBotConvertFrom(b), {b})

\* Both webhooks must agree.  A refused object is not kept.
WriteConfig(version, object, alpha, annotated, stored) ==
    LET ok == /\ stored # {} /\ ValidateAlphaConfig(alpha, annotated)
              /\ \A b \in stored : ValidateBetaConfig(b)
    IN  /\ Write
        /\ Answered("config", version, ok, IF ok THEN {object} ELSE {})
        /\ config' = IF ok THEN [config EXCEPT !.spec = stored] ELSE config
        /\ due' = IF ok THEN due \cup {"config"} ELSE due
        /\ UNCHANGED <<bot, strategy, frequi, secret>>

WriteConfigAlpha(a, annotated) ==
    WriteConfig("v1alpha1", a, a, annotated, TradeBotConfigConvertTo(a))
WriteConfigBeta(b) == WriteConfig("v1beta1", b, TradeBotConfigConvertFrom(b), FALSE, {b})

WriteStrategy(version, object, alpha, stored) ==
    LET ok == validateStrategySpec(alpha)
    IN  /\ Write
        /\ Answered("strategy", version, ok, IF ok THEN {object} ELSE {})
        /\ strategy' = IF ok THEN [strategy EXCEPT !.spec = stored] ELSE strategy
        /\ due' = IF ok THEN due \cup {"strategy"} ELSE due
        /\ UNCHANGED <<bot, config, frequi, secret>>

WriteStrategyAlpha(s) == WriteStrategy("v1alpha1", s, s, StrategyConvertTo(s))
WriteStrategyBeta(s) == WriteStrategy("v1beta1", s, StrategyConvertFrom(s), {s})

\* No webhook judges a FreqUI; the schema's rules do, and allow spec.gateway in
\* Gateway mode, where it is required and tls has no effect, and only there.
ValidFreqUI(f) ==
    /\ f.exposure = "Gateway" <=> "gateway" \in f.fields
    /\ f.exposure = "Gateway" => "tls" \notin f.fields

WriteFreqUI(version, object, stored) ==
    LET ok == ValidFreqUI(object)
    IN  /\ Write
        /\ Answered("frequi", version, ok, IF ok THEN {object} ELSE {})
        /\ frequi' = IF ok THEN {stored} ELSE frequi
        /\ UNCHANGED <<bot, config, strategy, secret, due>>

WriteFreqUIAlpha(f) == WriteFreqUI("v1alpha1", f, FreqUIConvertTo(f))
WriteFreqUIBeta(f) == WriteFreqUI("v1beta1", f, f)

\* Deletion is never refused; only a TradeBot may have a finalizer.
DeleteTradeBot ==
    /\ Write /\ bot.spec # {} /\ ~bot.deleting
    /\ bot' = IF bot.finalizer THEN [bot EXCEPT !.deleting = TRUE] ELSE [bot EXCEPT !.spec = {}]
    /\ UNCHANGED <<config, strategy, frequi, secret, due, last>>

DeleteConfig ==
    /\ Write /\ config.spec # {}
    /\ config' = [spec |-> {}, phase |-> ""]
    /\ UNCHANGED <<bot, strategy, frequi, secret, due, last>>

DeleteStrategy ==
    /\ Write /\ strategy.spec # {}
    /\ strategy' = [spec |-> {}, phase |-> ""]
    /\ UNCHANGED <<bot, config, frequi, secret, due, last>>

ChangeSecret(s) ==
    /\ Write /\ s # secret
    /\ secret' = s
    /\ UNCHANGED <<bot, config, strategy, frequi, due, last>>

\* The TradeBot reconciler updates the finalizer through v1beta1, and the
\* webhook judges that update too.
AddFinalizer ==
    /\ bot.spec # {} /\ ~bot.deleting /\ ~bot.finalizer
    /\ \A b \in bot.spec : ValidateTradeBotWrite(TradeBotConvertFrom(b))
    /\ bot' = [bot EXCEPT !.finalizer = TRUE]
    /\ UNCHANGED <<config, strategy, frequi, secret, due, last, writes>>

RemoveFinalizer ==
    /\ bot.deleting
    /\ \A b \in bot.spec : ValidateTradeBotWrite(TradeBotConvertFrom(b))
    /\ bot' = [spec |-> {}, deleting |-> FALSE, finalizer |-> FALSE]
    /\ UNCHANGED <<config, strategy, frequi, secret, due, last, writes>>

ReconcileStrategy ==
    /\ "strategy" \in due
    /\ due' = due \ {"strategy"}
    /\ strategy' = IF strategy.spec = {} THEN strategy
                   ELSE [strategy EXCEPT !.phase =
                           IF \A s \in strategy.spec : validateStrategy(s) THEN "Valid" ELSE "Invalid"]
    /\ UNCHANGED <<bot, config, frequi, secret, last, writes>>

\* Ready is unconditionally true: the webhooks have refused anything else.
ReconcileConfig ==
    /\ "config" \in due
    /\ due' = due \ {"config"}
    /\ config' = IF config.spec = {} THEN config ELSE [config EXCEPT !.phase = "Valid"]
    /\ UNCHANGED <<bot, strategy, frequi, secret, last, writes>>

\* The inputs tried: all of the plain fields or as few as there can be, one
\* section besides the exchange at a time, and there either a reference or a
\* plaintext credential.
Sized(c, all) ==
    /\ c.simple = IF all THEN SimpleSections ELSE {}
    /\ \A e \in c.exchange : e.fields = IF all THEN ExchangeFields ELSE {"name"}
    /\ \A s \in c.apiServer : s.fields = IF all THEN ServerFields ELSE {}
    /\ \A n \in c.notification : n.fields = IF all THEN NotificationFields ELSE {}
    /\ c.apiServer = {} \/ c.notification = {}
    /\ \A s \in c.apiServer \cup c.notification :
         "plain" \in DOMAIN s => ~(s.plain /\ s.secretRef # "")
Sizes(S) == {{}, S}
AskedAlpha ==
    {a \in [dryRun: DryRuns, simple: Sizes(SimpleSections),
            exchange: Maybe([secretRef: Refs, plain: BOOLEAN, unkownFeeRate: Payloads,
                             fields: {{"name"}, ExchangeFields}]),
            apiServer: Maybe([secretRef: Refs, plain: BOOLEAN, fields: Sizes(ServerFields)]),
            notification: Maybe([secretRef: Refs, plain: BOOLEAN,
                                 fields: Sizes(NotificationFields)])] :
       Sized(a, TRUE) \/ Sized(a, FALSE)}
AskedBeta ==
    {b \in [dryRun: DryRuns, simple: Sizes(SimpleSections),
            exchange: Maybe([secretRef: Refs, unknownFeeRate: Payloads,
                             fields: {{"name"}, ExchangeFields}]),
            apiServer: Maybe([secretRef: Refs, fields: Sizes(ServerFields)]),
            notification: Maybe([secretRef: Refs, fields: Sizes(NotificationFields)])] :
       Sized(b, TRUE) \/ Sized(b, FALSE)}
AskedFields == {{}, {"gateway"}, {"host", "tls", "ingressAnnotations", "app"},
                {"host", "ingressAnnotations", "app", "gateway"}}

Next ==
    \/ \E a \in AlphaBots : WriteTradeBotAlpha(a)
    \/ \E b \in BetaBots : WriteTradeBotBeta(b)
    \/ \E a \in AskedAlpha, annotated \in BOOLEAN : WriteConfigAlpha(a, annotated)
    \/ \E b \in AskedBeta : WriteConfigBeta(b)
    \/ \E s \in Scripts : WriteStrategyAlpha(s) \/ WriteStrategyBeta(s)
    \/ \E f \in [refs: SUBSET Names, exposure: Exposures, fields: AskedFields] :
          WriteFreqUIAlpha(f)
    \/ \E f \in [refs: SUBSET [name: Names], exposure: Exposures, fields: AskedFields] :
          WriteFreqUIBeta(f)
    \/ \E s \in {"absent", "keys", "other"} : ChangeSecret(s)
    \/ DeleteTradeBot \/ DeleteConfig \/ DeleteStrategy
    \/ AddFinalizer \/ RemoveFinalizer \/ ReconcileStrategy \/ ReconcileConfig

Spec == Init /\ [][Next]_vars

\* The reconcilers keep retrying what is due.
FairSpec ==
    /\ Spec /\ WF_vars(AddFinalizer) /\ WF_vars(RemoveFinalizer)
    /\ WF_vars(ReconcileStrategy) /\ WF_vars(ReconcileConfig)

-------------------------------------------------------------------------------
\* What of a v1alpha1 TradeBot v1beta1 has a field for ("" and trade mean the same).
Storable(a) ==
    [a EXCEPT !.arguments = "none", !.data = "none",
              !.command = IF @ = "trade" THEN "" ELSE @]

\* A write that is accepted reads back, through the version it was made in, as it
\* was asked for: no credential is dropped on the way to storage, no field lost
\* between the versions' names for it.  Two fields are exempt by name, because the
\* code does drop them without a word, against tradebot_conversion.go:11-13: the
\* freqtrade_arguments and the data of a v1alpha1 TradeBot.  Nothing else is
\* (ConvertTo and ConvertFrom of the four kinds).
ReadsBack ==
    last.ok => \A o \in last.object :
        /\ last.kind = "bot" => \A b \in bot.spec :
             IF last.version = "v1beta1" THEN b = o
             ELSE TradeBotConvertFrom(b) = Storable(o)
        /\ last.kind = "config" => \A c \in config.spec :
             o = IF last.version = "v1beta1" THEN c ELSE TradeBotConfigConvertFrom(c)
        /\ last.kind = "strategy" => \A s \in strategy.spec :
             o = IF last.version = "v1beta1" THEN s ELSE StrategyConvertFrom(s)
        /\ last.kind = "frequi" => \A f \in frequi :
             o = IF last.version = "v1beta1" THEN f ELSE FreqUIConvertFrom(f)

\* A v1alpha1 write, which cannot carry spec.state, never changes the state of a
\* TradeBot that is not being deleted (tradebot_webhook.go:140-160).
StoppedStays ==
    [][writes' # writes /\ last'.kind = "bot" /\ last'.version = "v1alpha1" /\ ~bot.deleting
         => \A old \in bot.spec, new \in bot'.spec : new.state = old.state]_vars

\* Whatever version a config comes in, one that is admitted to trade live has at
\* that moment a Secret with credentials to trade with; no plaintext one stands
\* in for it (both TradeBotConfig webhooks and ConvertTo).
LiveHasCredentials ==
    [][config'.spec # config.spec =>
         \A c \in config'.spec : c.exchange # {} /\ (c.dryRun # "true" => secret = "keys")]_vars

\* A TradeBot being deleted goes, also when what it refers to has gone first: the
\* webhook does not refuse the update that drops the finalizer
\* (tradebot_webhook.go:69-87).
DeletionCompletes == []<>(~bot.deleting)

\* What the webhooks let in the reconcilers come to call Valid: the two copies of
\* the Strategy check agree (strategy/main.go:105-133, strategy_webhook.go:48-59).
AdmittedIsValid ==
    []<>(/\ strategy.spec # {} => strategy.phase = "Valid"
         /\ config.spec # {} => config.phase = "Valid")

\* A TradeBot once Stopped can be edited through v1beta1 from then on
\* (docs/usage.md:139-140, tradebot_webhook.go:153-157): a v1beta1 write is
\* refused only for a missing reference or a short interval.
BetaWritable ==
    last.kind = "bot" /\ last.version = "v1beta1" /\ ~last.ok =>
        \/ strategy.spec = {} \/ config.spec = {}
        \/ \E o \in last.object : o.interval = "short"
===============================================================================
