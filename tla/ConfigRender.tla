---------------------------- MODULE ConfigRender ----------------------------
(***************************************************************************)
(* The life of one bot's config.json: the TradeBotConfig it is rendered     *)
(* from, the credential Secrets that config names, the Secret it is stored  *)
(* in and the informer's copy of that Secret, through which a pass reads    *)
(* back the JWT key that an earlier one generated.  The FreqUIs that refer  *)
(* to the bot are watched through one informer, of v1alpha1, and listed     *)
(* through another, of v1beta1: neither waits for the other.                *)
(***************************************************************************)
EXTENDS ConfigBuilder, Naturals, FiniteSets

CONSTANTS
    Keys,       \* the JWT keys that will be generated, each at most once
    MaxEdits    \* bound on what users change

ASSUME RenderAssumption ==
    /\ Keys \cap {"", "empty", "weak", "strong"} = {}
    /\ MaxEdits \in Nat

VARIABLES
    spec,       \* the TradeBotConfig's spec
    hosts,      \* some FreqUI refers to the bot
    listed,     \* that, as the v1beta1 informer has it
    woken,      \* the v1alpha1 informer has yet to report a change of it
    behind,     \* the last pass to read the list read it before it was up to date
    secrets,    \* the credential Secrets, by the section that names them
    rendered,   \* the Secret with config.json
    seen,       \* the JWT key in the informer's copy of it
    news,       \* it has changed since the informer's last event
    rec,        \* the pass in progress, with the inputs it read, fresh: the
                \* informer was up to date when it read
    queued,     \* the bot's key is in the work queue
    used,       \* the keys generated so far
    edits

frequis == <<hosts, listed, woken, behind>>
vars == <<spec, frequis, secrets, rendered, seen, news, rec, queued, used, edits>>

SecretKeys == [api_server |-> {"user", "password", "jwt_secret_key"},
               exchange |-> {"api-key"} \cup (Credentials \ {"key"}),
               telegram |-> {"token", "chat-id"}]
WithSecret == DOMAIN SecretKeys

\* No Secret, one without any of the keys, or all of them with one value.
Contents == {"missing", "bare", "empty", "weak", "strong"}

Absent == [exists |-> FALSE, config |-> Nothing]
Idle == [pc |-> "idle", spec |-> Nothing, secrets |-> Nothing, config |-> Nothing, fresh |-> TRUE]

-------------------------------------------------------------------------------
\* BuildConfig.

Names(sp, s) == s \in DOMAIN sp /\ "secretRef" \in DOMAIN sp[s]
GetSecretData(sp, secs, s) ==
    IF Names(sp, s) /\ secs[s] \notin {"missing", "bare"}
    THEN [k \in SecretKeys[s] |-> secs[s]] ELSE Nothing

\* The key the user supplies, if any; the Secret's wins unless it is empty.
Supplied(sp, secs) ==
    LET data == GetSecretData(sp, secs, "api_server")
        plain == Copied(sp.api_server, {"jwt_secret_key"})
    IN  IF "jwt_secret_key" \in DOMAIN data /\ data.jwt_secret_key # "empty"
        THEN data.jwt_secret_key
        ELSE IF plain # Nothing THEN plain.jwt_secret_key ELSE ""

Enabled(sp) == "api_server" \in DOMAIN sp /\ IsTrue(sp.api_server, "enabled")

\* What makes BuildConfig fail: no exchange, a Secret that is named and missing,
\* a key the user supplies that is too short.
BuildFails(sp, secs) ==
    \/ "exchange" \notin DOMAIN sp
    \/ \E s \in WithSecret : Names(sp, s) /\ secs[s] = "missing"
    \/ Enabled(sp) /\ Supplied(sp, secs) = "weak"

\* The key in a stored config.json, "" when there is none to read.
existingAPIServerJWTSecretKey(stored) ==
    IF /\ "api_server" \in DOMAIN stored.config
       /\ "jwt_secret_key" \in DOMAIN stored.config.api_server
    THEN stored.config.api_server.jwt_secret_key ELSE ""

\* A key that no pass has had before; any of them will do.
generateAPIServerJWTSecretKey ==
    {k \in Keys \ used : k = CHOOSE x \in Keys \ used : TRUE}

\* Mutant: the stored key is not looked up.
resolveAPIServerJWTSecretKeyAnew(sp, secs, stored) ==
    CASE ~Enabled(sp) -> {""}
      [] Enabled(sp) /\ Supplied(sp, secs) # "" -> {Supplied(sp, secs)}
      [] OTHER -> generateAPIServerJWTSecretKey

\* Mutant: only a stored key is used, none is generated.
resolveAPIServerJWTSecretKeyStored(sp, secs, stored) ==
    CASE ~Enabled(sp) -> {""}
      [] Enabled(sp) /\ Supplied(sp, secs) # "" -> {Supplied(sp, secs)}
      [] OTHER -> {stored}

\* The possible keys: none, the user's, the stored one, or a new one.
resolveAPIServerJWTSecretKey(sp, secs, stored) ==
    CASE ~Enabled(sp) -> {""}
      [] Enabled(sp) /\ Supplied(sp, secs) # "" -> {Supplied(sp, secs)}
      [] OTHER -> IF stored # "" THEN {stored} ELSE generateAPIServerJWTSecretKey

\* The sections that become an object of their own; some only when they have a
\* key to show, webhook only when it is enabled.
Shown(sp, s) ==
    CASE s \in {"bot", "data", "advanced", "risk", "whitelist", "blacklist", "pairlist"} -> FALSE
      [] s \in {"unfilledtimeout", "internals", "experimental", "logging"} -> DOMAIN sp[s] # {}
      [] s = "webhook" -> IsTrue(sp.webhook, "enabled")
      [] OTHER -> TRUE

BuildConfig(sp, secs, key, withHosts) ==
    [o \in {"top"} \cup {s \in DOMAIN sp : Shown(sp, s)} |->
       CASE o = "top" ->
              Over(BuildTradeBotConfig(sp), BuildRiskManagementConfig(Given(sp, "risk")))
         [] o = "freqai" -> buildFreqAIConfig(sp.freqai)
         [] o = "feature_parameters" -> buildFeatureParametersConfig(sp[o])
         [] o = "svm_params" -> buildSVMParamsConfig(sp[o])
         [] o = "data_split_parameters" -> buildDataSplitParametersConfig(sp[o])
         [] o = "model_training_parameters" -> Nothing
         [] o = "rl_config" -> buildRLConfigMap(sp[o])
         [] o = "model_reward_parameters" -> buildModelRewardParametersConfig(sp[o])
         [] o = "unfilledtimeout" -> buildUnfilledTimeoutConfig(sp[o])
         [] o = "internals" -> buildInternalsConfigFields(sp[o])
         [] o = "exchange" -> BuildExchangeConfig(sp, GetSecretData(sp, secs, "exchange"))
         [] o = "pairlists" -> BuildPairlistMethodsConfig(sp[o])
         [] o \in {"entry_pricing", "exit_pricing"} -> BuildPricingConfig(sp[o])
         [] o \in {"entry_depth", "exit_depth"} -> CheckDepthOfMarket(sp[o])
         [] o = "order_types" -> BuildOrderTypesConfig(sp[o])
         [] o = "order_time_in_force" -> BuildOrderTimeInForceConfig(sp[o])
         [] o = "orderflow" -> BuildOrderflowConfig(sp[o])
         [] o = "api_server" ->
              buildAPIServerConfig(sp[o], GetSecretData(sp, secs, o), key, withHosts)
         [] o = "experimental" -> Copied(sp[o], {"block_bad_exchanges"})
         [] o = "logging" -> Copied(sp[o], {"version"})
         [] o = "telegram" -> buildTelegramConfig(sp[o], GetSecretData(sp, secs, o))
         [] o = "notification_settings" -> buildTelegramSettingsConfig(sp[o])
         [] o = "webhook" -> buildWebhookConfig(sp[o])
         [] o = "discord" -> buildDiscordConfig(sp[o])]

-------------------------------------------------------------------------------
\* A section with as little as the API accepts in it, the API server and the
\* webhook enabled; one with every field set, a pointer to zero or not.
Minimal(s) ==
    CASE s = "exchange" -> One("name", s)
      [] s = "pairlists" -> One("method", "StaticPairList")
      [] s \in {"api_server", "webhook"} -> One("enabled", s)
      [] OTHER -> Nothing
Full(s, v) ==
    [f \in Fields(s) |->
       CASE f = "method" -> "StaticPairList" [] f = "stake_amount" -> "digits"
         [] f = "jwt_secret_key" -> "strong"
         [] f \in TradeBotConfigSpec[s].ptr -> v
         [] OTHER -> s]

\* What users write in a section.  A field's value is named for its section, so
\* that one section's key in the place of another's shows.
Variants == [s \in Sections |->
    {Minimal(s), Full(s, "zero"), Full(s, s)} \cup
    CASE s = "bot" -> {[Full(s, s) EXCEPT !.stake_amount = v] : v \in {"unlimited", "words"}}
      [] s = "pairlists" -> {[Full(s, s) EXCEPT !.method = m] : m \in PairlistMethods}
      [] s = "api_server" -> {Over(Minimal(s), One("secretRef", s)),
                              Over(Minimal(s), One("jwt_secret_key", "weak"))}
      [] s \in {"exchange", "telegram"} -> {Copied(Full(s, s), Fields(s) \ {"secretRef"})}
      [] OTHER -> {}]

TypeOK ==
    /\ DOMAIN spec \subseteq Sections
    /\ \A s \in DOMAIN spec :
         DOMAIN spec[s] \subseteq Fields(s) /\ (s \in DOMAIN Parent => Parent[s] \in DOMAIN spec)
    /\ hosts \in BOOLEAN /\ listed \in BOOLEAN /\ woken \in BOOLEAN /\ behind \in BOOLEAN
    /\ secrets \in [WithSecret -> Contents]
    /\ DOMAIN rendered.config \subseteq {"top"} \cup Sections
    /\ rec.pc \in {"idle", "apply"}
    /\ seen \in Keys \cup {"", "strong"}
    /\ news \in BOOLEAN /\ queued \in BOOLEAN
    /\ used \subseteq Keys
    /\ edits \in 0..MaxEdits

Init ==
    /\ spec = [s \in Sections |-> Minimal(s)]
    /\ hosts = FALSE /\ listed = FALSE /\ woken = FALSE /\ behind = FALSE
    /\ secrets = [s \in WithSecret |-> "strong"]
    /\ rendered = Absent /\ seen = "" /\ news = FALSE
    /\ rec = Idle /\ queued = TRUE /\ used = {}
    /\ edits = 0

-------------------------------------------------------------------------------
\* The pass: the config is built from what the client reads; then the Secret is
\* applied.  A pass that BuildConfig fails changes nothing here and stays queued.

Build ==
    /\ rec.pc = "idle" /\ queued /\ ~BuildFails(spec, secrets)
    /\ queued' = FALSE
    /\ \E key \in resolveAPIServerJWTSecretKey(spec, secrets, seen) :
         /\ used' = used \cup ({key} \cap Keys)
         /\ rec' = [pc |-> "apply", spec |-> spec, secrets |-> secrets,
                    config |-> BuildConfig(spec, secrets, key, listed), fresh |-> ~news]
    /\ behind' = (listed # hosts)
    /\ UNCHANGED <<spec, hosts, listed, woken, secrets, rendered, seen, news, edits>>

ApplySecret ==
    /\ rec.pc = "apply"
    /\ rendered' = [exists |-> TRUE, config |-> rec.config]
    /\ news' = (news \/ rendered' # rendered)
    /\ rec' = Idle
    /\ UNCHANGED <<spec, frequis, secrets, seen, queued, used, edits>>

\* The apply, or the process, fails.
PassFails ==
    /\ rec.pc = "apply"
    /\ rec' = Idle /\ queued' = TRUE
    /\ UNCHANGED <<spec, frequis, secrets, rendered, seen, news, used, edits>>

\* The config Secret is owned and watched.
Deliver ==
    /\ news
    /\ seen' = existingAPIServerJWTSecretKey(rendered) /\ news' = FALSE /\ queued' = TRUE
    /\ UNCHANGED <<spec, frequis, secrets, rendered, rec, used, edits>>

\* Any other event of the bot or of what it owns.
Wake ==
    /\ ~queued
    /\ queued' = TRUE
    /\ UNCHANGED <<spec, frequis, secrets, rendered, seen, news, rec, used, edits>>

-------------------------------------------------------------------------------
\* Users.

Edit == edits < MaxEdits /\ edits' = edits + 1

\* Mutant: the TradeBot controller does not watch TradeBotConfigs.
NewSpecUnwatched(new) ==
    /\ Edit
    /\ spec' = new
    /\ UNCHANGED <<queued, frequis, secrets, rendered, seen, news, rec, used>>

NewSpec(new) ==
    /\ Edit
    /\ spec' = new /\ queued' = TRUE
    /\ UNCHANGED <<frequis, secrets, rendered, seen, news, rec, used>>

EditSection(s) ==
    /\ s \in DOMAIN Parent => Parent[s] \in DOMAIN spec
    /\ \E v \in Variants[s] :
         /\ s \in DOMAIN spec => spec[s] # v
         /\ NewSpec(Over(spec, One(s, v)))

\* A section goes with what it contains; bot is required.
Within(s) == {x \in Sections : x = s \/ (x \in DOMAIN Parent /\ Parent[x] = s)
                \/ (x \in DOMAIN Parent /\ Parent[x] \in DOMAIN Parent
                      /\ Parent[Parent[x]] = s)}
RemoveSection(s) ==
    /\ s \in DOMAIN spec \ {"bot"}
    /\ NewSpec([x \in DOMAIN spec \ Within(s) |-> spec[x]])

\* Credential Secrets are not watched.
ChangeSecret(s) ==
    /\ Edit
    /\ \E c \in Contents \ {secrets[s]} : secrets' = [secrets EXCEPT ![s] = c]
    /\ UNCHANGED <<spec, frequis, rendered, seen, news, rec, queued, used>>

ChangeHosts ==
    /\ Edit
    /\ hosts' = ~hosts /\ woken' = TRUE
    /\ UNCHANGED <<spec, listed, behind, secrets, rendered, seen, news, rec, queued, used>>

\* The v1alpha1 informer reports the change and the watch queues the bot; in its
\* own time the v1beta1 informer catches up, which queues nothing.
FreqUIEvent ==
    /\ woken
    /\ woken' = FALSE /\ queued' = TRUE
    /\ UNCHANGED <<spec, hosts, listed, behind, secrets, rendered, seen, news, rec, used, edits>>

FreqUIListSync ==
    /\ listed # hosts
    /\ listed' = hosts
    /\ UNCHANGED <<spec, hosts, woken, behind, secrets, rendered, seen, news, rec, queued, used,
                    edits>>

DeleteRendered ==
    /\ Edit /\ rendered.exists
    /\ rendered' = Absent /\ news' = TRUE
    /\ UNCHANGED <<spec, frequis, secrets, seen, rec, queued, used>>

Next ==
    \/ Build \/ ApplySecret \/ PassFails \/ Deliver \/ Wake
    \/ \E s \in Sections : EditSection(s) \/ RemoveSection(s)
    \/ \E s \in WithSecret : ChangeSecret(s)
    \/ ChangeHosts \/ FreqUIEvent \/ FreqUIListSync \/ DeleteRendered

Spec == Init /\ [][Next]_vars

-------------------------------------------------------------------------------
\* Where a section's fields go.
Home(s) == CASE s \in {"bot", "data", "advanced", "risk"} -> "top"
             [] s \in {"whitelist", "blacklist"} -> "exchange"
             [] OTHER -> s
KeyOf(s, f) == CASE s = "whitelist" -> "pair_whitelist"
                 [] s = "blacklist" -> "pair_blacklist"
                 [] f \in {"lookback_days_range", "lookback_days_volatility"} -> "lookback_days"
                 [] OTHER -> f

\* The fields that say nothing to the bot by themselves: what a Secret may
\* replace, options of a method that is not chosen, a webhook that is off, a
\* false that is freqtrade's default, the deprecated webhook option, and two
\* where the builder departs from the field: spec.pairlist and use_order_book
\* with order_book_top.
Exempt(sp, s, f) ==
    \/ s \in WithSecret /\ f \in {"secretRef", "username", "jwt_secret_key", "token", "chat_id",
                                  "CORS_origins"} \cup Credentials
    \/ s = "pairlists" /\ f \notin MethodOptions[sp[s].method]
                                     \cup {"method", "number_assets", "refresh_period"}
    \/ s = "webhook" /\ (~IsTrue(sp[s], "enabled") \/ f = "allow_custom_messages")
    \/ f = "cancel_open_orders_on_exit" /\ sp[s][f] = "zero"
    \/ s = "pairlist" \/ f \in {"use_order_book", "order_book_top"}

\* Every field that a user sets reaches config.json, in its place and with its
\* value: no builder forgets one, renders it under another's key or drops a
\* zero, and no later section overwrites a key of an earlier one in the
\* top-level object (BuildConfig, build_config.go:36-158).
FieldsReachTheBot ==
    rec.pc = "apply" =>
        \A s \in DOMAIN rec.spec : \A f \in DOMAIN rec.spec[s] :
            \/ Exempt(rec.spec, s, f)
            \/ /\ Home(s) \in DOMAIN rec.config
               /\ KeyOf(s, f) \in DOMAIN rec.config[Home(s)]
               /\ rec.config[Home(s)][KeyOf(s, f)] =
                    IF f = "stake_amount" THEN renderStakeAmount(rec.spec[s][f])
                                          ELSE rec.spec[s][f]

\* A stored config never enables the API server without a JWT key, or with one
\* that is too short, however users edit specs and credential Secrets or delete the
\* rendered one, and whatever passes did before.  Nobody writes into the rendered
\* Secret: a key found there is reused unchecked
\* (resolveAPIServerJWTSecretKey, build_config.go:188-220).
EnabledHasKey ==
    "api_server" \in DOMAIN rendered.config /\ IsTrue(rendered.config.api_server, "enabled")
        => existingAPIServerJWTSecretKey(rendered) \notin {"", "weak"}

\* A pass that reads the config Secret as it is keeps a generated key: after any
\* failures and edits it does not replace it with another generated one while
\* there is a stored config that has it (build_config.go:222-253).
KeySurvives ==
    [][LET old == existingAPIServerJWTSecretKey(rendered)
           new == existingAPIServerJWTSecretKey(rendered')
       IN  rec.fresh /\ old \in Keys /\ new \in Keys => new = old]_vars

\* What does not come from a credential Secret.
Public(config) ==
    [o \in DOMAIN config |->
       Copied(config[o], DOMAIN config[o] \ ({"username", "jwt_secret_key", "token", "chat_id"}
                                               \cup Credentials))]

\* At rest config.json is that of the spec as it is now and, unless the last pass
\* read the FreqUIs before their list had caught up with the change that woke it, of
\* the FreqUIs as they are now: every change of either wakes a pass, also one that
\* falls into a pass.  A pass that read the list too early is not repeated
\* (setup.go:66-90, tradebot/main.go:308-309); a change of a credential Secret waits
\* for the next pass.
RestIsCurrent ==
    rec.pc = "idle" /\ ~queued /\ ~news /\ ~woken =>
        \E h \in BOOLEAN :
            /\ h = hosts \/ behind
            /\ Public(rendered.config) = Public(BuildConfig(spec, secrets, "", h))
===============================================================================
