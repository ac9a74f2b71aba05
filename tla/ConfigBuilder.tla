---------------------------- MODULE ConfigBuilder ----------------------------
(***************************************************************************)
(* The config builder (controllers/tradebotconfig/configbuilder): config.json*)
(* as a function of a TradeBotConfig's spec, the Secrets it names, the      *)
(* FreqUI hosts and the JWT key decided on.                                 *)
(*                                                                          *)
(* A spec is a function from the sections that are present to functions     *)
(* from the fields that are set to their values; a nil pointer, an empty    *)
(* string, an empty list and a false bool that is not a pointer are all     *)
(* absent.  config.json has the same shape: object -> key -> value, "top"   *)
(* being the outermost object.  Sections and fields carry the names of the  *)
(* objects and keys they are rendered to.                                   *)
(***************************************************************************)

\* The structs of the spec: ptr are the fields that can be set to a zero value
\* (pointers, raw JSON, lists compared with nil), plain the ones that cannot.
Struct(ptr, plain) == [ptr |-> ptr, plain |-> plain]

BotConfig == Struct(
    {"dry_run", "dry_run_wallet", "max_open_trades", "disableparamexport",
     "disable_dataframe_checks"},
    {"bot_name", "trading_mode", "stake_currency", "stake_amount", "fiat_display_currency",
     "db_url", "export"})
AIConfig == Struct(
    {"enabled", "write_metrics_to_disk", "purge_old_models", "conv_width", "train_period_days",
     "backtest_period_days", "live_retrain_hours", "expiration_hours", "save_backtest_models",
     "fit_live_predictions_candles", "data_kitchen_thread_count", "activate_tensorboard",
     "wait_for_training_iteration_on_reload", "continual_learning", "keras"},
    {"identifier"})
FeatureParameters == Struct(
    {"label_period_candles", "include_shifted_candles", "DI_threshold", "weight_factor",
     "principal_component_analysis", "use_SVM_to_remove_outliers", "plot_feature_importances",
     "shuffle_after_split", "buffer_train_data_candles"},
    {"include_corr_pairlist", "include_timeframes", "indicator_periods_candles"})
SVMParams == Struct({"shuffle", "nu"}, {})
DataSplitParameters == Struct({"test_size", "random_state", "shuffle"}, {})
ModelTrainingParameters == Struct({}, {})
RLConfig == Struct(
    {"drop_ohlc_from_features", "train_cycles", "max_trade_duration_candles", "add_state_info",
     "max_training_drawdown_pct", "cpu_count", "randomize_starting_position", "progress_bar"},
    {"model_type", "policy_type", "net_arch"})
ModelRewardParameters == Struct({"rr", "profit_aim"}, {})
DataConfig == Struct(
    {"new_pairs_days", "download_trades", "max_entry_position_adjustment", "available_capital",
     "amend_last_stake_amount", "last_stake_amount_min_ratio", "process_only_new_candles",
     "amount_reserve_percent", "reduce_df_footprint", "custom_price_max_distance_ratio"},
    {"dataformat_ohlcv", "dataformat_trades", "position_adjustment"})
AdvancedConfig == Struct(
    {"tradable_balance_ratio", "cancel_open_orders_on_exit", "force_entry_enable"},
    {"margin_mode", "initial_state"})
UnfilledTimeoutConfig == Struct({"entry", "exit", "exit_timeout_count"}, {"unit"})
InternalsConfig == Struct({"process_throttle_secs", "interval", "sd_notify"}, {})
PairListSpec == Struct({"pairs"}, {})

\* The options of PairlistConfig, by the method its comments give them to.
MethodOptions == [
    StaticPairList |-> {"allow_inactive"},
    VolumePairList |-> {"sort_key"},
    PercentChangePairList |->
        {"lookback_timeframe", "lookback_period", "lookback_days", "min_change_rate"},
    ProducerPairList |-> {"producer_name"},
    RemotePairList |-> {"mode", "processing_mode", "pairlist_url", "keep_pairlist_on_failure",
                        "read_timeout", "bearer_token", "save_to_file"},
    MarketCapPairList |-> {"max_rank", "categories"},
    AgeFilter |-> {"min_days_listed", "max_days_listed"},
    PriceFilter |-> {"min_price", "max_price"},
    SpreadFilter |-> {"max_spread_ratio"},
    RangeStabilityFilter |->
        {"lookback_days_range", "min_rate_of_change", "max_rate_of_change"},
    VolatilityFilter |-> {"lookback_days_volatility", "min_volatility", "max_volatility"},
    OffsetFilter |-> {"offset"},
    ShuffleFilter |-> {"shuffle_frequency", "seed"},
    PerformanceFilter |-> {"minutes", "min_profit"},
    PrecisionFilter |-> {},
    FullTradesFilter |-> {}]
PairlistMethods == DOMAIN MethodOptions
PlainOptions == {"method", "allow_inactive", "sort_key", "lookback_timeframe", "producer_name",
                 "mode", "processing_mode", "pairlist_url", "bearer_token", "save_to_file",
                 "categories", "shuffle_frequency"}
PairlistConfig == Struct(
    {"number_assets", "refresh_period"}
        \cup ((UNION {MethodOptions[m] : m \in PairlistMethods}) \ PlainOptions),
    PlainOptions)

PricingCheckDepthOfMarket == Struct({"enabled", "bids_to_ask_delta"}, {})
PricingSpec == Struct({"price_last_balance", "use_order_book", "order_book_top"}, {"price_side"})
Credentials == {"key", "secret", "password", "uid", "account_id", "wallet_address", "private_key"}
ExchangeSpec == Struct(
    {"log_responses", "enable_ws", "unknown_fee_rate", "outdated_offset",
     "markets_refresh_interval", "ccxt_config", "ccxt_async_config", "ccxt_sync_config"},
    {"name", "secretRef"} \cup Credentials)
Types == Struct(
    {"stoploss_on_exchange", "stoploss_on_exchange_interval", "stoploss_on_exchange_limit_ratio"},
    {"entry", "exit", "emergency_exit", "force_entry", "force_exit", "stoploss"})
TimeInForce == Struct({}, {"entry", "exit"})
Flow == Struct({"cache_size", "max_candles", "scale", "stacked_imbalance_range",
                "imbalance_volume", "imbalance_ratio"}, {})
RiskManagementSpec == Struct(
    {"minimal_roi", "stoploss", "trailing_stop_positive", "trailing_stop_positive_offset",
     "exit_profit_offset", "fee", "ignore_buying_expired_candle_after", "minimum_trade_amount",
     "targeted_trade_amount", "startup_candle", "liquidation_buffer", "backtest_breakdown"},
    {"trailing_stop", "trailing_only_offset_is_reached", "use_exit_signal", "exit_profit_only",
     "ignore_roi_if_entry_signal", "lookahead_analysis_exportfilename"})
APIServerConfig == Struct(
    {"enabled", "listen_port", "enable_openapi"},
    {"listen_ip_address", "verbosity", "username", "password", "jwt_secret_key", "secretRef",
     "CORS_origins"})
ExperimentalConfig == Struct({"block_bad_exchanges"}, {})
LoggingConfig == Struct({"version"}, {})
NotificationTelegram == Struct(
    {"enabled", "balance_dust_level", "reload", "allow_custom_messages"},
    {"token", "chat_id", "secretRef", "topic_id", "authorized_users"})
NotificationTelegramSettings == Struct({},
    {"status", "warning", "startup", "entry", "entry_fill", "entry_cancel", "exit", "exit_fill",
     "exit_cancel", "protection_trigger", "protection_trigger_global"})
NotificationWebhook == Struct(
    {"enabled", "allow_custom_messages"},
    {"url", "webhookentry", "webhookentrycancel", "webhookentryfill", "webhookexit",
     "webhookexitcancel", "webhookexitfill", "webhookstatus"})
NotificationDiscord == Struct({"enabled"}, {"webhook_url", "entry_fill", "exit_fill"})

TradeBotConfigSpec == [
    bot |-> BotConfig, freqai |-> AIConfig, feature_parameters |-> FeatureParameters,
    svm_params |-> SVMParams, data_split_parameters |-> DataSplitParameters,
    model_training_parameters |-> ModelTrainingParameters, rl_config |-> RLConfig,
    model_reward_parameters |-> ModelRewardParameters, data |-> DataConfig,
    advanced |-> AdvancedConfig, unfilledtimeout |-> UnfilledTimeoutConfig,
    internals |-> InternalsConfig, exchange |-> ExchangeSpec, whitelist |-> PairListSpec,
    blacklist |-> PairListSpec, pairlist |-> PairListSpec, pairlists |-> PairlistConfig,
    entry_pricing |-> PricingSpec, entry_depth |-> PricingCheckDepthOfMarket,
    exit_pricing |-> PricingSpec, exit_depth |-> PricingCheckDepthOfMarket,
    order_types |-> Types, order_time_in_force |-> TimeInForce, orderflow |-> Flow,
    risk |-> RiskManagementSpec, api_server |-> APIServerConfig,
    experimental |-> ExperimentalConfig, logging |-> LoggingConfig,
    telegram |-> NotificationTelegram, notification_settings |-> NotificationTelegramSettings,
    webhook |-> NotificationWebhook, discord |-> NotificationDiscord]
Sections == DOMAIN TradeBotConfigSpec
Fields(s) == TradeBotConfigSpec[s].ptr \cup TradeBotConfigSpec[s].plain

\* The section that a section is part of.
Parent == [feature_parameters |-> "freqai", svm_params |-> "feature_parameters",
           data_split_parameters |-> "freqai", model_training_parameters |-> "freqai",
           rl_config |-> "freqai", model_reward_parameters |-> "rl_config",
           whitelist |-> "exchange", blacklist |-> "exchange", entry_depth |-> "entry_pricing",
           exit_depth |-> "exit_pricing", notification_settings |-> "telegram"]
-------------------------------------------------------------------------------
\* Objects under construction.

Nothing == [k \in {} |-> "none"]
One(k, v) == [x \in {k} |-> v]

\* cfg[k] = v for every k of new, over what old had.
Over(old, new) ==
    [k \in DOMAIN old \cup DOMAIN new |-> IF k \in DOMAIN new THEN new[k] ELSE old[k]]

Copied(sec, keys) == [k \in keys \cap DOMAIN sec |-> sec[k]]
Renamed(sec, from, to) == IF from \in DOMAIN sec THEN One(to, sec[from]) ELSE Nothing
IsTrue(sec, k) == k \in DOMAIN sec /\ sec[k] # "zero"

\* A number is rendered as one; "unlimited" and anything else stay strings.
renderStakeAmount(raw) == IF raw = "digits" THEN "number" ELSE raw

buildBotConfigFields(bot) ==
    LET stake == IF "stake_amount" \in DOMAIN bot
                 THEN One("stake_amount", renderStakeAmount(bot.stake_amount)) ELSE Nothing
        named == Over(One("bot_name", "TradeBot"), Copied(bot, {"bot_name"}))
    IN  Over(Over(named, stake),
             Copied(bot, {"trading_mode", "dry_run", "dry_run_wallet", "stake_currency",
                          "max_open_trades", "fiat_display_currency", "db_url", "export",
                          "disableparamexport", "disable_dataframe_checks"}))

buildFreqAIConfig(ai) ==
    Copied(ai, {"enabled", "identifier", "write_metrics_to_disk", "purge_old_models",
                "conv_width", "train_period_days", "backtest_period_days", "live_retrain_hours",
                "expiration_hours", "save_backtest_models", "fit_live_predictions_candles",
                "data_kitchen_thread_count", "activate_tensorboard",
                "wait_for_training_iteration_on_reload", "continual_learning", "keras"})
buildFeatureParametersConfig(fp) ==
    Copied(fp, {"include_corr_pairlist", "include_timeframes", "label_period_candles",
                "include_shifted_candles", "DI_threshold", "weight_factor",
                "principal_component_analysis", "indicator_periods_candles",
                "use_SVM_to_remove_outliers", "plot_feature_importances", "shuffle_after_split",
                "buffer_train_data_candles"})
buildSVMParamsConfig(svm) == Copied(svm, {"shuffle", "nu"})
buildDataSplitParametersConfig(dsp) == Copied(dsp, {"test_size", "random_state", "shuffle"})
buildRLConfigMap(rl) ==
    Copied(rl, {"drop_ohlc_from_features", "train_cycles", "max_trade_duration_candles",
                "add_state_info", "max_training_drawdown_pct", "cpu_count", "model_type",
                "policy_type", "net_arch", "randomize_starting_position", "progress_bar"})
buildModelRewardParametersConfig(mrp) == Copied(mrp, {"rr", "profit_aim"})

buildDataConfigFields(data) ==
    Copied(data, {"dataformat_ohlcv", "dataformat_trades", "position_adjustment",
                  "new_pairs_days", "download_trades", "max_entry_position_adjustment",
                  "available_capital", "amend_last_stake_amount", "last_stake_amount_min_ratio",
                  "process_only_new_candles", "amount_reserve_percent", "reduce_df_footprint",
                  "custom_price_max_distance_ratio"})
buildAdvancedConfigFields(adv) ==
    Copied(adv, {"tradable_balance_ratio", "margin_mode", "initial_state", "force_entry_enable"}
                \cup {k \in {"cancel_open_orders_on_exit"} : IsTrue(adv, k)})
buildUnfilledTimeoutConfig(timeout) ==
    Copied(timeout, {"entry", "exit", "exit_timeout_count", "unit"})
buildInternalsConfigFields(internals) ==
    Copied(internals, {"process_throttle_secs", "interval", "sd_notify"})

\* The origins of the spec and the hosts of the FreqUIs, each once.
CORSOrigins(api, hosts) ==
    CASE hosts /\ "CORS_origins" \in DOMAIN api -> One("CORS_origins", "both")
      [] hosts /\ "CORS_origins" \notin DOMAIN api -> One("CORS_origins", "hosts")
      [] OTHER -> Copied(api, {"CORS_origins"})

\* The Secret's user and password win over the plaintext ones.
buildAPIServerConfig(api, credentials, key, hosts) ==
    Over(Over(Copied(api, {"enabled", "listen_ip_address", "listen_port", "verbosity",
                           "enable_openapi", "username", "password"}),
              Over(Renamed(credentials, "user", "username"), Copied(credentials, {"password"}))),
         Over(IF key = "" THEN Nothing ELSE One("jwt_secret_key", key), CORSOrigins(api, hosts)))

\* BuildTradeBotConfig: the sections whose keys are top-level ones.
Given(spec, s) == IF s \in DOMAIN spec THEN spec[s] ELSE Nothing
BuildTradeBotConfig(spec) ==
    Over(Over(IF "bot" \in DOMAIN spec THEN buildBotConfigFields(spec.bot) ELSE Nothing,
              buildDataConfigFields(Given(spec, "data"))),
         buildAdvancedConfigFields(Given(spec, "advanced")))

\* The Secret's keys win, one by one, over the plaintext ones.
applyExchangeCredentials(exchange, data) ==
    Over(Copied(exchange, Credentials),
         Over(Renamed(data, "api-key", "key"), Copied(data, Credentials \ {"key"})))

BuildExchangeConfig(spec, data) ==
    Over(Over(applyExchangeCredentials(spec.exchange, data),
              Copied(spec.exchange, {"name", "log_responses", "enable_ws", "unknown_fee_rate",
                                     "outdated_offset", "markets_refresh_interval",
                                     "ccxt_config", "ccxt_async_config", "ccxt_sync_config"})),
         Over(Renamed(Given(spec, "whitelist"), "pairs", "pair_whitelist"),
              Renamed(Given(spec, "blacklist"), "pairs", "pair_blacklist")))

applyPercentChangePairListConfig(m) ==
    Copied(m, {"lookback_timeframe", "lookback_period", "lookback_days", "min_change_rate"})
applyRemotePairListConfig(m) ==
    Copied(m, {"mode", "processing_mode", "pairlist_url", "keep_pairlist_on_failure",
               "read_timeout", "bearer_token", "save_to_file"})
applyRangeStabilityFilterConfig(m) ==
    Over(Renamed(m, "lookback_days_range", "lookback_days"),
         Copied(m, {"min_rate_of_change", "max_rate_of_change"}))
applyVolatilityFilterConfig(m) ==
    Over(Renamed(m, "lookback_days_volatility", "lookback_days"),
         Copied(m, {"min_volatility", "max_volatility"}))

\* allow_inactive is written whether it is set or not.
applyPairlistMethodSpecificConfig(m) ==
    CASE m.method = "StaticPairList" ->
           Over(One("allow_inactive", "zero"), Copied(m, {"allow_inactive"}))
      [] m.method = "VolumePairList" -> Copied(m, {"sort_key"})
      [] m.method = "PercentChangePairList" -> applyPercentChangePairListConfig(m)
      [] m.method = "ProducerPairList" -> Copied(m, {"producer_name"})
      [] m.method = "RemotePairList" -> applyRemotePairListConfig(m)
      [] m.method = "MarketCapPairList" -> Copied(m, {"max_rank", "categories"})
      [] m.method = "AgeFilter" -> Copied(m, {"min_days_listed", "max_days_listed"})
      [] m.method = "PriceFilter" -> Copied(m, {"min_price", "max_price"})
      [] m.method = "SpreadFilter" -> Copied(m, {"max_spread_ratio"})
      [] m.method = "RangeStabilityFilter" -> applyRangeStabilityFilterConfig(m)
      [] m.method = "VolatilityFilter" -> applyVolatilityFilterConfig(m)
      [] m.method = "OffsetFilter" -> Copied(m, {"offset"})
      [] m.method = "ShuffleFilter" -> Copied(m, {"shuffle_frequency", "seed"})
      [] m.method = "PerformanceFilter" -> Copied(m, {"minutes", "min_profit"})
      [] m.method \in {"PrecisionFilter", "FullTradesFilter"} -> Nothing

\* One method of the list; the others are rendered in the same way.
BuildPairlistMethodsConfig(m) ==
    Over(Copied(m, {"method", "number_assets", "refresh_period"}),
         applyPairlistMethodSpecificConfig(m))

\* use_order_book is true whenever it is set, and carries order_book_top.
BuildPricingConfig(pricing) ==
    Over(Copied(pricing, {"price_side", "price_last_balance"}),
         IF "use_order_book" \in DOMAIN pricing
         THEN Over(One("use_order_book", "true"), Copied(pricing, {"order_book_top"}))
         ELSE Nothing)
CheckDepthOfMarket(depth) == Copied(depth, {"enabled", "bids_to_ask_delta"})

BuildOrderTypesConfig(types) ==
    Copied(types, {"entry", "exit", "emergency_exit", "force_entry", "force_exit", "stoploss",
                   "stoploss_on_exchange", "stoploss_on_exchange_interval",
                   "stoploss_on_exchange_limit_ratio"})
BuildOrderTimeInForceConfig(tif) == Copied(tif, {"entry", "exit"})
BuildOrderflowConfig(flow) ==
    Copied(flow, {"cache_size", "max_candles", "scale", "stacked_imbalance_range",
                  "imbalance_volume", "imbalance_ratio"})

\* Mutant: minimum_trade_amount was forgotten.
BuildRiskManagementConfigForgets(risk) ==
    Copied(risk, Fields("risk") \ {"minimum_trade_amount"})

BuildRiskManagementConfig(risk) ==
    Copied(risk, {"minimal_roi", "stoploss", "trailing_stop", "trailing_stop_positive",
                  "trailing_stop_positive_offset", "trailing_only_offset_is_reached",
                  "use_exit_signal", "exit_profit_only", "exit_profit_offset", "fee",
                  "ignore_roi_if_entry_signal", "ignore_buying_expired_candle_after",
                  "minimum_trade_amount", "targeted_trade_amount",
                  "lookahead_analysis_exportfilename", "startup_candle", "liquidation_buffer",
                  "backtest_breakdown"})

\* A named Secret replaces the plaintext token and chat id altogether.
buildTelegramConfig(telegram, data) ==
    Over(Copied(telegram, {"enabled", "balance_dust_level", "reload", "allow_custom_messages",
                           "topic_id", "authorized_users"}),
         IF "secretRef" \in DOMAIN telegram
         THEN Over(Copied(data, {"token"}), Renamed(data, "chat-id", "chat_id"))
         ELSE Copied(telegram, {"token", "chat_id"}))
buildTelegramSettingsConfig(settings) ==
    Copied(settings, {"status", "warning", "startup", "entry", "entry_fill", "entry_cancel",
                      "exit", "exit_fill", "exit_cancel", "protection_trigger",
                      "protection_trigger_global"})
buildWebhookConfig(webhook) ==
    Over(One("url", ""),
         Copied(webhook, {"enabled", "url", "webhookentry", "webhookentrycancel", "webhookentryfill",
                          "webhookexit", "webhookexitcancel", "webhookexitfill",
                          "webhookstatus"}))
buildDiscordConfig(discord) ==
    Copied(discord, {"enabled", "webhook_url", "entry_fill", "exit_fill"})
===============================================================================
