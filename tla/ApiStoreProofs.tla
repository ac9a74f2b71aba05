---------------------------- MODULE ApiStoreProofs ----------------------------
(***************************************************************************)
(* What admission and conversion guarantee, for any payloads and any number *)
(* of writes. Storage is typed (at most one object of a kind), which makes  *)
(* ReadsBack inductive: an accepted write stores what converts back to what *)
(* was asked (RoundTrip, FreqUIRoundTrip), and only a deletion changes it   *)
(* without being the last write. Judged: what the webhooks admit, the       *)
(* reconcilers call Valid.                                                  *)
(***************************************************************************)
EXTENDS ApiStore, TLAPS

Inv == TypeOK /\ ReadsBack

-------------------------------------------------------------------------------
\* Optional sections.

LEMMA OptionalOne == ASSUME NEW S, NEW x \in S PROVE {x} \in Optional(S) /\ {} \in Optional(S)
BY DEF Optional

LEMMA OptionalSame ==
    ASSUME NEW S, NEW t \in Optional(S), NEW x \in t, NEW y \in t
    PROVE  x = y /\ x \in S
BY DEF Optional

LEMMA MaybeOptional ==
    ASSUME NEW S, NEW T, S \subseteq T, NEW t \in Maybe(S)
    PROVE  t \in Optional(T)
BY DEF Optional, Maybe

-------------------------------------------------------------------------------
\* Conversions.

LEMMA TradeBotConverts ==
    ASSUME NEW a \in AlphaBots
    PROVE  /\ TradeBotConvertTo(a) \in Optional(BetaBots)
           /\ \A b \in TradeBotConvertTo(a) :
                /\ b.state = "Running"
                /\ TradeBotConvertFrom(b) = Storable(a)
<1>1. CASE a.command \notin {"", "trade"}
    BY <1>1 DEF TradeBotConvertTo, Optional
<1>2. CASE a.command \in {"", "trade"}
    <2> DEFINE new == [state |-> "Running", interval |-> a.interval, app |-> a.app]
               back == [command |-> "", arguments |-> "none", data |-> "none",
                        interval |-> a.interval, app |-> a.app]
               asked == Storable(a)
    <2>1. TradeBotConvertTo(a) = {new}
        BY <1>2 DEF TradeBotConvertTo
    <2>2. new \in BetaBots /\ new.state = "Running"
        BY DEF AlphaBots, BetaBots
    <2>3. TradeBotConvertFrom(new) = back
        BY DEF TradeBotConvertFrom
    <2>4. /\ asked \in AlphaBots /\ asked.command = "" /\ asked.arguments = "none"
          /\ asked.data = "none" /\ asked.interval = a.interval /\ asked.app = a.app
        BY <1>2 DEF AlphaBots, Storable
    <2>5. asked = back
        <3> HIDE DEF asked
        <3> QED BY <2>4 DEF AlphaBots
    <2> HIDE DEF new, back
    <2> QED BY <2>1, <2>2, <2>3, <2>5, OptionalOne
<1> QED BY <1>1, <1>2

\* Each section keeps its fields on the way to v1beta1 and back; a credential in
\* plaintext is the one thing that has nowhere to go.
LEMMA ExchangeConverts ==
    ASSUME NEW e \in AlphaExchanges
    PROVE  /\ convertExchangeSpecToBeta(e) \in BetaExchanges
           /\ ~e.plain => convertExchangeSpecFromBeta(convertExchangeSpecToBeta(e)) = e
<1> DEFINE F == {"name", "account_id", "ccxt_config", "ccxt_async_config",
                 "ccxt_sync_config", "log_responses", "enable_ws",
                 "outdated_offset", "market_refresh_interval",
                 "whitelist", "blacklist"}
<1>1. F = ExchangeFields
    BY DEF ExchangeFields
<1> HIDE DEF F
<1>2. e.fields \cap F = e.fields /\ (e.fields \cap F) \cap F = e.fields
    BY <1>1 DEF AlphaExchanges
<1>3. convertExchangeSpecToBeta(e) = [secretRef |-> e.secretRef,
                                      unknownFeeRate |-> e.unkownFeeRate,
                                      fields |-> e.fields]
    BY <1>2 DEF convertExchangeSpecToBeta, F
<1> DEFINE b == [secretRef |-> e.secretRef, unknownFeeRate |-> e.unkownFeeRate,
                 fields |-> e.fields]
<1>4. b \in BetaExchanges
    BY DEF AlphaExchanges, BetaExchanges
<1>5. convertExchangeSpecFromBeta(b)
        = [secretRef |-> e.secretRef, plain |-> FALSE, unkownFeeRate |-> e.unkownFeeRate,
           fields |-> e.fields]
    BY <1>2 DEF convertExchangeSpecFromBeta, F
<1>6. ~e.plain => e = [secretRef |-> e.secretRef, plain |-> FALSE,
                       unkownFeeRate |-> e.unkownFeeRate, fields |-> e.fields]
    BY DEF AlphaExchanges
<1> QED BY <1>3, <1>4, <1>5, <1>6

LEMMA APIServerConverts ==
    ASSUME NEW e \in AlphaServers
    PROVE  /\ convertAPIServerToBeta(e) \in BetaServers
           /\ ~e.plain => convertAPIServerFromBeta(convertAPIServerToBeta(e)) = e
<1> DEFINE F == {"enabled", "listen_ip_address", "listen_port", "verbosity",
                 "enable_openapi", "username", "cors_origins"}
<1>1. F = ServerFields
    BY DEF ServerFields
<1> HIDE DEF F
<1>2. e.fields \cap F = e.fields
    BY <1>1 DEF AlphaServers
<1> DEFINE b == [secretRef |-> e.secretRef, fields |-> e.fields]
<1>3. convertAPIServerToBeta(e) = b
    BY <1>2 DEF convertAPIServerToBeta, F
<1>4. b \in BetaServers
    BY DEF AlphaServers, BetaServers
<1>5. convertAPIServerFromBeta(b)
        = [secretRef |-> e.secretRef, plain |-> FALSE, fields |-> e.fields]
    BY <1>2 DEF convertAPIServerFromBeta, F
<1>6. ~e.plain => e = [secretRef |-> e.secretRef, plain |-> FALSE, fields |-> e.fields]
    BY DEF AlphaServers
<1> QED BY <1>3, <1>4, <1>5, <1>6

LEMMA NotificationConverts ==
    ASSUME NEW e \in AlphaNotifications
    PROVE  /\ convertNotificationSpecToBeta(e) \in BetaNotifications
           /\ ~e.plain => convertNotificationSpecFromBeta(convertNotificationSpecToBeta(e)) = e
<1> DEFINE F == {"enabled", "balance_dust_level", "reload",
                 "allow_custom_messages", "chat_id", "topic_id",
                 "authorized_users", "settings", "webhook", "discord"}
<1>1. F = NotificationFields
    BY DEF NotificationFields
<1> HIDE DEF F
<1>2. e.fields \cap F = e.fields
    BY <1>1 DEF AlphaNotifications
<1> DEFINE b == [secretRef |-> e.secretRef, fields |-> e.fields]
<1>3. convertNotificationSpecToBeta(e) = b
    BY <1>2 DEF convertNotificationSpecToBeta, F
<1>4. b \in BetaNotifications
    BY DEF AlphaNotifications, BetaNotifications
<1>5. convertNotificationSpecFromBeta(b)
        = [secretRef |-> e.secretRef, plain |-> FALSE, fields |-> e.fields]
    BY <1>2 DEF convertNotificationSpecFromBeta, F
<1>6. ~e.plain => e = [secretRef |-> e.secretRef, plain |-> FALSE, fields |-> e.fields]
    BY DEF AlphaNotifications
<1> QED BY <1>3, <1>4, <1>5, <1>6

LEMMA SimpleConverts ==
    ASSUME NEW a, a.simple \subseteq SimpleSections
    PROVE  convertSimpleSpecFieldsToBeta(a) = a.simple
BY DEF convertSimpleSpecFieldsToBeta, SimpleSections

LEMMA SimpleConvertsBack ==
    ASSUME NEW b, b.simple \subseteq SimpleSections
    PROVE  convertSimpleSpecFieldsFromBeta(b) = b.simple
BY DEF convertSimpleSpecFieldsFromBeta, SimpleSections

\* A v1alpha1 config that the conversion accepts is stored as a v1beta1 one that
\* converts back to it.
LEMMA RoundTrip ==
    ASSUME NEW a \in AlphaConfigs
    PROVE  /\ TradeBotConfigConvertTo(a) \in Optional(BetaConfigs)
           /\ \A b \in TradeBotConfigConvertTo(a) : TradeBotConfigConvertFrom(b) = a
<1>1. CASE plaintextCredentialFields(a) # {}
    BY <1>1 DEF TradeBotConfigConvertTo, Optional
<1>2. CASE plaintextCredentialFields(a) = {}
    <2> DEFINE ex == {convertExchangeSpecToBeta(e) : e \in a.exchange}
               sv == {convertAPIServerToBeta(s) : s \in a.apiServer}
               nt == {convertNotificationSpecToBeta(t) : t \in a.notification}
               b == [dryRun |-> a.dryRun, simple |-> a.simple, exchange |-> ex,
                     apiServer |-> sv, notification |-> nt]
    <2>1. /\ a.simple \subseteq SimpleSections /\ a.dryRun \in DryRuns
          /\ a.exchange \in Optional(AlphaExchanges)
          /\ a.apiServer \in Optional(AlphaServers)
          /\ a.notification \in Optional(AlphaNotifications)
        BY DEF AlphaConfigs
    <2>2. /\ \A e \in a.exchange : ~e.plain
          /\ \A e \in a.apiServer : ~e.plain
          /\ \A e \in a.notification : ~e.plain
        BY <1>2 DEF plaintextCredentialFields
    <2>3. TradeBotConfigConvertTo(a) = {b}
        BY <1>2, <2>1, SimpleConverts DEF TradeBotConfigConvertTo
    <2>4. /\ ex \in Optional(BetaExchanges)
          /\ {convertExchangeSpecFromBeta(e) : e \in ex} = a.exchange
        <3>1. \A e \in a.exchange :
                /\ convertExchangeSpecToBeta(e) \in BetaExchanges
                /\ convertExchangeSpecFromBeta(convertExchangeSpecToBeta(e)) = e
            BY <2>1, <2>2, ExchangeConverts DEF Optional
        <3> QED BY <2>1, <3>1 DEF Optional
    <2>5. /\ sv \in Optional(BetaServers)
          /\ {convertAPIServerFromBeta(e) : e \in sv} = a.apiServer
        <3>1. \A e \in a.apiServer :
                /\ convertAPIServerToBeta(e) \in BetaServers
                /\ convertAPIServerFromBeta(convertAPIServerToBeta(e)) = e
            BY <2>1, <2>2, APIServerConverts DEF Optional
        <3> QED BY <2>1, <3>1 DEF Optional
    <2>6. /\ nt \in Optional(BetaNotifications)
          /\ {convertNotificationSpecFromBeta(e) : e \in nt} = a.notification
        <3>1. \A e \in a.notification :
                /\ convertNotificationSpecToBeta(e) \in BetaNotifications
                /\ convertNotificationSpecFromBeta(convertNotificationSpecToBeta(e)) = e
            BY <2>1, <2>2, NotificationConverts DEF Optional
        <3> QED BY <2>1, <3>1 DEF Optional
    <2> HIDE DEF ex, sv, nt
    <2>7. b \in BetaConfigs
        BY <2>1, <2>4, <2>5, <2>6 DEF BetaConfigs
    <2>8. TradeBotConfigConvertFrom(b)
            = [dryRun |-> a.dryRun, simple |-> a.simple, exchange |-> a.exchange,
               apiServer |-> a.apiServer, notification |-> a.notification]
        <3>1. convertSimpleSpecFieldsFromBeta(b) = a.simple
            BY <2>1, SimpleConvertsBack
        <3> QED BY <2>4, <2>5, <2>6, <3>1 DEF TradeBotConfigConvertFrom
    <2>9. a = [dryRun |-> a.dryRun, simple |-> a.simple, exchange |-> a.exchange,
               apiServer |-> a.apiServer, notification |-> a.notification]
        BY DEF AlphaConfigs
    <2>10. TradeBotConfigConvertFrom(b) = a
        BY <2>8, <2>9
    <2> HIDE DEF b
    <2> QED BY <2>3, <2>7, <2>10, OptionalOne
<1> QED BY <1>1, <1>2

\* A FreqUI's references are wrapped and unwrapped without loss.
LEMMA FreqUIRoundTrip ==
    ASSUME NEW f \in AlphaFreqUIs
    PROVE  FreqUIConvertTo(f) \in BetaFreqUIs /\ FreqUIConvertFrom(FreqUIConvertTo(f)) = f
<1> DEFINE F == {"host", "tls", "ingressAnnotations", "app", "gateway"}
           r == {[name |-> n] : n \in f.refs}
           b == [refs |-> r, exposure |-> f.exposure, fields |-> f.fields]
<1>1. f.fields \cap F = f.fields /\ f.refs \subseteq Names
    BY DEF AlphaFreqUIs, FreqUIFields
<1>2. r \subseteq [name: Names] /\ {x.name : x \in r} = f.refs
    <2>1. \A n \in f.refs : [name |-> n] \in [name: Names] /\ [name |-> n].name = n
        BY <1>1
    <2>2. ASSUME NEW n \in f.refs PROVE n \in {x.name : x \in r}
        <3>1. [name |-> n] \in r /\ [name |-> n].name = n
            OBVIOUS
        <3> QED BY <3>1
    <2>3. ASSUME NEW x \in r PROVE x.name \in f.refs
        BY <2>3
    <2> QED BY <2>1, <2>2, <2>3
<1> HIDE DEF r, F
<1>3. FreqUIConvertTo(f) = b
    BY <1>1 DEF FreqUIConvertTo, r, F
<1>4. b \in BetaFreqUIs
    BY <1>2 DEF AlphaFreqUIs, BetaFreqUIs
<1>5. FreqUIConvertFrom(b) = [refs |-> f.refs, exposure |-> f.exposure, fields |-> f.fields]
    BY <1>1, <1>2 DEF FreqUIConvertFrom, F
<1>6. f = [refs |-> f.refs, exposure |-> f.exposure, fields |-> f.fields]
    BY DEF AlphaFreqUIs
<1> QED BY <1>3, <1>4, <1>5, <1>6

-------------------------------------------------------------------------------
\* What the runs ask for is typed.

LEMMA AskedTyped == AskedAlpha \subseteq AlphaConfigs /\ AskedBeta \subseteq BetaConfigs
<1>1. ASSUME NEW a \in AskedAlpha PROVE a \in AlphaConfigs
    <2> DEFINE E == [secretRef: Refs, plain: BOOLEAN, unkownFeeRate: Payloads,
                     fields: {{"name"}, ExchangeFields}]
               S == [secretRef: Refs, plain: BOOLEAN, fields: Sizes(ServerFields)]
               N == [secretRef: Refs, plain: BOOLEAN, fields: Sizes(NotificationFields)]
    <2>1. a \in [dryRun: DryRuns, simple: Sizes(SimpleSections), exchange: Maybe(E),
                 apiServer: Maybe(S), notification: Maybe(N)]
        BY <1>1 DEF AskedAlpha
    <2>2. E \subseteq AlphaExchanges
        BY DEF AlphaExchanges, ExchangeFields
    <2>3. S \subseteq AlphaServers /\ N \subseteq AlphaNotifications
        BY DEF AlphaServers, AlphaNotifications, Sizes
    <2> HIDE DEF E, S, N
    <2>4. /\ Maybe(E) \subseteq Optional(AlphaExchanges)
          /\ Maybe(S) \subseteq Optional(AlphaServers)
          /\ Maybe(N) \subseteq Optional(AlphaNotifications)
        BY <2>2, <2>3, MaybeOptional
    <2> QED BY <2>1, <2>4 DEF AlphaConfigs, Sizes
<1>2. ASSUME NEW b \in AskedBeta PROVE b \in BetaConfigs
    <2> DEFINE E == [secretRef: Refs, unknownFeeRate: Payloads,
                     fields: {{"name"}, ExchangeFields}]
               S == [secretRef: Refs, fields: Sizes(ServerFields)]
               N == [secretRef: Refs, fields: Sizes(NotificationFields)]
    <2>1. b \in [dryRun: DryRuns, simple: Sizes(SimpleSections), exchange: Maybe(E),
                 apiServer: Maybe(S), notification: Maybe(N)]
        BY <1>2 DEF AskedBeta
    <2>2. E \subseteq BetaExchanges
        BY DEF BetaExchanges, ExchangeFields
    <2>3. S \subseteq BetaServers /\ N \subseteq BetaNotifications
        BY DEF BetaServers, BetaNotifications, Sizes
    <2> HIDE DEF E, S, N
    <2>4. /\ Maybe(E) \subseteq Optional(BetaExchanges)
          /\ Maybe(S) \subseteq Optional(BetaServers)
          /\ Maybe(N) \subseteq Optional(BetaNotifications)
        BY <2>2, <2>3, MaybeOptional
    <2> QED BY <2>1, <2>4 DEF BetaConfigs, Sizes
<1> QED BY <1>1, <1>2

LEMMA FreqUIsTyped ==
    /\ [refs: SUBSET Names, exposure: Exposures, fields: AskedFields] \subseteq AlphaFreqUIs
    /\ [refs: SUBSET [name: Names], exposure: Exposures, fields: AskedFields]
         \subseteq BetaFreqUIs
<1>1. AskedFields \subseteq SUBSET FreqUIFields
    BY DEF AskedFields, FreqUIFields
<1> QED BY <1>1 DEF AlphaFreqUIs, BetaFreqUIs

LEMMA WriteCounts == ASSUME Inv, Write PROVE writes' \in 0..MaxWrites
BY StoreAssumption DEF Inv, TypeOK, Write

-------------------------------------------------------------------------------
\* The actions.

LEMMA InitInv == Init => Inv
<1> SUFFICES ASSUME Init PROVE Inv
    OBVIOUS
<1>1. ReadsBack
    BY DEF Init, ReadsBack, NoSpec
<1>2. PICK p \in Payloads :
        /\ bot \in [spec: Maybe([state: {"Running", "Stopped"}, interval: {"none"}, app: {p}]),
                    deleting: {FALSE}, finalizer: BOOLEAN]
        /\ config \in [spec: Maybe([dryRun: {"false"}, simple: {{}}, apiServer: {{}},
                                    notification: {{}},
                                    exchange: {{[secretRef |-> "s", unknownFeeRate |-> p,
                                                 fields |-> {"name"}]}}]),
                       phase: {"", "Valid"}]
    BY DEF Init
<1>3. bot \in [spec: Optional(BetaBots), deleting: BOOLEAN, finalizer: BOOLEAN]
    <2> DEFINE B == [state: {"Running", "Stopped"}, interval: {"none"}, app: {p}]
    <2>1. B \subseteq BetaBots
        BY DEF BetaBots
    <2> HIDE DEF B
    <2>2. Maybe(B) \subseteq Optional(BetaBots)
        BY <2>1, MaybeOptional
    <2> QED BY <1>2, <2>2 DEF B
<1>4. config \in [spec: Optional(BetaConfigs), phase: Phases]
    <2> DEFINE e == [secretRef |-> "s", unknownFeeRate |-> p, fields |-> {"name"}]
               C == [dryRun: {"false"}, simple: {{}}, apiServer: {{}}, notification: {{}},
                     exchange: {{e}}]
    <2>1. e \in BetaExchanges
        BY DEF BetaExchanges, Refs, ExchangeFields
    <2>2. {e} \in Optional(BetaExchanges) /\ {} \in Optional(BetaServers)
          /\ {} \in Optional(BetaNotifications)
        BY <2>1 DEF Optional
    <2>3. C \subseteq BetaConfigs
        <3> HIDE DEF e
        <3> QED BY <2>2 DEF BetaConfigs, DryRuns
    <2> HIDE DEF C
    <2>4. Maybe(C) \subseteq Optional(BetaConfigs)
        BY <2>3, MaybeOptional
    <2> QED BY <1>2, <2>4 DEF C, Phases
<1>5. strategy \in [spec: Optional(Scripts), phase: Phases]
    <2>1. [name |-> "class", script |-> "complete"] \in Scripts
        BY DEF Scripts
    <2> QED BY <2>1, OptionalOne DEF Init, Phases
<1>6. frequi \in Optional(BetaFreqUIs)
    BY DEF Init, Optional
<1>7. writes \in 0..MaxWrites /\ due \subseteq {"config", "strategy"}
      /\ secret \in {"absent", "keys", "other"}
    <2>1. writes = 0 /\ due = {} /\ secret \in {"absent", "keys", "other"}
        BY DEF Init
    <2>2. 0 \in 0..MaxWrites
        BY StoreAssumption
    <2> QED BY <2>1, <2>2
<1>8. /\ last.kind \in {"none", "bot", "config", "strategy", "frequi"}
      /\ last.version \in {"v1alpha1", "v1beta1"} /\ last.ok \in BOOLEAN
    BY DEF Init, NoSpec
<1>9. TypeOK
    BY <1>3, <1>4, <1>5, <1>6, <1>7, <1>8 DEF TypeOK
<1> QED BY <1>1, <1>9 DEF Inv

LEMMA WriteTradeBotAlphaInv ==
    ASSUME Inv, NEW a \in AlphaBots, WriteTradeBotAlpha(a)
    PROVE  Inv'
<1> DEFINE stored == TradeBotConvertTo(a)
           ok == stored # {} /\ ValidateTradeBotWrite(a)
<1>1. /\ bot' = IF ok THEN [bot EXCEPT !.spec = stored] ELSE bot
      /\ last' = [kind |-> "bot", version |-> "v1alpha1", ok |-> ok, object |-> {a}]
      /\ Write /\ UNCHANGED <<config, strategy, frequi, secret, due>>
    BY DEF WriteTradeBotAlpha, WriteTradeBot, Answered
<1>2. stored \in Optional(BetaBots)
      /\ \A b \in stored : TradeBotConvertFrom(b) = Storable(a)
    BY TradeBotConverts
<1> HIDE DEF stored
<1>3. ok \in BOOLEAN
    BY DEF ValidateTradeBotWrite, ValidateTradeBot, Inv, TypeOK
<1> HIDE DEF ok
<1>4. bot' \in [spec: Optional(BetaBots), deleting: BOOLEAN, finalizer: BOOLEAN]
      /\ (ok => bot'.spec = stored)
    BY <1>1, <1>2 DEF Inv, TypeOK
<1>5. TypeOK'
    BY <1>1, <1>3, <1>4, WriteCounts DEF Inv, TypeOK
<1>6. ReadsBack'
    BY <1>1, <1>2, <1>4 DEF ReadsBack
<1> QED BY <1>5, <1>6 DEF Inv

LEMMA WriteTradeBotBetaInv ==
    ASSUME Inv, NEW b \in BetaBots, WriteTradeBotBeta(b)
    PROVE  Inv'
<1> DEFINE ok == {b} # {} /\ ValidateTradeBotWrite(TradeBotConvertFrom(b))
<1>1. /\ bot' = IF ok THEN [bot EXCEPT !.spec = {b}] ELSE bot
      /\ last' = [kind |-> "bot", version |-> "v1beta1", ok |-> ok, object |-> {b}]
      /\ Write /\ UNCHANGED <<config, strategy, frequi, secret, due>>
    BY DEF WriteTradeBotBeta, WriteTradeBot, Answered
<1>2. ok \in BOOLEAN
    BY DEF ValidateTradeBotWrite, ValidateTradeBot, Inv, TypeOK
<1> HIDE DEF ok
<1>3. bot' \in [spec: Optional(BetaBots), deleting: BOOLEAN, finalizer: BOOLEAN]
      /\ (ok => bot'.spec = {b})
    BY <1>1, OptionalOne DEF Inv, TypeOK
<1>4. TypeOK'
    BY <1>1, <1>2, <1>3, WriteCounts DEF Inv, TypeOK
<1>5. ReadsBack'
    BY <1>1, <1>3 DEF ReadsBack
<1> QED BY <1>4, <1>5 DEF Inv

LEMMA WriteConfigInv ==
    ASSUME Inv, NEW version \in {"v1alpha1", "v1beta1"}, NEW object, NEW alpha,
           NEW annotated \in BOOLEAN, NEW stored \in Optional(BetaConfigs),
           \A c \in stored :
               object = IF version = "v1beta1" THEN c ELSE TradeBotConfigConvertFrom(c),
           WriteConfig(version, object, alpha, annotated, stored)
    PROVE  Inv'
<1> DEFINE ok == /\ stored # {} /\ ValidateAlphaConfig(alpha, annotated)
                 /\ \A b \in stored : ValidateBetaConfig(b)
<1>1. /\ config' = IF ok THEN [config EXCEPT !.spec = stored] ELSE config
      /\ last' = [kind |-> "config", version |-> version, ok |-> ok,
                  object |-> IF ok THEN {object} ELSE {}]
      /\ due' = IF ok THEN due \cup {"config"} ELSE due
      /\ Write /\ UNCHANGED <<bot, strategy, frequi, secret>>
    BY DEF WriteConfig, Answered
<1>2. ok \in BOOLEAN
    BY DEF ValidateAlphaConfig
<1> HIDE DEF ok
<1>3. config' \in [spec: Optional(BetaConfigs), phase: Phases] /\ (ok => config'.spec = stored)
    BY <1>1 DEF Inv, TypeOK
<1>4. due' \subseteq {"config", "strategy"}
    BY <1>1 DEF Inv, TypeOK
<1>5. TypeOK'
    BY <1>1, <1>2, <1>3, <1>4, WriteCounts DEF Inv, TypeOK
<1>6. ReadsBack'
    BY <1>1, <1>3 DEF ReadsBack
<1> QED BY <1>5, <1>6 DEF Inv

LEMMA WriteConfigsInv ==
    ASSUME Inv,
           \/ \E a \in AskedAlpha, annotated \in BOOLEAN : WriteConfigAlpha(a, annotated)
           \/ \E b \in AskedBeta : WriteConfigBeta(b)
    PROVE  Inv'
<1>1. ASSUME NEW a \in AskedAlpha, NEW annotated \in BOOLEAN, WriteConfigAlpha(a, annotated)
      PROVE  Inv'
    <2> DEFINE stored == TradeBotConfigConvertTo(a)
    <2>1. stored \in Optional(BetaConfigs) /\ \A c \in stored : a = TradeBotConfigConvertFrom(c)
        BY AskedTyped, RoundTrip
    <2>2. WriteConfig("v1alpha1", a, a, annotated, stored)
        BY <1>1 DEF WriteConfigAlpha
    <2> HIDE DEF stored
    <2> QED BY <2>1, <2>2, WriteConfigInv
<1>2. ASSUME NEW b \in AskedBeta, WriteConfigBeta(b) PROVE Inv'
    <2>1. {b} \in Optional(BetaConfigs)
        BY AskedTyped, OptionalOne
    <2>2. WriteConfig("v1beta1", b, TradeBotConfigConvertFrom(b), FALSE, {b})
        BY <1>2 DEF WriteConfigBeta
    <2> QED BY <2>1, <2>2, WriteConfigInv
<1> QED BY <1>1, <1>2

LEMMA WriteStrategyInv ==
    ASSUME Inv, NEW s \in Scripts, WriteStrategyAlpha(s) \/ WriteStrategyBeta(s)
    PROVE  Inv'
<1> DEFINE ok == validateStrategySpec(s)
<1>1. PICK version \in {"v1alpha1", "v1beta1"} :
        last' = [kind |-> "strategy", version |-> version, ok |-> ok,
                 object |-> IF ok THEN {s} ELSE {}]
    BY DEF WriteStrategyAlpha, WriteStrategyBeta, WriteStrategy, StrategyConvertFrom, Answered
<1>2. /\ strategy' = IF ok THEN [strategy EXCEPT !.spec = {s}] ELSE strategy
      /\ due' = IF ok THEN due \cup {"strategy"} ELSE due
      /\ Write /\ UNCHANGED <<bot, config, frequi, secret>>
    BY DEF WriteStrategyAlpha, WriteStrategyBeta, WriteStrategy, StrategyConvertFrom,
           StrategyConvertTo
<1>3. ok \in BOOLEAN
    BY DEF validateStrategySpec, ValidateStrategyScript, IsValidPythonClassName
<1> HIDE DEF ok
<1>4. strategy' \in [spec: Optional(Scripts), phase: Phases] /\ (ok => strategy'.spec = {s})
    BY <1>2, OptionalOne DEF Inv, TypeOK
<1>5. due' \subseteq {"config", "strategy"}
    BY <1>2 DEF Inv, TypeOK
<1>6. TypeOK'
    BY <1>1, <1>2, <1>3, <1>4, <1>5, WriteCounts DEF Inv, TypeOK
<1>7. ReadsBack'
    BY <1>1, <1>4 DEF ReadsBack, StrategyConvertFrom
<1> QED BY <1>6, <1>7 DEF Inv

LEMMA WriteFreqUIInv ==
    ASSUME Inv, NEW version \in {"v1alpha1", "v1beta1"}, NEW object,
           NEW stored \in BetaFreqUIs,
           object = IF version = "v1beta1" THEN stored ELSE FreqUIConvertFrom(stored),
           WriteFreqUI(version, object, stored)
    PROVE  Inv'
<1> DEFINE ok == ValidFreqUI(object)
<1>1. /\ last' = [kind |-> "frequi", version |-> version, ok |-> ok,
                  object |-> IF ok THEN {object} ELSE {}]
      /\ frequi' = IF ok THEN {stored} ELSE frequi
      /\ Write /\ UNCHANGED <<bot, config, strategy, secret, due>>
    BY DEF WriteFreqUI, Answered
<1>2. ok \in BOOLEAN
    BY DEF ValidFreqUI
<1> HIDE DEF ok
<1>3. frequi' \in Optional(BetaFreqUIs) /\ (ok => frequi' = {stored})
    BY <1>1, OptionalOne DEF Inv, TypeOK
<1>4. TypeOK'
    BY <1>1, <1>2, <1>3, WriteCounts DEF Inv, TypeOK
<1>5. ReadsBack'
    BY <1>1, <1>3 DEF ReadsBack
<1> QED BY <1>4, <1>5 DEF Inv

LEMMA WriteFreqUIsInv ==
    ASSUME Inv,
           \/ \E f \in [refs: SUBSET Names, exposure: Exposures, fields: AskedFields] :
                 WriteFreqUIAlpha(f)
           \/ \E f \in [refs: SUBSET [name: Names], exposure: Exposures, fields: AskedFields] :
                 WriteFreqUIBeta(f)
    PROVE  Inv'
<1>1. ASSUME NEW f \in AlphaFreqUIs, WriteFreqUIAlpha(f) PROVE Inv'
    BY <1>1, FreqUIRoundTrip, WriteFreqUIInv DEF WriteFreqUIAlpha
<1>2. ASSUME NEW f \in BetaFreqUIs, WriteFreqUIBeta(f) PROVE Inv'
    BY <1>2, WriteFreqUIInv DEF WriteFreqUIBeta
<1> QED BY <1>1, <1>2, FreqUIsTyped

\* A step that is no write of a spec and leaves of a kind what there was, or none.
LEMMA OtherInv ==
    ASSUME Inv, TypeOK', last' = last, frequi' = frequi,
           bot'.spec \subseteq bot.spec, config'.spec \subseteq config.spec,
           strategy'.spec \subseteq strategy.spec
    PROVE  Inv'
BY DEF Inv, ReadsBack

LEMMA DeletesInv ==
    ASSUME Inv,
           \/ DeleteTradeBot \/ DeleteConfig \/ DeleteStrategy
           \/ \E s \in {"absent", "keys", "other"} : ChangeSecret(s)
    PROVE  Inv'
<1>1. CASE DeleteTradeBot
    <2>1. /\ bot' \in [spec: Optional(BetaBots), deleting: BOOLEAN, finalizer: BOOLEAN]
          /\ bot'.spec \subseteq bot.spec
        BY <1>1 DEF DeleteTradeBot, Inv, TypeOK, Optional
    <2>2. Write /\ UNCHANGED <<config, strategy, frequi, secret, due, last>>
        BY <1>1 DEF DeleteTradeBot
    <2>3. TypeOK'
        BY <2>1, <2>2, WriteCounts DEF Inv, TypeOK
    <2> QED BY <2>1, <2>2, <2>3, OtherInv
<1>2. CASE DeleteConfig
    <2>1. config' \in [spec: Optional(BetaConfigs), phase: Phases] /\ config'.spec = {}
        BY <1>2 DEF DeleteConfig, Optional, Phases
    <2>2. Write /\ UNCHANGED <<bot, strategy, frequi, secret, due, last>>
        BY <1>2 DEF DeleteConfig
    <2>3. TypeOK'
        BY <2>1, <2>2, WriteCounts DEF Inv, TypeOK
    <2> QED BY <2>1, <2>2, <2>3, OtherInv
<1>3. CASE DeleteStrategy
    <2>1. strategy' \in [spec: Optional(Scripts), phase: Phases] /\ strategy'.spec = {}
        BY <1>3 DEF DeleteStrategy, Optional, Phases
    <2>2. Write /\ UNCHANGED <<bot, config, frequi, secret, due, last>>
        BY <1>3 DEF DeleteStrategy
    <2>3. TypeOK'
        BY <2>1, <2>2, WriteCounts DEF Inv, TypeOK
    <2> QED BY <2>1, <2>2, <2>3, OtherInv
<1>4. ASSUME NEW s \in {"absent", "keys", "other"}, ChangeSecret(s) PROVE Inv'
    <2>1. secret' = s /\ Write /\ UNCHANGED <<bot, config, strategy, frequi, due, last>>
        BY <1>4 DEF ChangeSecret
    <2>2. TypeOK'
        BY <2>1, WriteCounts DEF Inv, TypeOK
    <2> QED BY <2>1, <2>2, OtherInv
<1> QED BY <1>1, <1>2, <1>3, <1>4

LEMMA ReconcilersInv ==
    ASSUME Inv, AddFinalizer \/ RemoveFinalizer \/ ReconcileStrategy \/ ReconcileConfig
    PROVE  Inv'
<1>1. CASE AddFinalizer \/ RemoveFinalizer
    <2>1. /\ bot' \in [spec: Optional(BetaBots), deleting: BOOLEAN, finalizer: BOOLEAN]
          /\ bot'.spec \subseteq bot.spec
        <3>1. bot \in [spec: Optional(BetaBots), deleting: BOOLEAN, finalizer: BOOLEAN]
              /\ {} \in Optional(BetaBots)
            BY DEF Inv, TypeOK, Optional
        <3>2. \/ bot' = [bot EXCEPT !.finalizer = TRUE]
              \/ bot' = [spec |-> {}, deleting |-> FALSE, finalizer |-> FALSE]
            BY <1>1 DEF AddFinalizer, RemoveFinalizer
        <3>3. CASE bot' = [bot EXCEPT !.finalizer = TRUE]
            BY <3>1, <3>3
        <3>4. CASE bot' = [spec |-> {}, deleting |-> FALSE, finalizer |-> FALSE]
            BY <3>1, <3>4
        <3> QED BY <3>2, <3>3, <3>4
    <2>2. UNCHANGED <<config, strategy, frequi, secret, due, last, writes>>
        BY <1>1 DEF AddFinalizer, RemoveFinalizer
    <2>3. TypeOK'
        BY <2>1, <2>2 DEF Inv, TypeOK
    <2> QED BY <2>1, <2>2, <2>3, OtherInv
<1>2. CASE ReconcileStrategy
    <2>1. strategy' \in [spec: Optional(Scripts), phase: Phases] /\ strategy'.spec = strategy.spec
        BY <1>2 DEF ReconcileStrategy, Inv, TypeOK, Phases
    <2>2. /\ due' \subseteq {"config", "strategy"}
          /\ UNCHANGED <<bot, config, frequi, secret, last, writes>>
        BY <1>2 DEF ReconcileStrategy, Inv, TypeOK
    <2>3. TypeOK'
        BY <2>1, <2>2 DEF Inv, TypeOK
    <2> QED BY <2>1, <2>2, <2>3, OtherInv
<1>3. CASE ReconcileConfig
    <2>1. config' \in [spec: Optional(BetaConfigs), phase: Phases] /\ config'.spec = config.spec
        BY <1>3 DEF ReconcileConfig, Inv, TypeOK, Phases
    <2>2. /\ due' \subseteq {"config", "strategy"}
          /\ UNCHANGED <<bot, strategy, frequi, secret, last, writes>>
        BY <1>3 DEF ReconcileConfig, Inv, TypeOK
    <2>3. TypeOK'
        BY <2>1, <2>2 DEF Inv, TypeOK
    <2> QED BY <2>1, <2>2, <2>3, OtherInv
<1> QED BY <1>1, <1>2, <1>3

LEMMA NextInv == Inv /\ [Next]_vars => Inv'
<1> SUFFICES ASSUME Inv, [Next]_vars PROVE Inv'
    OBVIOUS
<1>1. CASE UNCHANGED vars
    BY <1>1 DEF vars, Inv, TypeOK, ReadsBack
<1>2. CASE Next
    BY <1>2, WriteTradeBotAlphaInv, WriteTradeBotBetaInv, WriteConfigsInv, WriteStrategyInv,
       WriteFreqUIsInv, DeletesInv, ReconcilersInv DEF Next
<1> QED BY <1>1, <1>2

LEMMA Invariance == Spec => []Inv
BY InitInv, NextInv, PTL DEF Spec

\* Storage is typed: at most one object of a kind, every credential a reference.
THEOREM TypeCorrect == Spec => []TypeOK
BY Invariance, PTL DEF Inv

\* An accepted write reads back as it was asked for, except for the arguments and
\* the data of a v1alpha1 TradeBot, for any payloads and any sequence of writes
\* (the ConvertTo and ConvertFrom of the four kinds).
THEOREM ReadsBackCorrect == Spec => []ReadsBack
BY Invariance, PTL DEF Inv

\* No v1alpha1 write changes the state of a TradeBot that is not being deleted:
\* the conversion says Running, and the validator has let it through only if the
\* stored object says so too (tradebot_webhook.go:140-160).
THEOREM StoppedCorrect == Spec => StoppedStays
<1> DEFINE Step == writes' # writes /\ last'.kind = "bot" /\ last'.version = "v1alpha1"
                     /\ ~bot.deleting
                   => \A old \in bot.spec, new \in bot'.spec : new.state = old.state
<1>1. Inv /\ [Next]_vars => [Step]_vars
    <2> SUFFICES ASSUME Inv, Next, ~bot.deleting, last'.kind = "bot",
                        last'.version = "v1alpha1", writes' # writes,
                        NEW old \in bot.spec, NEW new \in bot'.spec
                 PROVE  new.state = old.state
        BY DEF vars
    <2>1. old \in BetaBots /\ \A x \in bot.spec : x = old
        BY OptionalSame DEF Inv, TypeOK
    <2>2. CASE bot'.spec \subseteq bot.spec
        BY <2>1, <2>2
    <2>3. CASE \E a \in AlphaBots : WriteTradeBotAlpha(a)
        <3>1. PICK a \in AlphaBots : WriteTradeBotAlpha(a)
            BY <2>3
        <3> DEFINE stored == TradeBotConvertTo(a)
        <3>2. /\ \/ bot' = bot
                 \/ bot' = [bot EXCEPT !.spec = stored] /\ ValidateTradeBotWrite(a)
            BY <3>1 DEF WriteTradeBotAlpha, WriteTradeBot
        <3>3. \A b \in stored : b.state = "Running"
            BY TradeBotConverts
        <3> HIDE DEF stored
        <3>4. CASE bot' = bot
            BY <2>1, <3>4
        <3>5. CASE bot' = [bot EXCEPT !.spec = stored] /\ ValidateTradeBotWrite(a)
            <4>1. new \in stored
                BY <3>5 DEF Inv, TypeOK
            <4>2. old.state # "Stopped"
                BY <3>5 DEF ValidateTradeBotWrite, ValidateTradeBot
            <4> QED BY <2>1, <3>3, <4>1, <4>2 DEF BetaBots
        <3> QED BY <3>2, <3>4, <3>5
    <2>4. CASE \E b \in BetaBots : WriteTradeBotBeta(b)
        <3>1. last'.version = "v1beta1"
            BY <2>4 DEF WriteTradeBotBeta, WriteTradeBot, Answered
        <3> QED BY <3>1
    <2>5. \/ bot' = bot \/ DeleteTradeBot \/ AddFinalizer \/ RemoveFinalizer
          \/ \E a \in AlphaBots : WriteTradeBotAlpha(a)
          \/ \E b \in BetaBots : WriteTradeBotBeta(b)
        BY DEF Next, WriteConfigAlpha, WriteConfigBeta, WriteConfig, WriteStrategyAlpha,
               WriteStrategyBeta, WriteStrategy, WriteFreqUIAlpha, WriteFreqUIBeta, WriteFreqUI,
               ChangeSecret, DeleteConfig, DeleteStrategy, ReconcileStrategy, ReconcileConfig
    <2>6. DeleteTradeBot \/ AddFinalizer \/ RemoveFinalizer => bot'.spec \subseteq bot.spec
        BY DEF DeleteTradeBot, AddFinalizer, RemoveFinalizer, Inv, TypeOK
    <2> QED BY <2>2, <2>3, <2>4, <2>5, <2>6
<1> QED BY <1>1, Invariance, PTL DEF Spec, StoppedStays

\* A config admitted to trade live has a Secret with credentials at that moment,
\* whichever version it is written in (both TradeBotConfig webhooks, ConvertTo).
THEOREM CredentialsCorrect == Spec => LiveHasCredentials
<1> DEFINE Step == config'.spec # config.spec =>
                     \A c \in config'.spec :
                        c.exchange # {} /\ (c.dryRun # "true" => secret = "keys")
<1>1. Inv /\ [Next]_vars => [Step]_vars
    <2> SUFFICES ASSUME Inv, Next, config'.spec # config.spec, NEW c \in config'.spec
                 PROVE  c.exchange # {} /\ (c.dryRun # "true" => secret = "keys")
        BY DEF vars
    <2>1. ASSUME NEW version, NEW object, NEW alpha, NEW annotated, NEW stored,
                 WriteConfig(version, object, alpha, annotated, stored)
          PROVE  ValidateBetaConfig(c)
        BY <2>1 DEF WriteConfig, Inv, TypeOK
    <2>2. \/ config' = config \/ DeleteConfig \/ ReconcileConfig
          \/ \E a \in AskedAlpha, annotated \in BOOLEAN : WriteConfigAlpha(a, annotated)
          \/ \E b \in AskedBeta : WriteConfigBeta(b)
        BY DEF Next, WriteTradeBotAlpha, WriteTradeBotBeta, WriteTradeBot, WriteStrategyAlpha,
               WriteStrategyBeta, WriteStrategy, WriteFreqUIAlpha, WriteFreqUIBeta, WriteFreqUI,
               ChangeSecret, DeleteTradeBot, DeleteStrategy, AddFinalizer,
               RemoveFinalizer, ReconcileStrategy
    <2>3. DeleteConfig \/ ReconcileConfig => config'.spec \in {{}, config.spec}
        <3>1. CASE DeleteConfig
            BY <3>1 DEF DeleteConfig
        <3>2. CASE ReconcileConfig
            BY <3>2 DEF ReconcileConfig, Inv, TypeOK
        <3> QED BY <3>1, <3>2
    <2>4. ValidateBetaConfig(c)
        BY <2>1, <2>2, <2>3 DEF WriteConfigAlpha, WriteConfigBeta
    <2> QED BY <2>4 DEF ValidateBetaConfig
<1> QED BY <1>1, Invariance, PTL DEF Spec, LiveHasCredentials

-------------------------------------------------------------------------------
\* The verdict on what was admitted: whatever is stored passes the reconciler's own
\* check, and its phase says so unless the reconciler has still to look.
Judged ==
    /\ \A s \in strategy.spec : validateStrategy(s)
    /\ strategy.spec # {} => "strategy" \in due \/ strategy.phase = "Valid"
    /\ config.spec # {} => "config" \in due \/ config.phase = "Valid"

\* A write leaves the object to the reconciler, a deletion leaves nothing to judge, and
\* the reconciler's verdict on what the webhook admitted is Valid.
LEMMA NextJudged == ASSUME Inv, Judged, Next PROVE Judged'
<1> USE DEF Judged
<1>1. CASE UNCHANGED <<config, strategy, due>>
    BY <1>1
<1>2. CASE \E s \in Scripts : WriteStrategyAlpha(s) \/ WriteStrategyBeta(s)
    <2>1. PICK s \in Scripts :
            /\ strategy' = IF validateStrategySpec(s) THEN [strategy EXCEPT !.spec = {s}]
                                                      ELSE strategy
            /\ due' = IF validateStrategySpec(s) THEN due \cup {"strategy"} ELSE due
            /\ UNCHANGED config
        BY <1>2 DEF WriteStrategyAlpha, WriteStrategyBeta, WriteStrategy,
           StrategyConvertFrom, StrategyConvertTo
    <2>2. CASE ~validateStrategySpec(s)
        BY <2>1, <2>2
    <2>3. CASE validateStrategySpec(s)
        <3>1. strategy'.spec = {s} /\ validateStrategy(s)
            BY <2>1, <2>3 DEF Inv, TypeOK, validateStrategySpec, validateStrategy
        <3> QED BY <2>1, <2>3, <3>1
    <2> QED BY <2>2, <2>3
<1>3. ASSUME NEW v, NEW o, NEW a, NEW n, NEW stored, WriteConfig(v, o, a, n, stored)
      PROVE  Judged'
    <2>1. /\ \/ UNCHANGED <<config, due>>
             \/ "config" \in due' /\ ("strategy" \in due => "strategy" \in due')
          /\ UNCHANGED strategy
        BY <1>3 DEF WriteConfig
    <2> QED BY <2>1
<1>4. CASE DeleteConfig
    <2>1. config'.spec = {} /\ UNCHANGED <<strategy, due>>
        BY <1>4 DEF DeleteConfig
    <2> QED BY <2>1
<1>5. CASE DeleteStrategy
    <2>1. strategy'.spec = {} /\ UNCHANGED <<config, due>>
        BY <1>5 DEF DeleteStrategy
    <2> QED BY <2>1
<1>6. CASE ReconcileStrategy
    BY <1>6 DEF ReconcileStrategy, Inv, TypeOK
<1>7. CASE ReconcileConfig
    BY <1>7 DEF ReconcileConfig, Inv, TypeOK
<1>8. CASE \/ \E a \in AlphaBots : WriteTradeBotAlpha(a)
           \/ \E b \in BetaBots : WriteTradeBotBeta(b)
           \/ \E f : WriteFreqUIAlpha(f) \/ WriteFreqUIBeta(f)
           \/ \E s : ChangeSecret(s)
           \/ DeleteTradeBot \/ AddFinalizer \/ RemoveFinalizer
    BY <1>1, <1>8 DEF WriteTradeBotAlpha, WriteTradeBotBeta, WriteTradeBot,
       WriteFreqUIAlpha, WriteFreqUIBeta, WriteFreqUI, ChangeSecret, DeleteTradeBot,
       AddFinalizer, RemoveFinalizer
<1> QED
    BY <1>2, <1>3, <1>4, <1>5, <1>6, <1>7, <1>8 DEF Next, WriteConfigAlpha, WriteConfigBeta

\* The safety half of AdmittedIsValid: no Strategy or TradeBotConfig that the webhooks
\* have admitted ever stands as Invalid or unjudged with no reconcile due for it
\* (strategy_webhook.go:48-59 against strategy/main.go:105-133).
THEOREM AdmittedJudged == Spec => []Judged
<1>1. Init => Judged
    <2> SUFFICES ASSUME Init PROVE Judged
        OBVIOUS
    <2>0. strategy = [spec |-> {[name |-> "class", script |-> "complete"]}, phase |-> "Valid"]
        BY DEF Init
    <2>1. \A s \in strategy.spec : s.name = "class" /\ s.script = "complete"
        BY <2>0
    <2>2. \A s \in strategy.spec : validateStrategy(s)
        BY <2>1 DEF validateStrategy, IsValidPythonClassName, ValidateStrategyScript
    <2>3. strategy.phase = "Valid"
        BY <2>0
    <2>4. config.spec # {} => config.phase = "Valid"
        BY DEF Init
    <2> QED BY <2>2, <2>3, <2>4 DEF Judged
<1>2. Inv /\ Judged /\ [Next]_vars => Judged'
    <2>1. CASE UNCHANGED vars
        BY <2>1 DEF vars, Judged
    <2> QED BY <2>1, NextJudged
<1> QED BY <1>1, <1>2, Invariance, PTL DEF Spec
===============================================================================
