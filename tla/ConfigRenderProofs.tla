-------------------------- MODULE ConfigRenderProofs --------------------------
(***************************************************************************)
(* Proofs about ConfigRender, for any supply of keys and any number of      *)
(* edits: the JWT key of the API server, that the config at rest is the     *)
(* current one, and that every field of the spec reaches the bot. For the   *)
(* key: a rendered config has the key that was decided on and no other      *)
(* (RenderedKey), that key is the user's, which is not a short one, the one *)
(* the informer shows, or new (ResolvedKey); and an informer that is up to  *)
(* date shows the stored key, so that a pass that read it generates a key   *)
(* only where none is stored (FreshPass). For the rest: what a pass renders *)
(* is what is wanted unless the key is queued (Current), credentials aside  *)
(* (PublicSame); and what is stored came out of BuildConfig (Carried),      *)
(* which leaves out no field of a well-formed spec (RenderComplete).        *)
(***************************************************************************)
EXTENDS ConfigRender, TLAPS

Good == Keys \cup {"", "strong"}
KeyIn(config) == existingAPIServerJWTSecretKey([exists |-> TRUE, config |-> config])
EnabledIn(config) == "api_server" \in DOMAIN config /\ IsTrue(config.api_server, "enabled")

\* Users write a key that is long enough, or one that is not.
SpecKey(sp) ==
    "api_server" \in DOMAIN sp /\ "jwt_secret_key" \in DOMAIN sp.api_server
        => sp.api_server.jwt_secret_key \in {"strong", "weak"}

\* A config with a key worth the name, and with one if it needs one.
Sound(config) ==
    /\ KeyIn(config) \in Good
    /\ EnabledIn(config) => KeyIn(config) # ""

\* What the informer shows of the key.
SeenKey == seen \in Good /\ (~news => seen = KeyIn(rendered.config))

\* A pass that read the stored key does not bring another generated one.
FreshPass ==
    rec.pc = "apply" /\ rec.fresh /\ KeyIn(rec.config) \in Keys
        /\ KeyIn(rendered.config) \in Keys
      => KeyIn(rec.config) = KeyIn(rendered.config)

Inv ==
    /\ SpecKey(spec) /\ secrets \in [WithSecret -> Contents]
    /\ news \in BOOLEAN
    /\ Sound(rendered.config) /\ (rec.pc = "apply" => Sound(rec.config))
    /\ SeenKey /\ FreshPass

-------------------------------------------------------------------------------
\* What is rendered.

LEMMA Apart ==
    /\ "" \notin Keys /\ "weak" \notin Keys /\ "strong" \notin Keys /\ "empty" \notin Keys
    /\ "" \in Good /\ "strong" \in Good /\ "weak" \notin Good /\ Keys \subseteq Good
BY RenderAssumption DEF Good

LEMMA NothingEmpty == DOMAIN Nothing = {}
BY DEF Nothing

LEMMA OverField ==
    ASSUME NEW old, NEW new, NEW k
    PROVE  /\ DOMAIN Over(old, new) = DOMAIN old \cup DOMAIN new
           /\ k \in DOMAIN new => Over(old, new)[k] = new[k]
           /\ k \in DOMAIN old \ DOMAIN new => Over(old, new)[k] = old[k]
BY DEF Over

LEMMA OneField == ASSUME NEW k, NEW v PROVE DOMAIN One(k, v) = {k} /\ One(k, v)[k] = v
BY DEF One

\* The object of the API server has the key decided on, if one was, and is
\* enabled when the spec says so.
LEMMA ServerKey ==
    ASSUME NEW api, NEW credentials, NEW key, NEW withHosts
    PROVE  LET c == buildAPIServerConfig(api, credentials, key, withHosts)
           IN  /\ key = "" => "jwt_secret_key" \notin DOMAIN c
               /\ key # "" => "jwt_secret_key" \in DOMAIN c /\ c["jwt_secret_key"] = key
               /\ IsTrue(c, "enabled") => IsTrue(api, "enabled")
<1> DEFINE plain == Copied(api, {"enabled", "listen_ip_address", "listen_port", "verbosity",
                                 "enable_openapi", "username", "password"})
           secret == Over(Renamed(credentials, "user", "username"),
                          Copied(credentials, {"password"}))
           jwt == IF key = "" THEN Nothing ELSE One("jwt_secret_key", key)
           cors == CORSOrigins(api, withHosts)
           c == buildAPIServerConfig(api, credentials, key, withHosts)
<1>1. c = Over(Over(plain, secret), Over(jwt, cors))
    BY DEF buildAPIServerConfig
<1>2. /\ "jwt_secret_key" \notin DOMAIN plain
      /\ "enabled" \in DOMAIN plain =>
           "enabled" \in DOMAIN api /\ plain["enabled"] = api["enabled"]
    BY DEF Copied
<1>3. DOMAIN secret \subseteq {"username", "password"}
    <2>1. DOMAIN Renamed(credentials, "user", "username") \subseteq {"username"}
        BY OneField, NothingEmpty DEF Renamed
    <2>2. DOMAIN Copied(credentials, {"password"}) \subseteq {"password"}
        BY DEF Copied
    <2> QED BY <2>1, <2>2 DEF Over
<1>4. /\ key = "" => DOMAIN jwt = {}
      /\ key # "" => DOMAIN jwt = {"jwt_secret_key"} /\ jwt["jwt_secret_key"] = key
    BY OneField, NothingEmpty
<1>5. DOMAIN cors \subseteq {"CORS_origins"}
    <2>1. DOMAIN One("CORS_origins", "both") \subseteq {"CORS_origins"}
          /\ DOMAIN One("CORS_origins", "hosts") \subseteq {"CORS_origins"}
          /\ DOMAIN Copied(api, {"CORS_origins"}) \subseteq {"CORS_origins"}
        BY DEF One, Copied
    <2> QED BY <2>1 DEF CORSOrigins
<1> HIDE DEF plain, secret, jwt, cors, c
<1>6. /\ DOMAIN c = DOMAIN plain \cup DOMAIN secret \cup DOMAIN jwt \cup DOMAIN cors
      /\ "jwt_secret_key" \in DOMAIN jwt => c["jwt_secret_key"] = jwt["jwt_secret_key"]
      /\ "enabled" \in DOMAIN plain => c["enabled"] = plain["enabled"]
    <2> DEFINE left == Over(plain, secret)
               right == Over(jwt, cors)
    <2>1. /\ DOMAIN left = DOMAIN plain \cup DOMAIN secret
          /\ "enabled" \in DOMAIN plain => left["enabled"] = plain["enabled"]
        BY <1>3, OverField
    <2>2. /\ DOMAIN right = DOMAIN jwt \cup DOMAIN cors
          /\ "jwt_secret_key" \in DOMAIN jwt => right["jwt_secret_key"] = jwt["jwt_secret_key"]
          /\ "enabled" \notin DOMAIN right
        BY <1>4, <1>5 DEF Over
    <2>3. c = Over(left, right)
        BY <1>1
    <2> HIDE DEF left, right
    <2>4. DOMAIN c = DOMAIN left \cup DOMAIN right
        BY <2>3, OverField
    <2>5. "jwt_secret_key" \in DOMAIN right => c["jwt_secret_key"] = right["jwt_secret_key"]
        BY <2>3 DEF Over
    <2>6. "enabled" \in DOMAIN left => c["enabled"] = left["enabled"]
        BY <2>2, <2>3 DEF Over
    <2> QED BY <2>1, <2>2, <2>4, <2>5, <2>6
<1>7. /\ key = "" => "jwt_secret_key" \notin DOMAIN c
      /\ key # "" => "jwt_secret_key" \in DOMAIN c /\ c["jwt_secret_key"] = key
    BY <1>2, <1>3, <1>4, <1>5, <1>6
<1>8. IsTrue(c, "enabled") => IsTrue(api, "enabled")
    BY <1>2, <1>3, <1>4, <1>5, <1>6 DEF IsTrue
<1> QED BY <1>7, <1>8 DEF c

\* Where BuildConfig puts it.
LEMMA RenderedServer ==
    ASSUME NEW sp, NEW secs, NEW key, NEW withHosts
    PROVE  LET c == BuildConfig(sp, secs, key, withHosts)
           IN  /\ "api_server" \in DOMAIN c <=> "api_server" \in DOMAIN sp
               /\ "api_server" \in DOMAIN sp =>
                    c["api_server"] = buildAPIServerConfig(sp["api_server"],
                        GetSecretData(sp, secs, "api_server"), key, withHosts)
<1>1. Shown(sp, "api_server")
    BY DEF Shown
<1> QED BY <1>1 DEF BuildConfig

LEMMA RenderedKey ==
    ASSUME NEW sp, NEW secs, NEW key \in Good, NEW withHosts,
           Enabled(sp) => key # "",
           "api_server" \in DOMAIN sp \/ key = ""
    PROVE  LET c == BuildConfig(sp, secs, key, withHosts)
           IN  KeyIn(c) = key /\ Sound(c)
<1> DEFINE c == BuildConfig(sp, secs, key, withHosts)
           api == buildAPIServerConfig(sp["api_server"], GetSecretData(sp, secs, "api_server"),
                                       key, withHosts)
<1>1. /\ "api_server" \in DOMAIN c <=> "api_server" \in DOMAIN sp
      /\ "api_server" \in DOMAIN sp => c["api_server"] = api
    BY RenderedServer
<1>2. /\ key = "" => "jwt_secret_key" \notin DOMAIN api
      /\ key # "" => "jwt_secret_key" \in DOMAIN api /\ api["jwt_secret_key"] = key
      /\ IsTrue(api, "enabled") => IsTrue(sp["api_server"], "enabled")
    BY ServerKey
<1> HIDE DEF c, api
<1>3. KeyIn(c) = key
    BY <1>1, <1>2 DEF KeyIn, existingAPIServerJWTSecretKey
<1>4. EnabledIn(c) => Enabled(sp)
    BY <1>1, <1>2 DEF EnabledIn, Enabled
<1> QED BY <1>3, <1>4 DEF c, Sound

-------------------------------------------------------------------------------
\* Which key is decided on.

LEMMA SuppliedKey ==
    ASSUME NEW sp, SpecKey(sp), "api_server" \in DOMAIN sp,
           NEW secs \in [WithSecret -> Contents]
    PROVE  Supplied(sp, secs) \in {"", "strong", "weak"}
<1> DEFINE data == GetSecretData(sp, secs, "api_server")
           plain == Copied(sp.api_server, {"jwt_secret_key"})
<1>1. "api_server" \in WithSecret
    BY DEF WithSecret, SecretKeys
<1>2. "jwt_secret_key" \in DOMAIN data => data["jwt_secret_key"] \in {"empty", "weak", "strong"}
    <2>1. CASE data = Nothing
        BY <2>1, NothingEmpty
    <2>2. CASE data # Nothing
        <3>1. secs["api_server"] \in {"empty", "weak", "strong"}
              /\ data = [k \in SecretKeys["api_server"] |-> secs["api_server"]]
            BY <1>1, <2>2 DEF GetSecretData, Contents
        <3> HIDE DEF data
        <3> QED BY <3>1
    <2> QED BY <2>1, <2>2
<1>3. plain # Nothing => plain["jwt_secret_key"] \in {"strong", "weak"}
    <2> SUFFICES ASSUME plain # Nothing PROVE plain["jwt_secret_key"] \in {"strong", "weak"}
        OBVIOUS
    <2>1. "jwt_secret_key" \in DOMAIN sp.api_server
        BY DEF Copied, Nothing
    <2>2. plain["jwt_secret_key"] = sp.api_server["jwt_secret_key"]
        BY <2>1 DEF Copied
    <2> QED BY <2>1, <2>2 DEF SpecKey
<1> HIDE DEF data, plain
<1>4. Supplied(sp, secs) = IF "jwt_secret_key" \in DOMAIN data /\ data["jwt_secret_key"] # "empty"
                           THEN data["jwt_secret_key"]
                           ELSE IF plain # Nothing THEN plain["jwt_secret_key"] ELSE ""
    BY DEF Supplied, data, plain
<1> QED BY <1>2, <1>3, <1>4

LEMMA ResolvedKey ==
    ASSUME NEW sp, SpecKey(sp), NEW secs \in [WithSecret -> Contents], NEW stored \in Good,
           ~BuildFails(sp, secs), NEW key \in resolveAPIServerJWTSecretKey(sp, secs, stored)
    PROVE  /\ key \in Good
           /\ Enabled(sp) => key # ""
           /\ "api_server" \in DOMAIN sp \/ key = ""
           /\ key \in Keys => stored \in {"", key}
<1>1. CASE ~Enabled(sp)
    BY <1>1, Apart DEF resolveAPIServerJWTSecretKey
<1>2. CASE Enabled(sp)
    <2>1. "api_server" \in DOMAIN sp
        BY <1>2 DEF Enabled
    <2>2. Supplied(sp, secs) \in {"", "strong"}
        BY <1>2, <2>1, SuppliedKey DEF BuildFails
    <2>3. CASE Supplied(sp, secs) # ""
        <3>1. key = "strong"
            BY <1>2, <2>2, <2>3 DEF resolveAPIServerJWTSecretKey
        <3> QED BY <2>1, <3>1, Apart
    <2>4. CASE Supplied(sp, secs) = ""
        <3>1. key \in IF stored # "" THEN {stored} ELSE generateAPIServerJWTSecretKey
            BY <1>2, <2>4 DEF resolveAPIServerJWTSecretKey
        <3>2. stored = "" => key \in Keys
            BY <3>1 DEF generateAPIServerJWTSecretKey
        <3> QED BY <2>1, <3>1, <3>2, Apart
    <2> QED BY <2>3, <2>4
<1> QED BY <1>1, <1>2

\* Of the sections that users write only the API server's has a key, and that one.
LEMMA VariantKey ==
    ASSUME NEW v \in Variants["api_server"], "jwt_secret_key" \in DOMAIN v
    PROVE  v["jwt_secret_key"] \in {"strong", "weak"}
<1>1. "jwt_secret_key" \notin TradeBotConfigSpec["api_server"].ptr /\ "api_server" \in Sections
    BY DEF TradeBotConfigSpec, APIServerConfig, Struct, Sections
<1>2. ASSUME NEW z, "jwt_secret_key" \in DOMAIN Full("api_server", z)
      PROVE  Full("api_server", z)["jwt_secret_key"] = "strong"
    BY <1>1, <1>2 DEF Full
<1>3. DOMAIN Minimal("api_server") = {"enabled"}
    BY OneField DEF Minimal
<1>4. Variants["api_server"] =
        {Minimal("api_server"), Full("api_server", "zero"), Full("api_server", "api_server")}
          \cup {Over(Minimal("api_server"), One("secretRef", "api_server")),
                Over(Minimal("api_server"), One("jwt_secret_key", "weak"))}
    BY <1>1 DEF Variants
<1>5. DOMAIN Over(Minimal("api_server"), One("secretRef", "api_server"))
        = {"enabled", "secretRef"}
    BY <1>3 DEF One, Over
<1>6. Over(Minimal("api_server"), One("jwt_secret_key", "weak"))["jwt_secret_key"] = "weak"
    BY <1>3 DEF One, Over
<1> QED BY <1>2, <1>3, <1>4, <1>5, <1>6

-------------------------------------------------------------------------------
\* The steps.

LEMMA KeyOfStored == ASSUME NEW stored
                     PROVE  existingAPIServerJWTSecretKey(stored) = KeyIn(stored.config)
BY DEF KeyIn, existingAPIServerJWTSecretKey

LEMMA NoConfig == KeyIn(Nothing) = "" /\ Sound(Nothing)
BY Apart, NothingEmpty DEF KeyIn, existingAPIServerJWTSecretKey, Sound, EnabledIn

LEMMA InitInv == Init => Inv
<1> SUFFICES ASSUME Init PROVE Inv
    OBVIOUS
<1>1. SpecKey(spec)
    <2>1. spec = [x \in Sections |-> Minimal(x)]
        BY DEF Init
    <2>2. "api_server" \in DOMAIN spec => spec.api_server = Minimal("api_server")
        BY <2>1
    <2>3. DOMAIN Minimal("api_server") = {"enabled"}
        BY OneField DEF Minimal
    <2> QED BY <2>2, <2>3 DEF SpecKey
<1>2. secrets \in [WithSecret -> Contents] /\ news = FALSE /\ seen = ""
    BY DEF Init, Contents
<1>3. rendered.config = Nothing /\ rec.pc = "idle"
    BY DEF Init, Absent, Idle
<1> QED BY <1>1, <1>2, <1>3, NoConfig, Apart DEF Inv, SeenKey, FreshPass

LEMMA BuildInv == ASSUME Inv, Build PROVE Inv'
<1>1. PICK key \in resolveAPIServerJWTSecretKey(spec, secrets, seen) :
        rec' = [pc |-> "apply", spec |-> spec, secrets |-> secrets,
                config |-> BuildConfig(spec, secrets, key, listed), fresh |-> ~news]
    BY DEF Build
<1>2. ~BuildFails(spec, secrets) /\ UNCHANGED <<spec, secrets, rendered, seen, news>>
    BY DEF Build
<1>3. /\ key \in Good
      /\ Enabled(spec) => key # ""
      /\ "api_server" \in DOMAIN spec \/ key = ""
      /\ key \in Keys => seen \in {"", key}
    BY <1>2, ResolvedKey DEF Inv, SeenKey
<1>4. KeyIn(rec'.config) = key /\ Sound(rec'.config)
    <2>1. rec'.config = BuildConfig(spec, secrets, key, listed)
        BY <1>1
    <2>2. LET c == BuildConfig(spec, secrets, key, listed) IN KeyIn(c) = key /\ Sound(c)
        BY <1>3, RenderedKey
    <2> QED BY <2>1, <2>2
<1>5. rec'.fresh <=> ~news
    BY <1>1
<1>6. FreshPass'
    <2> SUFFICES ASSUME ~news, key \in Keys, KeyIn(rendered.config) \in Keys
                 PROVE  key = KeyIn(rendered.config)
        BY <1>2, <1>4, <1>5 DEF FreshPass
    <2> QED BY <1>3, Apart DEF Inv, SeenKey
<1> QED BY <1>2, <1>4, <1>6 DEF Inv, SeenKey

LEMMA ApplySecretInv == ASSUME Inv, ApplySecret PROVE Inv'
<1>1. /\ rec.pc = "apply" /\ rendered' = [exists |-> TRUE, config |-> rec.config]
      /\ news' = (news \/ rendered' # rendered) /\ rec'.pc = "idle"
      /\ UNCHANGED <<spec, secrets, seen>>
    BY DEF ApplySecret, Idle
<1>2. rendered'.config = rec.config /\ news' \in BOOLEAN
    BY <1>1
<1>3. ~news' => ~news /\ rendered' = rendered
    BY <1>1
<1> QED BY <1>1, <1>2, <1>3 DEF Inv, SeenKey, FreshPass

\* A pass that fails, a wake-up, a change of the FreqUIs: what the invariant is
\* about stays, but for a pass that ends.
LEMMA AsideInv ==
    ASSUME Inv, UNCHANGED <<spec, secrets, rendered, seen, news>>, rec' = rec \/ rec'.pc = "idle"
    PROVE  Inv'
BY DEF Inv, SeenKey, FreshPass

LEMMA DeliverInv == ASSUME Inv, Deliver PROVE Inv'
<1>1. seen' = KeyIn(rendered.config) /\ UNCHANGED <<spec, secrets, rendered, rec>> /\ news' = FALSE
    BY KeyOfStored DEF Deliver
<1>2. KeyIn(rendered.config) \in Good
    BY DEF Inv, Sound
<1> QED BY <1>1, <1>2 DEF Inv, SeenKey, FreshPass

LEMMA DeleteRenderedInv == ASSUME Inv, DeleteRendered PROVE Inv'
<1>1. rendered'.config = Nothing /\ news' = TRUE /\ UNCHANGED <<spec, secrets, seen, rec>>
    BY DEF DeleteRendered, Absent
<1> QED BY <1>1, NoConfig, Apart DEF Inv, SeenKey, FreshPass

LEMMA NewSpecInv == ASSUME Inv, NEW new, NewSpec(new), SpecKey(new) PROVE Inv'
BY DEF Inv, SeenKey, FreshPass, NewSpec

LEMMA EditSectionInv == ASSUME Inv, NEW s \in Sections, EditSection(s) PROVE Inv'
<1>1. PICK v \in Variants[s] : NewSpec(Over(spec, One(s, v)))
    BY DEF EditSection
<1> DEFINE new == Over(spec, One(s, v))
<1>2. SpecKey(new)
    <2>1. CASE s = "api_server"
        <3>1. "api_server" \in DOMAIN new /\ new["api_server"] = v
            BY <2>1 DEF Over, One
        <3> HIDE DEF new
        <3> QED BY <2>1, <3>1, VariantKey DEF SpecKey
    <2>2. CASE s # "api_server"
        <3>1. /\ "api_server" \in DOMAIN new => "api_server" \in DOMAIN spec
              /\ "api_server" \in DOMAIN spec => new["api_server"] = spec["api_server"]
            BY <2>2 DEF Over, One
        <3> HIDE DEF new
        <3> QED BY <3>1 DEF Inv, SpecKey
    <2> QED BY <2>1, <2>2
<1> HIDE DEF new
<1>3. NewSpec(new)
    BY <1>1 DEF new
<1> QED BY <1>2, <1>3, NewSpecInv

LEMMA RemoveSectionInv == ASSUME Inv, NEW s \in Sections, RemoveSection(s) PROVE Inv'
<1> DEFINE new == [x \in DOMAIN spec \ Within(s) |-> spec[x]]
<1>1. NewSpec(new)
    BY DEF RemoveSection
<1>2. SpecKey(new)
    BY DEF Inv, SpecKey
<1> HIDE DEF new
<1> QED BY <1>1, <1>2, NewSpecInv

LEMMA ChangeSecretInv == ASSUME Inv, NEW s \in WithSecret, ChangeSecret(s) PROVE Inv'
<1>1. secrets' \in [WithSecret -> Contents] /\ UNCHANGED <<spec, rendered, seen, news, rec>>
    BY DEF ChangeSecret, Inv
<1> QED BY <1>1 DEF Inv, SeenKey, FreshPass

LEMMA NextInv == Inv /\ [Next]_vars => Inv'
<1> SUFFICES ASSUME Inv, [Next]_vars PROVE Inv'
    OBVIOUS
<1>1. CASE Build \/ ApplySecret \/ Deliver \/ DeleteRendered
    BY <1>1, BuildInv, ApplySecretInv, DeliverInv, DeleteRenderedInv
<1>2. CASE PassFails \/ Wake \/ ChangeHosts \/ FreqUIEvent \/ FreqUIListSync \/ UNCHANGED vars
    BY <1>2, AsideInv DEF PassFails, Wake, ChangeHosts, FreqUIEvent, FreqUIListSync, vars, Idle
<1>3. CASE \E s \in Sections : EditSection(s) \/ RemoveSection(s)
    BY <1>3, EditSectionInv, RemoveSectionInv
<1>4. CASE \E s \in WithSecret : ChangeSecret(s)
    BY <1>4, ChangeSecretInv
<1> QED BY <1>1, <1>2, <1>3, <1>4 DEF Next

LEMMA Invariance == Spec => []Inv
BY InitInv, NextInv, PTL DEF Spec

\* The config a bot is given never enables its API server without a JWT key or
\* with a short one, however users edit the spec and the Secrets, passes fail and
\* the informer lags (resolveAPIServerJWTSecretKey, BuildFails).
THEOREM KeyCorrect == Spec => []EnabledHasKey
<1>1. Inv => EnabledHasKey
    <2> SUFFICES ASSUME Inv, EnabledIn(rendered.config)
                 PROVE  KeyIn(rendered.config) \notin {"", "weak"}
        BY KeyOfStored DEF EnabledHasKey, EnabledIn
    <2> QED BY Apart DEF Inv, Sound
<1> QED BY <1>1, Invariance, PTL

\* A pass that read the config Secret as it is stored does not replace a key that
\* an earlier one generated, so that a render does not log out every client
\* (existingAPIServerJWTSecretKey).
THEOREM KeyKept == Spec => KeySurvives
<1>1. Inv /\ [Next]_vars =>
        [LET old == existingAPIServerJWTSecretKey(rendered)
             new == existingAPIServerJWTSecretKey(rendered')
         IN  rec.fresh /\ old \in Keys /\ new \in Keys => new = old]_vars
    <2> SUFFICES ASSUME Inv, [Next]_vars, rec.fresh, KeyIn(rendered.config) \in Keys,
                        KeyIn(rendered'.config) \in Keys
                 PROVE  KeyIn(rendered'.config) = KeyIn(rendered.config)
        BY KeyOfStored
    <2>1. CASE ApplySecret
        <3>1. rec.pc = "apply" /\ rendered'.config = rec.config
            BY <2>1 DEF ApplySecret
        <3> QED BY <3>1 DEF Inv, FreshPass
    <2>2. CASE DeleteRendered
        <3>1. rendered'.config = Nothing
            BY <2>2 DEF DeleteRendered, Absent
        <3> QED BY <3>1, NoConfig, Apart
    <2>3. CASE rendered' = rendered
        BY <2>3
    <2>4. ApplySecret \/ DeleteRendered \/ rendered' = rendered
        BY DEF Next, Build, PassFails, Deliver, Wake, EditSection, RemoveSection, NewSpec,
               ChangeSecret, ChangeHosts, FreqUIEvent, FreqUIListSync, vars
    <2> QED BY <2>1, <2>2, <2>3, <2>4
<1> QED BY <1>1, Invariance, PTL DEF Spec, KeySurvives

-------------------------------------------------------------------------------
\* What the credential Secrets and the key do not show in.

Secretive == {"username", "jwt_secret_key", "token", "chat_id"} \cup Credentials

\* Two objects that agree but for what comes from Secrets have the same public part.
LEMMA SamePublicPart ==
    ASSUME NEW x, NEW y,
           \A k : k \notin Secretive =>
               (k \in DOMAIN x <=> k \in DOMAIN y) /\ (k \in DOMAIN x => x[k] = y[k])
    PROVE  Copied(x, DOMAIN x \ Secretive) = Copied(y, DOMAIN y \ Secretive)
BY DEF Copied

\* Two objects laid over the same one, each with nothing but credentials.
LEMMA SameOver ==
    ASSUME NEW base, NEW x, NEW y, DOMAIN x \subseteq Secretive, DOMAIN y \subseteq Secretive
    PROVE  \A k : k \notin Secretive =>
             /\ k \in DOMAIN Over(base, x) <=> k \in DOMAIN Over(base, y)
             /\ k \in DOMAIN Over(base, x) => Over(base, x)[k] = Over(base, y)[k]
BY DEF Over

\* An object laid over two that agree, and two that agree over the same one.
LEMMA OverSame ==
    ASSUME NEW x, NEW y, NEW u, NEW v,
           \A k : k \notin Secretive =>
               (k \in DOMAIN x <=> k \in DOMAIN y) /\ (k \in DOMAIN x => x[k] = y[k]),
           \A k : k \notin Secretive =>
               (k \in DOMAIN u <=> k \in DOMAIN v) /\ (k \in DOMAIN u => u[k] = v[k])
    PROVE  \A k : k \notin Secretive =>
             /\ k \in DOMAIN Over(x, u) <=> k \in DOMAIN Over(y, v)
             /\ k \in DOMAIN Over(x, u) => Over(x, u)[k] = Over(y, v)[k]
BY DEF Over

\* The domain of an object that is renamed or copied.
LEMMA PartDomain ==
    ASSUME NEW sec, NEW from, NEW to, NEW keys
    PROVE  DOMAIN Renamed(sec, from, to) \subseteq {to} /\ DOMAIN Copied(sec, keys) \subseteq keys
BY OneField, NothingEmpty DEF Renamed, Copied

\* Credentials and keys are all that differs between two renderings of the API server.
LEMMA ServerPublic ==
    ASSUME NEW api, NEW d, NEW e, NEW j, NEW k, NEW h
    PROVE  \A f : f \notin Secretive =>
             LET x == buildAPIServerConfig(api, d, j, h)
                 y == buildAPIServerConfig(api, e, k, h)
             IN (f \in DOMAIN x <=> f \in DOMAIN y) /\ (f \in DOMAIN x => x[f] = y[f])
<1> DEFINE plain == Copied(api, {"enabled", "listen_ip_address", "listen_port", "verbosity",
                                 "enable_openapi", "username", "password"})
           cred(c) == Over(Renamed(c, "user", "username"), Copied(c, {"password"}))
           jwt(key) == IF key = "" THEN Nothing ELSE One("jwt_secret_key", key)
           cors == CORSOrigins(api, h)
<1>1. ASSUME NEW c PROVE DOMAIN cred(c) \subseteq Secretive
    <2>1. /\ DOMAIN Renamed(c, "user", "username") \subseteq {"username"}
          /\ DOMAIN Copied(c, {"password"}) \subseteq {"password"}
        BY PartDomain
    <2> QED BY <2>1 DEF Over, Secretive, Credentials
<1>2. ASSUME NEW key PROVE DOMAIN jwt(key) \subseteq Secretive
    <2>1. DOMAIN One("jwt_secret_key", key) = {"jwt_secret_key"}
        BY DEF One
    <2>2. DOMAIN jwt(key) \subseteq {"jwt_secret_key"}
        BY <2>1, NothingEmpty
    <2> QED BY <2>2 DEF Secretive
<1>3. /\ buildAPIServerConfig(api, d, j, h) = Over(Over(plain, cred(d)), Over(jwt(j), cors))
      /\ buildAPIServerConfig(api, e, k, h) = Over(Over(plain, cred(e)), Over(jwt(k), cors))
    BY DEF buildAPIServerConfig
<1> HIDE DEF plain, cred, jwt, cors
<1>4. DOMAIN cred(d) \subseteq Secretive /\ DOMAIN cred(e) \subseteq Secretive
      /\ DOMAIN jwt(j) \subseteq Secretive /\ DOMAIN jwt(k) \subseteq Secretive
    BY <1>1, <1>2
<1>5. \A f : f \notin Secretive =>
        /\ f \in DOMAIN Over(plain, cred(d)) <=> f \in DOMAIN Over(plain, cred(e))
        /\ f \in DOMAIN Over(plain, cred(d)) => Over(plain, cred(d))[f] = Over(plain, cred(e))[f]
    BY <1>4, SameOver
<1>6. \A f : f \notin Secretive =>
        /\ f \in DOMAIN Over(jwt(j), cors) <=> f \in DOMAIN Over(jwt(k), cors)
        /\ f \in DOMAIN Over(jwt(j), cors) => Over(jwt(j), cors)[f] = Over(jwt(k), cors)[f]
    BY <1>4 DEF Over
<1>7. \A f : f \notin Secretive =>
        LET x == Over(Over(plain, cred(d)), Over(jwt(j), cors))
            y == Over(Over(plain, cred(e)), Over(jwt(k), cors))
        IN (f \in DOMAIN x <=> f \in DOMAIN y) /\ (f \in DOMAIN x => x[f] = y[f])
    BY <1>5, <1>6, OverSame
<1> QED BY <1>3, <1>7

\* The same for the exchange's and for Telegram's object.
LEMMA ExchangePublic ==
    ASSUME NEW sp, NEW d, NEW e
    PROVE  \A f : f \notin Secretive =>
             LET x == BuildExchangeConfig(sp, d)
                 y == BuildExchangeConfig(sp, e)
             IN (f \in DOMAIN x <=> f \in DOMAIN y) /\ (f \in DOMAIN x => x[f] = y[f])
<1> DEFINE plain == Copied(sp.exchange, Credentials)
           cred(c) == Over(Renamed(c, "api-key", "key"), Copied(c, Credentials \ {"key"}))
           rest == Copied(sp.exchange, {"name", "log_responses", "enable_ws", "unknown_fee_rate",
                                     "outdated_offset", "markets_refresh_interval",
                                     "ccxt_config", "ccxt_async_config", "ccxt_sync_config"})
           pairs == Over(Renamed(Given(sp, "whitelist"), "pairs", "pair_whitelist"),
                         Renamed(Given(sp, "blacklist"), "pairs", "pair_blacklist"))
<1>1. ASSUME NEW c PROVE DOMAIN cred(c) \subseteq Secretive
    <2>1. /\ DOMAIN Renamed(c, "api-key", "key") \subseteq {"key"}
          /\ DOMAIN Copied(c, Credentials \ {"key"}) \subseteq Credentials
        BY PartDomain
    <2> QED BY <2>1 DEF Over, Secretive, Credentials
<1>2. /\ BuildExchangeConfig(sp, d) = Over(Over(Over(plain, cred(d)), rest), pairs)
      /\ BuildExchangeConfig(sp, e) = Over(Over(Over(plain, cred(e)), rest), pairs)
    BY DEF BuildExchangeConfig, applyExchangeCredentials
<1> HIDE DEF plain, cred, rest, pairs
<1>3. DOMAIN cred(d) \subseteq Secretive /\ DOMAIN cred(e) \subseteq Secretive
    BY <1>1
<1>4. \A f : f \notin Secretive =>
        /\ f \in DOMAIN Over(plain, cred(d)) <=> f \in DOMAIN Over(plain, cred(e))
        /\ f \in DOMAIN Over(plain, cred(d)) => Over(plain, cred(d))[f] = Over(plain, cred(e))[f]
    BY <1>3, SameOver
<1>5. \A f : f \notin Secretive =>
        LET x == Over(Over(plain, cred(d)), rest)
            y == Over(Over(plain, cred(e)), rest)
        IN (f \in DOMAIN x <=> f \in DOMAIN y) /\ (f \in DOMAIN x => x[f] = y[f])
    BY <1>4, OverSame
<1>6. \A f : f \notin Secretive =>
        LET x == Over(Over(Over(plain, cred(d)), rest), pairs)
            y == Over(Over(Over(plain, cred(e)), rest), pairs)
        IN (f \in DOMAIN x <=> f \in DOMAIN y) /\ (f \in DOMAIN x => x[f] = y[f])
    BY <1>5, OverSame
<1> QED BY <1>2, <1>6

\* The token and the chat id are all that a Secret changes in the Telegram section.
LEMMA TelegramPublic ==
    ASSUME NEW telegram, NEW d, NEW e
    PROVE  \A f : f \notin Secretive =>
             LET x == buildTelegramConfig(telegram, d)
                 y == buildTelegramConfig(telegram, e)
             IN (f \in DOMAIN x <=> f \in DOMAIN y) /\ (f \in DOMAIN x => x[f] = y[f])
<1> DEFINE plain == Copied(telegram, {"enabled", "balance_dust_level", "reload",
                                      "allow_custom_messages", "topic_id", "authorized_users"})
           token(c) == IF "secretRef" \in DOMAIN telegram
                       THEN Over(Copied(c, {"token"}), Renamed(c, "chat-id", "chat_id"))
                       ELSE Copied(telegram, {"token", "chat_id"})
<1>1. ASSUME NEW c PROVE DOMAIN token(c) \subseteq Secretive
    <2>1. /\ DOMAIN Renamed(c, "chat-id", "chat_id") \subseteq {"chat_id"}
          /\ DOMAIN Copied(c, {"token"}) \subseteq {"token"}
          /\ DOMAIN Copied(telegram, {"token", "chat_id"}) \subseteq {"token", "chat_id"}
        BY PartDomain
    <2> QED BY <2>1 DEF Over, Secretive
<1>2. /\ buildTelegramConfig(telegram, d) = Over(plain, token(d))
      /\ buildTelegramConfig(telegram, e) = Over(plain, token(e))
    BY DEF buildTelegramConfig
<1> HIDE DEF plain, token
<1>3. DOMAIN token(d) \subseteq Secretive /\ DOMAIN token(e) \subseteq Secretive
    BY <1>1
<1> QED BY <1>2, <1>3, SameOver

\* What BuildConfig renders is the same, but for credentials, whatever the credential
\* Secrets hold and whichever key is decided on.
LEMMA PublicSame ==
    ASSUME NEW sp, NEW s1, NEW s2, NEW j, NEW k, NEW h
    PROVE  Public(BuildConfig(sp, s1, j, h)) = Public(BuildConfig(sp, s2, k, h))
<1> DEFINE x == BuildConfig(sp, s1, j, h)
           y == BuildConfig(sp, s2, k, h)
<1>1. DOMAIN x = DOMAIN y
    BY DEF BuildConfig
<1>2. ASSUME NEW o \in DOMAIN x PROVE Copied(x[o], DOMAIN x[o] \ Secretive)
                                        = Copied(y[o], DOMAIN y[o] \ Secretive)
    <2>0. o \in {"top"} \cup {s \in DOMAIN sp : Shown(sp, s)}
        BY DEF BuildConfig
    <2>1. CASE o = "api_server"
        <3>1. /\ x[o] = buildAPIServerConfig(sp[o], GetSecretData(sp, s1, o), j, h)
              /\ y[o] = buildAPIServerConfig(sp[o], GetSecretData(sp, s2, o), k, h)
            BY <2>0, <2>1 DEF BuildConfig
        <3> HIDE DEF x, y
        <3>2. \A f : f \notin Secretive =>
                (f \in DOMAIN x[o] <=> f \in DOMAIN y[o]) /\ (f \in DOMAIN x[o] => x[o][f] = y[o][f])
            BY <3>1, ServerPublic
        <3> QED BY <3>2, SamePublicPart
    <2>2. CASE o = "exchange"
        <3>1. /\ x[o] = BuildExchangeConfig(sp, GetSecretData(sp, s1, o))
              /\ y[o] = BuildExchangeConfig(sp, GetSecretData(sp, s2, o))
            BY <2>0, <2>2 DEF BuildConfig
        <3> HIDE DEF x, y
        <3>2. \A f : f \notin Secretive =>
                (f \in DOMAIN x[o] <=> f \in DOMAIN y[o]) /\ (f \in DOMAIN x[o] => x[o][f] = y[o][f])
            BY <3>1, ExchangePublic
        <3> QED BY <3>2, SamePublicPart
    <2>3. CASE o = "telegram"
        <3>1. /\ x[o] = buildTelegramConfig(sp[o], GetSecretData(sp, s1, o))
              /\ y[o] = buildTelegramConfig(sp[o], GetSecretData(sp, s2, o))
            BY <2>0, <2>3 DEF BuildConfig
        <3> HIDE DEF x, y
        <3>2. \A f : f \notin Secretive =>
                (f \in DOMAIN x[o] <=> f \in DOMAIN y[o]) /\ (f \in DOMAIN x[o] => x[o][f] = y[o][f])
            BY <3>1, TelegramPublic
        <3> QED BY <3>2, SamePublicPart
    <2>4. CASE o \notin {"api_server", "exchange", "telegram"}
        <3>1. x[o] = y[o]
            BY <2>0, <2>4 DEF BuildConfig
        <3> QED BY <3>1
    <2> QED BY <2>1, <2>2, <2>3, <2>4
<1> HIDE DEF x, y
<1>3. ASSUME NEW c PROVE Public(c) = [o \in DOMAIN c |-> Copied(c[o], DOMAIN c[o] \ Secretive)]
    BY DEF Public, Secretive
<1>4. Public(x) = Public(y)
    BY <1>1, <1>2, <1>3
<1> QED BY <1>4 DEF x, y

-------------------------------------------------------------------------------
\* At rest.

Wanted(h) == Public(BuildConfig(spec, secrets, "", h))

\* A config rendered from the spec as it is, and from the FreqUIs as they are unless the
\* pass read their list too early.
Fits(config) == \E h \in BOOLEAN : (h = hosts \/ behind) /\ Public(config) = Wanted(h)

\* A pass that no event has overtaken carries what is wanted now, and once it has applied
\* it that is what is stored, until someone touches the Secret and the informer says so.
Current ==
    /\ rec.pc \in {"idle", "apply"} /\ queued \in BOOLEAN
    /\ hosts \in BOOLEAN /\ listed \in BOOLEAN
    /\ rec.pc = "apply" /\ ~queued /\ ~woken => Fits(rec.config)
    /\ RestIsCurrent

\* A step after which the bot's key is queued or will be.
LEMMA QueuedCurrent ==
    ASSUME queued' \/ woken', queued' \in BOOLEAN, hosts' \in BOOLEAN, listed' \in BOOLEAN,
           rec'.pc \in {"idle", "apply"}
    PROVE  Current'
BY DEF Current, RestIsCurrent

\* A changed Secret does not change what is wanted: credentials are not public.
LEMMA SameWanted ==
    ASSUME spec' = spec, NEW h PROVE Public(BuildConfig(spec', secrets', "", h)) = Wanted(h)
<1>1. PICK t : t = secrets'
    OBVIOUS
<1>2. PICK e : e = ""
    OBVIOUS
<1>3. Public(BuildConfig(spec, t, e, h)) = Public(BuildConfig(spec, secrets, e, h))
    BY PublicSame
<1> QED BY <1>1, <1>2, <1>3 DEF Wanted

\* What fits goes on to fit as long as neither the spec nor the FreqUIs change.
LEMMA SameFits ==
    ASSUME UNCHANGED <<spec, hosts, behind>>, NEW c, Fits(c)
    PROVE  \E h \in BOOLEAN : (h = hosts' \/ behind')
                             /\ Public(c) = Public(BuildConfig(spec', secrets', "", h))
BY SameWanted DEF Fits

\* RestIsCurrent, in terms of what is wanted.
LEMMA RestWanted == RestIsCurrent <=>
    (rec.pc = "idle" /\ ~queued /\ ~news /\ ~woken => Fits(rendered.config))
BY DEF RestIsCurrent, Fits, Wanted

\* A step that leaves the spec, the FreqUIs and the queue alone, and that keeps what fits.
LEMMA KeepsCurrent ==
    ASSUME Current, UNCHANGED <<spec, hosts, behind, queued, woken>>, listed' \in BOOLEAN,
           rec'.pc \in {"idle", "apply"},
           ~queued /\ ~woken /\ rec'.pc = "apply" => Fits(rec'.config),
           ~queued /\ ~woken /\ ~news' /\ rec'.pc = "idle" => Fits(rendered'.config)
    PROVE  Current'
<1>1. ASSUME ~queued, ~woken, rec'.pc = "apply" PROVE Fits(rec.config)'
    <2>1. PICK c : c = rec'.config
        OBVIOUS
    <2>2. \E h \in BOOLEAN : (h = hosts' \/ behind')
                             /\ Public(c) = Public(BuildConfig(spec', secrets', "", h))
        BY <1>1, <2>1, SameFits
    <2> QED BY <2>1, <2>2 DEF Fits, Wanted
<1>2. ASSUME ~queued, ~woken, ~news', rec'.pc = "idle"
      PROVE  \E h \in BOOLEAN : (h = hosts' \/ behind') /\
                Public(rendered'.config) = Public(BuildConfig(spec', secrets', "", h))
    <2>1. PICK c : c = rendered'.config
        OBVIOUS
    <2> QED BY <1>2, <2>1, SameFits
<1> QED BY <1>1, <1>2 DEF Current, RestIsCurrent

\* Every edit queues the key; a pass that is not overtaken renders what is wanted.
LEMMA NextCurrent == Inv /\ Current /\ [Next]_vars => Current'
<1> SUFFICES ASSUME Inv, Current, [Next]_vars PROVE Current'
    OBVIOUS
<1>0. /\ rec.pc \in {"idle", "apply"} /\ queued \in BOOLEAN
      /\ hosts \in BOOLEAN /\ listed \in BOOLEAN
      /\ ~queued /\ ~woken /\ rec.pc = "apply" => Fits(rec.config)
      /\ ~queued /\ ~woken /\ ~news /\ rec.pc = "idle" => Fits(rendered.config)
    BY RestWanted DEF Current
<1>1. CASE Build
    <2>1. PICK key \in resolveAPIServerJWTSecretKey(spec, secrets, seen) :
            rec' = [pc |-> "apply", spec |-> spec, secrets |-> secrets,
                    config |-> BuildConfig(spec, secrets, key, listed), fresh |-> ~news]
        BY <1>1 DEF Build
    <2>2. /\ UNCHANGED <<spec, hosts, listed, woken, secrets>> /\ queued' = FALSE
          /\ behind' = (listed # hosts)
        BY <1>1 DEF Build
    <2>3. rec'.pc = "apply" /\ rec'.config = BuildConfig(spec, secrets, key, listed)
        BY <2>1
    <2>4. Public(rec'.config) = Wanted(listed)
        <3>1. Public(BuildConfig(spec, secrets, key, listed))
                = Public(BuildConfig(spec, secrets, "", listed))
            BY PublicSame, Zenon
        <3> QED BY <2>3, <3>1 DEF Wanted
    <2>5. listed = hosts' \/ behind'
        BY <2>2
    <2>6. Public(rec'.config) = Public(BuildConfig(spec', secrets', "", listed))
        BY <2>2, <2>4, SameWanted
    <2>7. Fits(rec.config)'
        BY <1>0, <2>5, <2>6 DEF Fits, Wanted
    <2> QED BY <1>0, <2>2, <2>3, <2>7 DEF Current, RestIsCurrent
<1>2. CASE ApplySecret
    <2>1. /\ rec.pc = "apply" /\ rendered'.config = rec.config /\ rec'.pc = "idle"
          /\ UNCHANGED <<spec, hosts, listed, woken, behind, secrets, queued>>
        BY <1>2 DEF ApplySecret, Idle, frequis
    <2> QED BY <1>0, <2>1, KeepsCurrent
<1>3. CASE PassFails \/ Deliver \/ Wake \/ ChangeHosts \/ FreqUIEvent
    <2>1. /\ queued' \/ woken'
          /\ queued' \in BOOLEAN
          /\ hosts' \in BOOLEAN /\ listed' \in BOOLEAN /\ rec'.pc \in {"idle", "apply"}
        <3>1. CASE ChangeHosts
            <4>1. hosts' = ~hosts /\ woken' = TRUE /\ UNCHANGED <<listed, rec, queued>>
                BY <3>1 DEF ChangeHosts
            <4> QED BY <1>0, <4>1
        <3>2. CASE PassFails \/ Deliver \/ Wake \/ FreqUIEvent
            <4>1. queued' = TRUE /\ UNCHANGED <<hosts, listed>> /\ (rec' = rec \/ rec'.pc = "idle")
                BY <3>2 DEF PassFails, Deliver, Wake, FreqUIEvent, Idle, frequis
            <4> QED BY <1>0, <4>1
        <3> QED BY <1>3, <3>1, <3>2
    <2> QED BY <2>1, QueuedCurrent
<1>4. CASE \E s \in Sections : EditSection(s) \/ RemoveSection(s)
    <2>1. queued' = TRUE /\ rec'.pc \in {"idle", "apply"} /\ UNCHANGED <<hosts, listed>>
        BY <1>0, <1>4 DEF EditSection, RemoveSection, NewSpec, frequis
    <2> QED BY <1>0, <2>1, QueuedCurrent
<1>5. CASE UNCHANGED vars \/ \E s \in WithSecret : ChangeSecret(s)
    <2>1. UNCHANGED <<spec, hosts, listed, woken, behind, rendered, rec, queued, news>>
        BY <1>5 DEF ChangeSecret, vars, frequis
    <2> QED BY <1>0, <2>1, KeepsCurrent
<1>6. CASE DeleteRendered
    <2>1. /\ UNCHANGED <<spec, hosts, listed, woken, behind, secrets, rec, queued>>
          /\ news' = TRUE
        BY <1>6 DEF DeleteRendered, frequis
    <2> QED BY <1>0, <2>1, KeepsCurrent
<1>7. CASE FreqUIListSync
    <2>1. /\ UNCHANGED <<spec, hosts, woken, behind, rendered, rec, queued, news>>
          /\ listed' \in BOOLEAN
        BY <1>0, <1>7 DEF FreqUIListSync
    <2> QED BY <1>0, <2>1, KeepsCurrent
<1> QED BY <1>1, <1>2, <1>3, <1>4, <1>5, <1>6, <1>7 DEF Next

\* At rest, the stored config.json is that of the TradeBotConfig as it is now and, unless
\* the last pass listed the FreqUIs before the list had caught up, of the FreqUIs as they
\* are now, credentials aside: every edit queues a pass, a pass that an edit overtook is
\* followed by another, and a lost or deleted Secret is rendered again (setup.go:66-90).
THEOREM RestCorrect == Spec => []RestIsCurrent
<1>1. Init => Current
    <2> SUFFICES ASSUME Init PROVE Current
        OBVIOUS
    <2>1. rec.pc = "idle" /\ queued = TRUE /\ hosts = FALSE /\ listed = FALSE
        BY DEF Init, Idle
    <2> QED BY <2>1 DEF Current, RestIsCurrent
<1>2. Current => RestIsCurrent
    BY DEF Current
<1> QED BY <1>1, <1>2, NextCurrent, Invariance, PTL DEF Spec

-------------------------------------------------------------------------------
\* Every field.

\* The fields whose key or value in config.json is another than their own.
Odd == {"stake_amount", "lookback_days_range", "lookback_days_volatility"}

\* obj has every field of section s that sec sets, with its value.
Complete(s, obj, sec) ==
    \A f \in Fields(s) :
        f \notin Odd /\ (f \in DOMAIN sec => f \in DOMAIN obj /\ obj[f] = sec[f])

\* The builders of sections that are objects of their own forget no field of the struct.
LEMMA CompleteObjects ==
    ASSUME NEW sec
    PROVE
        /\ Complete("freqai", buildFreqAIConfig(sec), sec)
        /\ Complete("feature_parameters", buildFeatureParametersConfig(sec), sec)
        /\ Complete("svm_params", buildSVMParamsConfig(sec), sec)
        /\ Complete("data_split_parameters", buildDataSplitParametersConfig(sec), sec)
        /\ Complete("rl_config", buildRLConfigMap(sec), sec)
        /\ Complete("model_reward_parameters", buildModelRewardParametersConfig(sec), sec)
        /\ Complete("unfilledtimeout", buildUnfilledTimeoutConfig(sec), sec)
        /\ Complete("internals", buildInternalsConfigFields(sec), sec)
        /\ Complete("entry_depth", CheckDepthOfMarket(sec), sec)
        /\ Complete("exit_depth", CheckDepthOfMarket(sec), sec)
        /\ Complete("order_types", BuildOrderTypesConfig(sec), sec)
        /\ Complete("order_time_in_force", BuildOrderTimeInForceConfig(sec), sec)
        /\ Complete("orderflow", BuildOrderflowConfig(sec), sec)
        /\ Complete("experimental", Copied(sec, {"block_bad_exchanges"}), sec)
        /\ Complete("logging", Copied(sec, {"version"}), sec)
        /\ Complete("notification_settings", buildTelegramSettingsConfig(sec), sec)
        /\ Complete("discord", buildDiscordConfig(sec), sec)
<1> USE DEF Complete, Odd, Fields, TradeBotConfigSpec, Struct, Copied
<1>1. Complete("freqai", buildFreqAIConfig(sec), sec)
    BY DEF AIConfig, buildFreqAIConfig
<1>2. Complete("feature_parameters", buildFeatureParametersConfig(sec), sec)
    BY DEF FeatureParameters, buildFeatureParametersConfig
<1>3. Complete("svm_params", buildSVMParamsConfig(sec), sec)
    BY DEF SVMParams, buildSVMParamsConfig
<1>4. Complete("data_split_parameters", buildDataSplitParametersConfig(sec), sec)
    BY DEF DataSplitParameters, buildDataSplitParametersConfig
<1>5. Complete("rl_config", buildRLConfigMap(sec), sec)
    BY DEF RLConfig, buildRLConfigMap
<1>6. Complete("model_reward_parameters", buildModelRewardParametersConfig(sec), sec)
    BY DEF ModelRewardParameters, buildModelRewardParametersConfig
<1>7. Complete("unfilledtimeout", buildUnfilledTimeoutConfig(sec), sec)
    BY DEF UnfilledTimeoutConfig, buildUnfilledTimeoutConfig
<1>8. Complete("internals", buildInternalsConfigFields(sec), sec)
    BY DEF InternalsConfig, buildInternalsConfigFields
<1>9. Complete("entry_depth", CheckDepthOfMarket(sec), sec)
    BY DEF PricingCheckDepthOfMarket, CheckDepthOfMarket
<1>10. Complete("exit_depth", CheckDepthOfMarket(sec), sec)
    BY DEF PricingCheckDepthOfMarket, CheckDepthOfMarket
<1>11. Complete("order_types", BuildOrderTypesConfig(sec), sec)
    BY DEF Types, BuildOrderTypesConfig
<1>12. Complete("order_time_in_force", BuildOrderTimeInForceConfig(sec), sec)
    BY DEF TimeInForce, BuildOrderTimeInForceConfig
<1>13. Complete("orderflow", BuildOrderflowConfig(sec), sec)
    BY DEF Flow, BuildOrderflowConfig
<1>14. Complete("experimental", Copied(sec, {"block_bad_exchanges"}), sec)
    BY DEF ExperimentalConfig
<1>15. Complete("logging", Copied(sec, {"version"}), sec)
    BY DEF LoggingConfig
<1>16. Complete("notification_settings", buildTelegramSettingsConfig(sec), sec)
    BY DEF NotificationTelegramSettings, buildTelegramSettingsConfig
<1>17. Complete("discord", buildDiscordConfig(sec), sec)
    BY DEF NotificationDiscord, buildDiscordConfig
<1> HIDE DEF Complete, Odd, Fields, TradeBotConfigSpec, Struct, Copied
<1> QED BY <1>1, <1>2, <1>3, <1>4, <1>5, <1>6, <1>7, <1>8, <1>9, <1>10, <1>11, <1>12, <1>13,
           <1>14, <1>15, <1>16, <1>17

\* The sections whose fields share the top-level object have no key in common.
LEMMA TopApart ==
    /\ \A f \in Fields("bot") : f \notin Fields("data") \cup Fields("advanced") \cup Fields("risk")
    /\ \A f \in Fields("data") : f \notin Fields("advanced") \cup Fields("risk")
    /\ \A f \in Fields("advanced") : f \notin Fields("risk")
<1> USE DEF Fields, TradeBotConfigSpec, Struct, BotConfig, DataConfig, AdvancedConfig,
            RiskManagementSpec
<1>1. \A f \in Fields("bot") : f \notin Fields("data") \cup Fields("advanced")
    OBVIOUS
<1>2. \A f \in Fields("bot") : f \notin Fields("risk")
    OBVIOUS
<1>3. \A f \in Fields("data") : f \notin Fields("advanced") \cup Fields("risk")
    OBVIOUS
<1>4. \A f \in Fields("advanced") : f \notin Fields("risk")
    OBVIOUS
<1> HIDE DEF Fields
<1> QED BY <1>1, <1>2, <1>3, <1>4

\* What each of them writes.
LEMMA TopParts ==
    ASSUME NEW bot, NEW sec
    PROVE  /\ \A f \in Fields("bot") : f \in DOMAIN bot =>
                 /\ f \in DOMAIN buildBotConfigFields(bot)
                 /\ buildBotConfigFields(bot)[f] =
                      IF f = "stake_amount" THEN renderStakeAmount(bot[f]) ELSE bot[f]
           /\ Complete("data", buildDataConfigFields(sec), sec)
           /\ \A f \in Fields("advanced") :
                 /\ f \notin Odd
                 /\ f \in DOMAIN sec /\ (f = "cancel_open_orders_on_exit" => sec[f] # "zero")
                      => /\ f \in DOMAIN buildAdvancedConfigFields(sec)
                         /\ buildAdvancedConfigFields(sec)[f] = sec[f]
           /\ Complete("risk", BuildRiskManagementConfig(sec), sec)
           /\ DOMAIN buildDataConfigFields(sec) \subseteq Fields("data")
           /\ DOMAIN buildAdvancedConfigFields(sec) \subseteq Fields("advanced")
           /\ DOMAIN BuildRiskManagementConfig(sec) \subseteq Fields("risk")
<1> USE DEF Complete, Odd, Fields, TradeBotConfigSpec, Struct, Copied
<1>1. ASSUME NEW f \in Fields("bot"), f \in DOMAIN bot
      PROVE  /\ f \in DOMAIN buildBotConfigFields(bot)
             /\ buildBotConfigFields(bot)[f] =
                  IF f = "stake_amount" THEN renderStakeAmount(bot[f]) ELSE bot[f]
    <2> DEFINE copy == Copied(bot, {"trading_mode", "dry_run", "dry_run_wallet", "stake_currency",
                          "max_open_trades", "fiat_display_currency", "db_url", "export",
                          "disableparamexport", "disable_dataframe_checks"})
               stake == IF "stake_amount" \in DOMAIN bot
                        THEN One("stake_amount", renderStakeAmount(bot["stake_amount"]))
                        ELSE Nothing
               named == Over(One("bot_name", "TradeBot"), Copied(bot, {"bot_name"}))
    <2>1. buildBotConfigFields(bot) = Over(Over(named, stake), copy)
        BY DEF buildBotConfigFields
    <2>2. CASE f = "stake_amount"
        <3>1. f \in DOMAIN stake /\ stake[f] = renderStakeAmount(bot[f])
            BY <1>1, <2>2 DEF One
        <3>2. f \notin DOMAIN copy
            BY <2>2
        <3> HIDE DEF stake, copy, named
        <3> QED BY <2>1, <2>2, <3>1, <3>2 DEF Over
    <2>3. CASE f = "bot_name"
        <3>1. f \in DOMAIN named /\ named[f] = bot[f]
            BY <1>1, <2>3 DEF Over
        <3>2. f \notin DOMAIN copy
            BY <2>3
        <3>3. f \notin DOMAIN stake
            BY <2>3, NothingEmpty DEF One
        <3> HIDE DEF stake, copy, named
        <3> QED BY <2>1, <2>3, <3>1, <3>2, <3>3 DEF Over
    <2>4. CASE f \notin {"stake_amount", "bot_name"}
        <3>1. f \in DOMAIN copy /\ copy[f] = bot[f]
            BY <1>1, <2>4 DEF BotConfig
        <3> HIDE DEF stake, copy, named
        <3> QED BY <2>1, <2>4, <3>1 DEF Over
    <2> QED BY <2>2, <2>3, <2>4
<1>2. Complete("data", buildDataConfigFields(sec), sec)
    BY DEF DataConfig, buildDataConfigFields
<1>3. \A f \in Fields("advanced") :
         /\ f \notin Odd
         /\ f \in DOMAIN sec /\ (f = "cancel_open_orders_on_exit" => sec[f] # "zero")
              => /\ f \in DOMAIN buildAdvancedConfigFields(sec)
                 /\ buildAdvancedConfigFields(sec)[f] = sec[f]
    BY DEF AdvancedConfig, buildAdvancedConfigFields, IsTrue
<1>4. Complete("risk", BuildRiskManagementConfig(sec), sec)
    BY DEF RiskManagementSpec, BuildRiskManagementConfig
<1>5. DOMAIN buildDataConfigFields(sec) \subseteq Fields("data")
    BY DEF DataConfig, buildDataConfigFields
<1>6. DOMAIN buildAdvancedConfigFields(sec) \subseteq Fields("advanced")
    BY DEF AdvancedConfig, buildAdvancedConfigFields
<1>7. DOMAIN BuildRiskManagementConfig(sec) \subseteq Fields("risk")
    BY DEF RiskManagementSpec, BuildRiskManagementConfig
<1> HIDE DEF Complete, Odd, Fields, TradeBotConfigSpec, Struct, Copied
<1> QED BY <1>1, <1>2, <1>3, <1>4, <1>5, <1>6, <1>7

TopObject(sp) == Over(BuildTradeBotConfig(sp), BuildRiskManagementConfig(Given(sp, "risk")))

\* None of them loses a field to the ones laid over it.
LEMMA TopComplete ==
    ASSUME NEW sp, NEW s \in {"bot", "data", "advanced", "risk"}, s \in DOMAIN sp,
           NEW f \in Fields(s), f \in DOMAIN sp[s],
           f = "cancel_open_orders_on_exit" => sp[s][f] # "zero"
    PROVE  /\ f \in DOMAIN TopObject(sp)
           /\ TopObject(sp)[f] = IF f = "stake_amount" THEN renderStakeAmount(sp[s][f]) ELSE sp[s][f]
           /\ f \notin Odd \ {"stake_amount"}
<1> DEFINE bot == IF "bot" \in DOMAIN sp THEN buildBotConfigFields(sp["bot"]) ELSE Nothing
           data == buildDataConfigFields(Given(sp, "data"))
           adv == buildAdvancedConfigFields(Given(sp, "advanced"))
           risk == BuildRiskManagementConfig(Given(sp, "risk"))
<1>1. TopObject(sp) = Over(Over(Over(bot, data), adv), risk)
    BY DEF TopObject, BuildTradeBotConfig
<1>2. DOMAIN data \subseteq Fields("data") /\ DOMAIN adv \subseteq Fields("advanced")
      /\ DOMAIN risk \subseteq Fields("risk")
    BY TopParts
<1>3. s \in DOMAIN sp => Given(sp, s) = sp[s]
    BY DEF Given
<1>4. CASE s = "bot"
    <2>1. /\ f \in DOMAIN bot
          /\ bot[f] = IF f = "stake_amount" THEN renderStakeAmount(sp[s][f]) ELSE sp[s][f]
        BY <1>4, TopParts
    <2>2. f \notin DOMAIN data /\ f \notin DOMAIN adv /\ f \notin DOMAIN risk
        BY <1>2, <1>4, TopApart
    <2>3. f \notin Odd \ {"stake_amount"}
        BY <1>4 DEF Odd, Fields, TradeBotConfigSpec, Struct, BotConfig
    <2> HIDE DEF bot, data, adv, risk
    <2> QED BY <1>1, <2>1, <2>2, <2>3 DEF Over
<1>5. CASE s = "data"
    <2>1. f \in DOMAIN data /\ data[f] = sp[s][f] /\ f \notin Odd
        <3>1. Complete("data", data, Given(sp, "data"))
            BY TopParts
        <3> HIDE DEF data
        <3> QED BY <1>3, <1>5, <3>1 DEF Complete
    <2>2. f \notin DOMAIN adv /\ f \notin DOMAIN risk
        BY <1>2, <1>5, TopApart
    <2> HIDE DEF bot, data, adv, risk
    <2> QED BY <1>1, <2>1, <2>2 DEF Over, Odd
<1>6. CASE s = "advanced"
    <2>1. f \in DOMAIN adv /\ adv[f] = sp[s][f] /\ f \notin Odd
        BY <1>3, <1>6, TopParts
    <2>2. f \notin DOMAIN risk
        BY <1>2, <1>6, TopApart
    <2> HIDE DEF bot, data, adv, risk
    <2> QED BY <1>1, <2>1, <2>2 DEF Over, Odd
<1>7. CASE s = "risk"
    <2>1. f \in DOMAIN risk /\ risk[f] = sp[s][f] /\ f \notin Odd
        <3>1. Complete("risk", risk, Given(sp, "risk"))
            BY TopParts
        <3> HIDE DEF risk
        <3> QED BY <1>3, <1>7, <3>1 DEF Complete
    <2> HIDE DEF bot, data, adv, risk
    <2> QED BY <1>1, <2>1 DEF Over, Odd
<1> QED BY <1>4, <1>5, <1>6, <1>7

\* The exchange: its own fields but for credentials, and the lists of pairs.
LEMMA ExchangeComplete ==
    ASSUME NEW sp, NEW d
    PROVE  LET x == BuildExchangeConfig(sp, d)
           IN  /\ \A f \in Fields("exchange") :
                    /\ f \notin Odd
                    /\ f \in DOMAIN sp["exchange"] /\ f \notin {"secretRef"} \cup Credentials
                         => f \in DOMAIN x /\ x[f] = sp["exchange"][f]
               /\ "whitelist" \in DOMAIN sp /\ "pairs" \in DOMAIN sp["whitelist"]
                    => "pair_whitelist" \in DOMAIN x
                       /\ x["pair_whitelist"] = sp["whitelist"]["pairs"]
               /\ "blacklist" \in DOMAIN sp /\ "pairs" \in DOMAIN sp["blacklist"]
                    => "pair_blacklist" \in DOMAIN x
                       /\ x["pair_blacklist"] = sp["blacklist"]["pairs"]
<1> DEFINE cred == applyExchangeCredentials(sp["exchange"], d)
           rest == Copied(sp["exchange"], {"name", "log_responses", "enable_ws",
                       "unknown_fee_rate", "outdated_offset", "markets_refresh_interval",
                       "ccxt_config", "ccxt_async_config", "ccxt_sync_config"})
           white == Renamed(Given(sp, "whitelist"), "pairs", "pair_whitelist")
           black == Renamed(Given(sp, "blacklist"), "pairs", "pair_blacklist")
<1>1. BuildExchangeConfig(sp, d) = Over(Over(cred, rest), Over(white, black))
    BY DEF BuildExchangeConfig
<1>2. DOMAIN white \subseteq {"pair_whitelist"} /\ DOMAIN black \subseteq {"pair_blacklist"}
    BY PartDomain
<1>3. \A f \in Fields("exchange") :
        /\ f \notin Odd
        /\ f \in DOMAIN sp["exchange"] /\ f \notin {"secretRef"} \cup Credentials
             => f \in DOMAIN rest /\ rest[f] = sp["exchange"][f] /\ f \notin DOMAIN white
                /\ f \notin DOMAIN black
    <2> HIDE DEF white, black
    <2> QED BY <1>2 DEF Fields, TradeBotConfigSpec, Struct, ExchangeSpec, Credentials, Copied, Odd
<1>4. "whitelist" \in DOMAIN sp /\ "pairs" \in DOMAIN sp["whitelist"]
        => "pair_whitelist" \in DOMAIN white /\ white["pair_whitelist"] = sp["whitelist"]["pairs"]
    BY DEF Given, Renamed, One
<1>5. "blacklist" \in DOMAIN sp /\ "pairs" \in DOMAIN sp["blacklist"]
        => "pair_blacklist" \in DOMAIN black /\ black["pair_blacklist"] = sp["blacklist"]["pairs"]
    BY DEF Given, Renamed, One
<1> HIDE DEF cred, rest, white, black
<1>6. \A f \in Fields("exchange") :
        /\ f \notin Odd
        /\ f \in DOMAIN sp["exchange"] /\ f \notin {"secretRef"} \cup Credentials
             => LET x == Over(Over(cred, rest), Over(white, black))
                IN  f \in DOMAIN x /\ x[f] = sp["exchange"][f]
    BY <1>3 DEF Over
<1>7. "whitelist" \in DOMAIN sp /\ "pairs" \in DOMAIN sp["whitelist"]
        => LET x == Over(Over(cred, rest), Over(white, black))
           IN  "pair_whitelist" \in DOMAIN x /\ x["pair_whitelist"] = sp["whitelist"]["pairs"]
    BY <1>2, <1>4 DEF Over
<1>8. "blacklist" \in DOMAIN sp /\ "pairs" \in DOMAIN sp["blacklist"]
        => LET x == Over(Over(cred, rest), Over(white, black))
           IN  "pair_blacklist" \in DOMAIN x /\ x["pair_blacklist"] = sp["blacklist"]["pairs"]
    BY <1>2, <1>5 DEF Over
<1> QED BY <1>1, <1>6, <1>7, <1>8

\* The options of a method: each has its key, and none is one of the method's own.
LEMMA OptionsComplete ==
    ASSUME NEW m, m["method"] \in PairlistMethods
    PROVE  LET x == applyPairlistMethodSpecificConfig(m)
           IN  /\ \A f \in MethodOptions[m["method"]] : f \in DOMAIN m =>
                    /\ KeyOf("pairlists", f) \in DOMAIN x
                    /\ x[KeyOf("pairlists", f)] = m[f]
               /\ DOMAIN x \cap {"method", "number_assets", "refresh_period"} = {}
<1> DEFINE x == applyPairlistMethodSpecificConfig(m)
           Goal == /\ \A f \in MethodOptions[m["method"]] : f \in DOMAIN m =>
                        /\ KeyOf("pairlists", f) \in DOMAIN x
                        /\ x[KeyOf("pairlists", f)] = m[f]
                   /\ DOMAIN x \cap {"method", "number_assets", "refresh_period"} = {}
<1> SUFFICES Goal
    OBVIOUS
<1>1. CASE m["method"] \in {"VolumePairList", "ProducerPairList", "MarketCapPairList",
                            "AgeFilter", "PriceFilter", "SpreadFilter"}
    BY <1>1 DEF applyPairlistMethodSpecificConfig, MethodOptions, KeyOf, Copied
<1>2. CASE m["method"] \in {"OffsetFilter", "ShuffleFilter", "PerformanceFilter"}
    BY <1>2 DEF applyPairlistMethodSpecificConfig, MethodOptions, KeyOf, Copied
<1>3. CASE m["method"] \in {"PrecisionFilter", "FullTradesFilter"}
    <2>1. x = Nothing /\ MethodOptions[m["method"]] = {}
        BY <1>3 DEF applyPairlistMethodSpecificConfig, MethodOptions
    <2> HIDE DEF x
    <2> QED BY <2>1, NothingEmpty
<1>4. CASE m["method"] = "PercentChangePairList"
    BY <1>4 DEF applyPairlistMethodSpecificConfig, applyPercentChangePairListConfig,
                MethodOptions, KeyOf, Copied
<1>5. CASE m["method"] = "RemotePairList"
    BY <1>5 DEF applyPairlistMethodSpecificConfig, applyRemotePairListConfig,
                MethodOptions, KeyOf, Copied
<1>6. CASE m["method"] = "StaticPairList"
    BY <1>6 DEF applyPairlistMethodSpecificConfig, MethodOptions, KeyOf, Copied, Over, One
<1>7. CASE m["method"] = "RangeStabilityFilter"
    <2>1. x = applyRangeStabilityFilterConfig(m)
          /\ MethodOptions[m["method"]]
               = {"lookback_days_range", "min_rate_of_change", "max_rate_of_change"}
        BY <1>7 DEF applyPairlistMethodSpecificConfig, MethodOptions
    <2>2. DOMAIN Renamed(m, "lookback_days_range", "lookback_days") \subseteq {"lookback_days"}
        BY PartDomain
    <2>3. "lookback_days_range" \in DOMAIN m =>
            /\ "lookback_days" \in DOMAIN Renamed(m, "lookback_days_range", "lookback_days")
            /\ Renamed(m, "lookback_days_range", "lookback_days")["lookback_days"]
                 = m["lookback_days_range"]
        BY DEF Renamed, One
    <2> HIDE DEF x
    <2>4. DOMAIN x \subseteq {"lookback_days", "min_rate_of_change", "max_rate_of_change"}
        BY <2>1, <2>2 DEF applyRangeStabilityFilterConfig, Copied, Over
    <2>5. ASSUME NEW f \in {"min_rate_of_change", "max_rate_of_change"}, f \in DOMAIN m
          PROVE  KeyOf("pairlists", f) \in DOMAIN x /\ x[KeyOf("pairlists", f)] = m[f]
        BY <2>1, <2>5 DEF applyRangeStabilityFilterConfig, KeyOf, Copied, Over
    <2>6. "lookback_days_range" \in DOMAIN m =>
            "lookback_days" \in DOMAIN x /\ x["lookback_days"] = m["lookback_days_range"]
        BY <2>1, <2>2, <2>3 DEF applyRangeStabilityFilterConfig, Copied, Over
    <2>7. KeyOf("pairlists", "lookback_days_range") = "lookback_days"
        BY DEF KeyOf
    <2> QED BY <2>1, <2>4, <2>5, <2>6, <2>7
<1>8. CASE m["method"] = "VolatilityFilter"
    <2>1. x = applyVolatilityFilterConfig(m)
          /\ MethodOptions[m["method"]]
               = {"lookback_days_volatility", "min_volatility", "max_volatility"}
        BY <1>8 DEF applyPairlistMethodSpecificConfig, MethodOptions
    <2>2. DOMAIN Renamed(m, "lookback_days_volatility", "lookback_days")
            \subseteq {"lookback_days"}
        BY PartDomain
    <2>3. "lookback_days_volatility" \in DOMAIN m =>
            /\ "lookback_days" \in DOMAIN Renamed(m, "lookback_days_volatility", "lookback_days")
            /\ Renamed(m, "lookback_days_volatility", "lookback_days")["lookback_days"]
                 = m["lookback_days_volatility"]
        BY DEF Renamed, One
    <2> HIDE DEF x
    <2>4. DOMAIN x \subseteq {"lookback_days", "min_volatility", "max_volatility"}
        BY <2>1, <2>2 DEF applyVolatilityFilterConfig, Copied, Over
    <2>5. ASSUME NEW f \in {"min_volatility", "max_volatility"}, f \in DOMAIN m
          PROVE  KeyOf("pairlists", f) \in DOMAIN x /\ x[KeyOf("pairlists", f)] = m[f]
        BY <2>1, <2>5 DEF applyVolatilityFilterConfig, KeyOf, Copied, Over
    <2>6. "lookback_days_volatility" \in DOMAIN m =>
            "lookback_days" \in DOMAIN x /\ x["lookback_days"] = m["lookback_days_volatility"]
        BY <2>1, <2>2, <2>3 DEF applyVolatilityFilterConfig, Copied, Over
    <2>7. KeyOf("pairlists", "lookback_days_volatility") = "lookback_days"
        BY DEF KeyOf
    <2> QED BY <2>1, <2>4, <2>5, <2>6, <2>7
<1>9. m["method"] \in {"VolumePairList", "ProducerPairList", "MarketCapPairList",
                       "AgeFilter", "PriceFilter", "SpreadFilter", "OffsetFilter",
                       "ShuffleFilter", "PerformanceFilter", "PrecisionFilter",
                       "FullTradesFilter", "PercentChangePairList", "RemotePairList",
                       "StaticPairList", "RangeStabilityFilter", "VolatilityFilter"}
    BY DEF PairlistMethods, MethodOptions
<1> HIDE DEF x, Goal
<1> QED BY <1>1, <1>2, <1>3, <1>4, <1>5, <1>6, <1>7, <1>8, <1>9

\* A pairlist method: itself, its size and its period, and its options.
LEMMA PairlistComplete ==
    ASSUME NEW m, "method" \in DOMAIN m, m["method"] \in PairlistMethods,
           NEW f \in DOMAIN m,
           f \in MethodOptions[m["method"]] \cup {"method", "number_assets", "refresh_period"}
    PROVE  /\ KeyOf("pairlists", f) \in DOMAIN BuildPairlistMethodsConfig(m)
           /\ BuildPairlistMethodsConfig(m)[KeyOf("pairlists", f)] = m[f]
<1> DEFINE own == {"method", "number_assets", "refresh_period"}
           x == applyPairlistMethodSpecificConfig(m)
<1>1. BuildPairlistMethodsConfig(m) = Over(Copied(m, own), x)
    BY DEF BuildPairlistMethodsConfig
<1>2. DOMAIN x \cap own = {}
    BY OptionsComplete
<1>3. CASE f \in own
    <2>1. KeyOf("pairlists", f) = f
        BY <1>3 DEF KeyOf
    <2>2. f \in DOMAIN Copied(m, own) /\ Copied(m, own)[f] = m[f]
        BY <1>3 DEF Copied
    <2>3. f \notin DOMAIN x
        BY <1>2, <1>3
    <2> HIDE DEF own, x
    <2> QED BY <1>1, <2>1, <2>2, <2>3 DEF Over
<1>4. CASE f \in MethodOptions[m["method"]]
    <2>1. KeyOf("pairlists", f) \in DOMAIN x /\ x[KeyOf("pairlists", f)] = m[f]
        BY <1>4, OptionsComplete
    <2> HIDE DEF own, x
    <2> QED BY <1>1, <2>1 DEF Over
<1> QED BY <1>3, <1>4

\* The other sections that are not copied as they are.
LEMMA PricingComplete ==
    ASSUME NEW sec, NEW s \in {"entry_pricing", "exit_pricing"}
    PROVE  \A f \in Fields(s) :
             /\ f \notin Odd
             /\ f \in DOMAIN sec /\ f \notin {"use_order_book", "order_book_top"}
                  => f \in DOMAIN BuildPricingConfig(sec) /\ BuildPricingConfig(sec)[f] = sec[f]
<1> DEFINE book == IF "use_order_book" \in DOMAIN sec
                   THEN Over(One("use_order_book", "true"), Copied(sec, {"order_book_top"}))
                   ELSE Nothing
           base == Copied(sec, {"price_side", "price_last_balance"})
<1>1. DOMAIN book \subseteq {"use_order_book", "order_book_top"}
    BY NothingEmpty DEF Over, One, Copied
<1>2. BuildPricingConfig(sec) = Over(base, book)
    BY DEF BuildPricingConfig
<1>3. Fields(s) = {"price_last_balance", "use_order_book", "order_book_top", "price_side"}
    BY DEF Fields, TradeBotConfigSpec, Struct, PricingSpec
<1> HIDE DEF book
<1> QED BY <1>1, <1>2, <1>3 DEF Over, Copied, Odd

\* The API server section: every plain field is copied; credentials, the key and the
\* origins are decided by the builder and no tag of them is odd.
LEMMA ServerComplete ==
    ASSUME NEW api, NEW d, NEW key, NEW h
    PROVE  LET x == buildAPIServerConfig(api, d, key, h)
           IN  \A f \in Fields("api_server") :
                 /\ f \notin Odd
                 /\ f \in DOMAIN api
                      /\ f \notin {"username", "password", "jwt_secret_key", "secretRef",
                                   "CORS_origins"}
                    => f \in DOMAIN x /\ x[f] = api[f]
<1> DEFINE plain == Copied(api, {"enabled", "listen_ip_address", "listen_port", "verbosity",
                                 "enable_openapi", "username", "password"})
           cred == Over(Renamed(d, "user", "username"), Copied(d, {"password"}))
           jwt == IF key = "" THEN Nothing ELSE One("jwt_secret_key", key)
           cors == CORSOrigins(api, h)
<1>1. buildAPIServerConfig(api, d, key, h) = Over(Over(plain, cred), Over(jwt, cors))
    BY DEF buildAPIServerConfig
<1>2. DOMAIN cred \subseteq {"username", "password"}
    <2>1. /\ DOMAIN Renamed(d, "user", "username") \subseteq {"username"}
          /\ DOMAIN Copied(d, {"password"}) \subseteq {"password"}
        BY PartDomain
    <2> QED BY <2>1 DEF Over
<1>3. DOMAIN jwt \subseteq {"jwt_secret_key"}
    BY NothingEmpty DEF One
<1>4. DOMAIN cors \subseteq {"CORS_origins"}
    BY PartDomain DEF CORSOrigins, One
<1>5. Fields("api_server") =
        {"enabled", "listen_port", "enable_openapi", "listen_ip_address", "verbosity",
         "username", "password", "jwt_secret_key", "secretRef", "CORS_origins"}
    BY DEF Fields, TradeBotConfigSpec, Struct, APIServerConfig
<1> HIDE DEF cred, jwt, cors
<1> QED BY <1>1, <1>2, <1>3, <1>4, <1>5 DEF Over, Copied, Odd

\* The Telegram section: every field is copied but the two a Secret may supply.
LEMMA TelegramComplete ==
    ASSUME NEW sec, NEW d
    PROVE  LET x == buildTelegramConfig(sec, d)
           IN  \A f \in Fields("telegram") :
                 /\ f \notin Odd
                 /\ f \in DOMAIN sec /\ f \notin {"token", "chat_id", "secretRef"}
                      => f \in DOMAIN x /\ x[f] = sec[f]
<1> DEFINE plain == Copied(sec, {"enabled", "balance_dust_level", "reload",
                                 "allow_custom_messages", "topic_id", "authorized_users"})
           token == IF "secretRef" \in DOMAIN sec
                    THEN Over(Copied(d, {"token"}), Renamed(d, "chat-id", "chat_id"))
                    ELSE Copied(sec, {"token", "chat_id"})
<1>1. buildTelegramConfig(sec, d) = Over(plain, token)
    BY DEF buildTelegramConfig
<1>2. DOMAIN token \subseteq {"token", "chat_id"}
    <2>1. /\ DOMAIN Renamed(d, "chat-id", "chat_id") \subseteq {"chat_id"}
          /\ DOMAIN Copied(d, {"token"}) \subseteq {"token"}
          /\ DOMAIN Copied(sec, {"token", "chat_id"}) \subseteq {"token", "chat_id"}
        BY PartDomain
    <2> QED BY <2>1 DEF Over
<1>3. Fields("telegram") =
        {"enabled", "balance_dust_level", "reload", "allow_custom_messages", "token", "chat_id",
         "secretRef", "topic_id", "authorized_users"}
    BY DEF Fields, TradeBotConfigSpec, Struct, NotificationTelegram
<1> HIDE DEF token
<1> QED BY <1>1, <1>2, <1>3 DEF Over, Copied, Odd

\* The webhook section: every field is copied under its own tag.
LEMMA WebhookComplete ==
    ASSUME NEW sec
    PROVE  \A f \in Fields("webhook") :
             /\ f \notin Odd
             /\ f \in DOMAIN sec /\ f # "allow_custom_messages"
                  => f \in DOMAIN buildWebhookConfig(sec) /\ buildWebhookConfig(sec)[f] = sec[f]
BY DEF Fields, TradeBotConfigSpec, Struct, NotificationWebhook, buildWebhookConfig, Over,
       One, Copied, Odd

\* A spec that the API accepts: fields of the structs, a section only inside the one it is
\* part of, a pairlist method that exists.
WellFormed(sp) ==
    /\ DOMAIN sp \subseteq Sections
    /\ \A s \in DOMAIN sp :
         DOMAIN sp[s] \subseteq Fields(s) /\ (s \in DOMAIN Parent => Parent[s] \in DOMAIN sp)
    /\ "pairlists" \in DOMAIN sp =>
         "method" \in DOMAIN sp["pairlists"] /\ sp["pairlists"]["method"] \in PairlistMethods

\* Field f of section s is in config.json, in its place and with its value.
Reaches(config, sp, s, f) ==
    /\ Home(s) \in DOMAIN config
    /\ KeyOf(s, f) \in DOMAIN config[Home(s)]
    /\ config[Home(s)][KeyOf(s, f)] =
         IF f = "stake_amount" THEN renderStakeAmount(sp[s][f]) ELSE sp[s][f]

\* In a section that is an object of its own.
LEMMA ReachesOwn ==
    ASSUME NEW config, NEW sp, NEW s, NEW f,
           s \notin {"bot", "data", "advanced", "risk", "whitelist", "blacklist"},
           s \in DOMAIN config, f \in DOMAIN config[s], config[s][f] = sp[s][f], f \notin Odd
    PROVE  Reaches(config, sp, s, f)
<1>1. Home(s) = s
    BY DEF Home
<1>2. KeyOf(s, f) = f /\ f # "stake_amount"
    BY DEF KeyOf, Odd
<1> QED BY <1>1, <1>2 DEF Reaches

\* The sections that a builder copies as they are.
Plain == {"freqai", "feature_parameters", "svm_params", "data_split_parameters", "rl_config",
          "model_reward_parameters", "unfilledtimeout", "internals", "entry_depth", "exit_depth",
          "order_types", "order_time_in_force", "orderflow", "experimental", "logging",
          "notification_settings", "discord"}

\* The sections that have an object of their own and a copying builder.
LEMMA PlainComplete ==
    ASSUME NEW sp, NEW secs, NEW key, NEW h, NEW s \in Plain, s \in DOMAIN sp, Shown(sp, s)
    PROVE  LET c == BuildConfig(sp, secs, key, h)
           IN  s \in DOMAIN c /\ Complete(s, c[s], sp[s])
<1> DEFINE c == BuildConfig(sp, secs, key, h)
<1>0. s \in DOMAIN c
    BY DEF BuildConfig
<1>1. CASE s = "freqai"
    <2>1. c[s] = buildFreqAIConfig(sp[s])
        BY <1>1 DEF BuildConfig
    <2> QED BY <1>0, <1>1, <2>1, CompleteObjects
<1>2. CASE s = "feature_parameters"
    <2>1. c[s] = buildFeatureParametersConfig(sp[s])
        BY <1>2 DEF BuildConfig
    <2> QED BY <1>0, <1>2, <2>1, CompleteObjects
<1>3. CASE s = "svm_params"
    <2>1. c[s] = buildSVMParamsConfig(sp[s])
        BY <1>3 DEF BuildConfig
    <2> QED BY <1>0, <1>3, <2>1, CompleteObjects
<1>4. CASE s = "data_split_parameters"
    <2>1. c[s] = buildDataSplitParametersConfig(sp[s])
        BY <1>4 DEF BuildConfig
    <2> QED BY <1>0, <1>4, <2>1, CompleteObjects
<1>5. CASE s = "rl_config"
    <2>1. c[s] = buildRLConfigMap(sp[s])
        BY <1>5 DEF BuildConfig
    <2> QED BY <1>0, <1>5, <2>1, CompleteObjects
<1>6. CASE s = "model_reward_parameters"
    <2>1. c[s] = buildModelRewardParametersConfig(sp[s])
        BY <1>6 DEF BuildConfig
    <2> QED BY <1>0, <1>6, <2>1, CompleteObjects
<1>7. CASE s = "unfilledtimeout"
    <2>1. c[s] = buildUnfilledTimeoutConfig(sp[s])
        BY <1>7 DEF BuildConfig
    <2> QED BY <1>0, <1>7, <2>1, CompleteObjects
<1>8. CASE s = "internals"
    <2>1. c[s] = buildInternalsConfigFields(sp[s])
        BY <1>8 DEF BuildConfig
    <2> QED BY <1>0, <1>8, <2>1, CompleteObjects
<1>9. CASE s \in {"entry_depth", "exit_depth"}
    <2>1. c[s] = CheckDepthOfMarket(sp[s])
        BY <1>9 DEF BuildConfig
    <2> QED BY <1>0, <1>9, <2>1, CompleteObjects
<1>10. CASE s = "order_types"
    <2>1. c[s] = BuildOrderTypesConfig(sp[s])
        BY <1>10 DEF BuildConfig
    <2> QED BY <1>0, <1>10, <2>1, CompleteObjects
<1>11. CASE s = "order_time_in_force"
    <2>1. c[s] = BuildOrderTimeInForceConfig(sp[s])
        BY <1>11 DEF BuildConfig
    <2> QED BY <1>0, <1>11, <2>1, CompleteObjects
<1>12. CASE s = "orderflow"
    <2>1. c[s] = BuildOrderflowConfig(sp[s])
        BY <1>12 DEF BuildConfig
    <2> QED BY <1>0, <1>12, <2>1, CompleteObjects
<1>13. CASE s = "experimental"
    <2>1. c[s] = Copied(sp[s], {"block_bad_exchanges"})
        BY <1>13 DEF BuildConfig
    <2> QED BY <1>0, <1>13, <2>1, CompleteObjects
<1>14. CASE s = "logging"
    <2>1. c[s] = Copied(sp[s], {"version"})
        BY <1>14 DEF BuildConfig
    <2> QED BY <1>0, <1>14, <2>1, CompleteObjects
<1>15. CASE s = "notification_settings"
    <2>1. c[s] = buildTelegramSettingsConfig(sp[s])
        BY <1>15 DEF BuildConfig
    <2> QED BY <1>0, <1>15, <2>1, CompleteObjects
<1>16. CASE s = "discord"
    <2>1. c[s] = buildDiscordConfig(sp[s])
        BY <1>16 DEF BuildConfig
    <2> QED BY <1>0, <1>16, <2>1, CompleteObjects
<1> HIDE DEF c
<1>17. s \in DOMAIN c /\ Complete(s, c[s], sp[s])
    BY <1>1, <1>2, <1>3, <1>4, <1>5, <1>6, <1>7, <1>8, <1>9, <1>10, <1>11, <1>12, <1>13,
       <1>14, <1>15, <1>16 DEF Plain, c
<1> QED BY <1>17 DEF c

\* Whatever the Secrets hold and whichever key and hosts a pass comes with, a field that
\* says something to the bot is rendered.
LEMMA RenderComplete ==
    ASSUME NEW sp, WellFormed(sp), NEW secs, NEW key, NEW h,
           NEW s \in DOMAIN sp, NEW f \in DOMAIN sp[s], ~Exempt(sp, s, f)
    PROVE  Reaches(BuildConfig(sp, secs, key, h), sp, s, f)
<1> DEFINE c == BuildConfig(sp, secs, key, h)
<1>0. s \in Sections /\ f \in Fields(s)
    BY DEF WellFormed
<1>1. CASE s \in {"bot", "data", "advanced", "risk"}
    <2>1. "top" \in DOMAIN c /\ c["top"] = TopObject(sp)
        BY DEF BuildConfig, TopObject
    <2>2. f = "cancel_open_orders_on_exit" => sp[s][f] # "zero"
        BY DEF Exempt
    <2>3. /\ f \in DOMAIN TopObject(sp)
          /\ TopObject(sp)[f] = IF f = "stake_amount" THEN renderStakeAmount(sp[s][f])
                                                      ELSE sp[s][f]
          /\ f \notin Odd \ {"stake_amount"}
        BY <1>0, <1>1, <2>2, TopComplete
    <2>4. Home(s) = "top" /\ KeyOf(s, f) = f
        BY <1>1, <2>3 DEF Home, KeyOf, Odd
    <2> HIDE DEF c
    <2>5. Reaches(c, sp, s, f)
        BY <2>1, <2>3, <2>4 DEF Reaches
    <2> QED BY <2>5 DEF c
<1>2. CASE s \in Plain
    <2>1. Shown(sp, s)
        BY <1>2 DEF Plain, Shown
    <2>2. s \in DOMAIN c /\ Complete(s, c[s], sp[s])
        BY <1>2, <2>1, PlainComplete
    <2> HIDE DEF c
    <2>3. f \in DOMAIN c[s] /\ c[s][f] = sp[s][f] /\ f \notin Odd
        BY <1>0, <2>2 DEF Complete
    <2>4. Reaches(c, sp, s, f)
        BY <1>2, <2>2, <2>3, ReachesOwn DEF Plain
    <2> QED BY <2>4 DEF c
<1>3. CASE s \in {"exchange", "whitelist", "blacklist"}
    <2>1. "exchange" \in DOMAIN sp
        BY <1>3 DEF WellFormed, Parent
    <2>2. Shown(sp, "exchange")
        BY DEF Shown
    <2>3. "exchange" \in DOMAIN c
          /\ c["exchange"] = BuildExchangeConfig(sp, GetSecretData(sp, secs, "exchange"))
        BY <2>1, <2>2 DEF BuildConfig
    <2> HIDE DEF c
    <2>4. CASE s = "exchange"
        <3>1. f \notin {"secretRef"} \cup Credentials
            BY <2>4 DEF Exempt, WithSecret, SecretKeys
        <3>2. f \in DOMAIN c[s] /\ c[s][f] = sp[s][f] /\ f \notin Odd
            BY <1>0, <2>3, <2>4, <3>1, ExchangeComplete
        <3>3. Reaches(c, sp, s, f)
            BY <2>3, <2>4, <3>2, ReachesOwn
        <3> QED BY <3>3 DEF c
    <2>5. CASE s = "whitelist"
        <3>1. f = "pairs"
            BY <1>0, <2>5 DEF Fields, TradeBotConfigSpec, Struct, PairListSpec
        <3>2. "pair_whitelist" \in DOMAIN c["exchange"]
              /\ c["exchange"]["pair_whitelist"] = sp["whitelist"]["pairs"]
            <4>1. "whitelist" \in DOMAIN sp /\ "pairs" \in DOMAIN sp["whitelist"]
                BY <2>5, <3>1
            <4> QED BY <2>3, <4>1, ExchangeComplete
        <3>3. Home(s) = "exchange" /\ KeyOf(s, f) = "pair_whitelist"
            BY <2>5, <3>1 DEF Home, KeyOf
        <3>4. Reaches(c, sp, s, f)
            BY <2>3, <2>5, <3>1, <3>2, <3>3 DEF Reaches
        <3> QED BY <3>4 DEF c
    <2>6. CASE s = "blacklist"
        <3>1. f = "pairs"
            BY <1>0, <2>6 DEF Fields, TradeBotConfigSpec, Struct, PairListSpec
        <3>2. "pair_blacklist" \in DOMAIN c["exchange"]
              /\ c["exchange"]["pair_blacklist"] = sp["blacklist"]["pairs"]
            <4>1. "blacklist" \in DOMAIN sp /\ "pairs" \in DOMAIN sp["blacklist"]
                BY <2>6, <3>1
            <4> QED BY <2>3, <4>1, ExchangeComplete
        <3>3. Home(s) = "exchange" /\ KeyOf(s, f) = "pair_blacklist"
            BY <2>6, <3>1 DEF Home, KeyOf
        <3>4. Reaches(c, sp, s, f)
            BY <2>3, <2>6, <3>1, <3>2, <3>3 DEF Reaches
        <3> QED BY <3>4 DEF c
    <2> QED BY <1>3, <2>4, <2>5, <2>6
<1>4. CASE s = "pairlists"
    <2>1. f \in MethodOptions[sp[s]["method"]] \cup {"method", "number_assets", "refresh_period"}
        BY <1>4 DEF Exempt
    <2>2. Shown(sp, s)
        BY <1>4 DEF Shown
    <2>3. s \in DOMAIN c /\ c[s] = BuildPairlistMethodsConfig(sp[s])
        BY <1>4, <2>2 DEF BuildConfig
    <2>4. "method" \in DOMAIN sp[s] /\ sp[s]["method"] \in PairlistMethods
        BY <1>4 DEF WellFormed
    <2> HIDE DEF c
    <2>5. KeyOf(s, f) \in DOMAIN c[s] /\ c[s][KeyOf(s, f)] = sp[s][f]
        BY <1>4, <2>1, <2>3, <2>4, PairlistComplete
    <2>6. Home(s) = s /\ f # "stake_amount"
        BY <1>0, <1>4 DEF Home, Fields, TradeBotConfigSpec, Struct, PairlistConfig, PlainOptions,
                          MethodOptions, PairlistMethods
    <2>7. Reaches(c, sp, s, f)
        BY <2>3, <2>5, <2>6 DEF Reaches
    <2> QED BY <2>7 DEF c
<1>5. CASE s \in {"entry_pricing", "exit_pricing"}
    <2>1. f \notin {"use_order_book", "order_book_top"}
        BY DEF Exempt
    <2>2. Shown(sp, s)
        BY <1>5 DEF Shown
    <2>3. s \in DOMAIN c /\ c[s] = BuildPricingConfig(sp[s])
        BY <1>5, <2>2 DEF BuildConfig
    <2> HIDE DEF c
    <2>4. f \in DOMAIN c[s] /\ c[s][f] = sp[s][f] /\ f \notin Odd
        BY <1>0, <1>5, <2>1, <2>3, PricingComplete
    <2>5. Reaches(c, sp, s, f)
        BY <1>5, <2>3, <2>4, ReachesOwn
    <2> QED BY <2>5 DEF c
<1>6. CASE s = "api_server"
    <2>1. f \notin {"username", "password", "jwt_secret_key", "secretRef", "CORS_origins"}
        BY <1>6 DEF Exempt, WithSecret, SecretKeys, Credentials
    <2>2. s \in DOMAIN c
          /\ c[s] = buildAPIServerConfig(sp[s], GetSecretData(sp, secs, s), key, h)
        BY <1>6, RenderedServer
    <2> HIDE DEF c
    <2>3. f \in DOMAIN c[s] /\ c[s][f] = sp[s][f] /\ f \notin Odd
        BY <1>0, <1>6, <2>1, <2>2, ServerComplete
    <2>4. Reaches(c, sp, s, f)
        BY <1>6, <2>2, <2>3, ReachesOwn
    <2> QED BY <2>4 DEF c
<1>7. CASE s = "telegram"
    <2>1. f \notin {"token", "chat_id", "secretRef"}
        BY <1>7 DEF Exempt, WithSecret, SecretKeys
    <2>2. Shown(sp, s)
        BY <1>7 DEF Shown
    <2>3. s \in DOMAIN c /\ c[s] = buildTelegramConfig(sp[s], GetSecretData(sp, secs, s))
        BY <1>7, <2>2 DEF BuildConfig
    <2> HIDE DEF c
    <2>4. f \in DOMAIN c[s] /\ c[s][f] = sp[s][f] /\ f \notin Odd
        BY <1>0, <1>7, <2>1, <2>3, TelegramComplete
    <2>5. Reaches(c, sp, s, f)
        BY <1>7, <2>3, <2>4, ReachesOwn
    <2> QED BY <2>5 DEF c
<1>8. CASE s = "webhook"
    <2>1. f # "allow_custom_messages" /\ IsTrue(sp[s], "enabled")
        BY <1>8 DEF Exempt
    <2>2. Shown(sp, s)
        BY <1>8, <2>1 DEF Shown
    <2>3. s \in DOMAIN c /\ c[s] = buildWebhookConfig(sp[s])
        BY <1>8, <2>2 DEF BuildConfig
    <2> HIDE DEF c
    <2>4. f \in DOMAIN c[s] /\ c[s][f] = sp[s][f] /\ f \notin Odd
        BY <1>0, <1>8, <2>1, <2>3, WebhookComplete
    <2>5. Reaches(c, sp, s, f)
        BY <1>8, <2>3, <2>4, ReachesOwn
    <2> QED BY <2>5 DEF c
<1>9. s # "model_training_parameters"
    BY <1>0 DEF Fields, TradeBotConfigSpec, Struct, ModelTrainingParameters
<1>10. s # "pairlist"
    BY DEF Exempt
<1>11. s \in {"bot", "data", "advanced", "risk"} \cup Plain
             \cup {"exchange", "whitelist", "blacklist"} \cup {"pairlists"}
             \cup {"entry_pricing", "exit_pricing"}
             \cup {"api_server", "telegram", "webhook", "model_training_parameters", "pairlist"}
    BY <1>0 DEF Sections, TradeBotConfigSpec, Plain
<1> HIDE DEF c
<1> QED BY <1>1, <1>2, <1>3, <1>4, <1>5, <1>6, <1>7, <1>8, <1>9, <1>10, <1>11

\* What users write is well formed.
LEMMA FullForm ==
    ASSUME NEW s \in Sections, NEW v
    PROVE  /\ DOMAIN Full(s, v) = Fields(s)
           /\ "method" \in DOMAIN Full("pairlists", v)
           /\ Full("pairlists", v)["method"] = "StaticPairList"
<1>1. "method" \in Fields("pairlists") /\ "method" \notin TradeBotConfigSpec["pairlists"].ptr
    <2>1. TradeBotConfigSpec["pairlists"] = PairlistConfig
        BY DEF TradeBotConfigSpec
    <2>2. "method" \in PlainOptions
        BY DEF PlainOptions
    <2> DEFINE all == UNION {MethodOptions[m] : m \in PairlistMethods}
    <2>3. PairlistConfig = Struct({"number_assets", "refresh_period"} \cup (all \ PlainOptions),
                                  PlainOptions)
        BY Zenon DEF PairlistConfig
    <2> HIDE DEF all
    <2> QED BY <2>1, <2>2, <2>3 DEF Fields, Struct
<1>2. DOMAIN Full(s, v) = Fields(s) /\ "method" \in DOMAIN Full("pairlists", v)
    BY <1>1 DEF Full
<1>3. Full("pairlists", v)["method"] = "StaticPairList"
    <2>1. PICK F : F = Fields("pairlists")
        OBVIOUS
    <2>2. PICK P : P = TradeBotConfigSpec["pairlists"].ptr
        OBVIOUS
    <2>3. Full("pairlists", v) =
            [f \in F |-> CASE f = "method" -> "StaticPairList" [] f = "stake_amount" -> "digits"
                            [] f = "jwt_secret_key" -> "strong" [] f \in P -> v
                            [] OTHER -> "pairlists"]
        BY <2>1, <2>2 DEF Full
    <2> QED BY <1>1, <2>1, <2>2, <2>3
<1> QED BY <1>2, <1>3

\* The smallest form of a section has only fields of it.
LEMMA MinimalForm ==
    ASSUME NEW s \in Sections
    PROVE  /\ DOMAIN Minimal(s) \subseteq Fields(s)
           /\ "method" \in DOMAIN Minimal("pairlists")
           /\ Minimal("pairlists")["method"] = "StaticPairList"
<1>1. CASE s \in {"exchange", "pairlists", "api_server", "webhook"}
    <2>1. /\ "name" \in Fields("exchange") /\ "method" \in Fields("pairlists")
          /\ "enabled" \in Fields("api_server") /\ "enabled" \in Fields("webhook")
        BY DEF Fields, TradeBotConfigSpec, Struct, ExchangeSpec, PairlistConfig, PlainOptions,
               APIServerConfig, NotificationWebhook
    <2> QED BY <1>1, <2>1 DEF Minimal, One
<1>2. CASE s \notin {"exchange", "pairlists", "api_server", "webhook"}
    BY <1>2, NothingEmpty DEF Minimal, One
<1> QED BY <1>1, <1>2

\* So has every form an edit gives a section, and a pairlist has a known method.
LEMMA VariantForm ==
    ASSUME NEW s \in Sections, NEW v \in Variants[s]
    PROVE  /\ DOMAIN v \subseteq Fields(s)
           /\ s = "pairlists" => "method" \in DOMAIN v /\ v["method"] \in PairlistMethods
<1>0. "StaticPairList" \in PairlistMethods
    BY DEF PairlistMethods, MethodOptions
<1>1. CASE v \in {Minimal(s), Full(s, "zero"), Full(s, s)}
    BY <1>0, <1>1, FullForm, MinimalForm
<1>2. CASE s = "bot" /\ v \in {[Full(s, s) EXCEPT !.stake_amount = x] : x \in {"unlimited", "words"}}
    BY <1>2, FullForm
<1>3. CASE s = "pairlists" /\ v \in {[Full(s, s) EXCEPT !.method = m] : m \in PairlistMethods}
    <2>1. DOMAIN Full(s, s) = Fields(s) /\ "method" \in DOMAIN Full(s, s)
        BY <1>3, FullForm
    <2>2. PICK m \in PairlistMethods : v = [Full(s, s) EXCEPT !["method"] = m]
        BY <1>3
    <2> QED BY <2>1, <2>2
<1>4. CASE s = "api_server" /\ v \in {Over(Minimal(s), One("secretRef", s)),
                                      Over(Minimal(s), One("jwt_secret_key", "weak"))}
    <2>1. "secretRef" \in Fields(s) /\ "jwt_secret_key" \in Fields(s)
        BY <1>4 DEF Fields, TradeBotConfigSpec, Struct, APIServerConfig
    <2> QED BY <1>4, <2>1, MinimalForm DEF Over, One
<1>5. CASE s \in {"exchange", "telegram"}
           /\ v \in {Copied(Full(s, s), Fields(s) \ {"secretRef"})}
    BY <1>5 DEF Copied
<1>6. \/ v \in {Minimal(s), Full(s, "zero"), Full(s, s)}
      \/ s = "bot" /\ v \in {[Full(s, s) EXCEPT !.stake_amount = x] : x \in {"unlimited", "words"}}
      \/ s = "pairlists" /\ v \in {[Full(s, s) EXCEPT !.method = m] : m \in PairlistMethods}
      \/ s = "api_server" /\ v \in {Over(Minimal(s), One("secretRef", s)),
                                    Over(Minimal(s), One("jwt_secret_key", "weak"))}
      \/ s \in {"exchange", "telegram"} /\ v \in {Copied(Full(s, s), Fields(s) \ {"secretRef"})}
    BY DEF Variants
<1> QED BY <1>1, <1>2, <1>3, <1>4, <1>5, <1>6

\* Sections are nested two deep at most.
LEMMA TwoDeep ==
    /\ \A s \in DOMAIN Parent : Parent[s] \in Sections /\ s \in Sections
    /\ \A s \in DOMAIN Parent : Parent[s] \in DOMAIN Parent
         => Parent[Parent[s]] \notin DOMAIN Parent
BY DEF Parent, Sections, TradeBotConfigSpec

\* Every spec that users make is well formed, and a pass carries the config of one.
Carried ==
    /\ WellFormed(spec)
    /\ rec.pc = "apply" =>
         /\ WellFormed(rec.spec)
         /\ \E key, h : rec.config = BuildConfig(rec.spec, rec.secrets, key, h)

\* An edited spec stays well formed.
LEMMA EditForm ==
    ASSUME WellFormed(spec), NEW s \in Sections, EditSection(s)
    PROVE  WellFormed(spec')
<1>1. PICK v \in Variants[s] : spec' = Over(spec, One(s, v))
    BY DEF EditSection, NewSpec
<1>2. /\ DOMAIN v \subseteq Fields(s)
      /\ s = "pairlists" => "method" \in DOMAIN v /\ v["method"] \in PairlistMethods
    BY VariantForm
<1>3. s \in DOMAIN Parent => Parent[s] \in DOMAIN spec
    BY DEF EditSection
<1>4. /\ DOMAIN spec' = DOMAIN spec \cup {s} /\ spec'[s] = v
      /\ \A x \in DOMAIN spec \ {s} : spec'[x] = spec[x]
    BY <1>1 DEF Over, One
<1> QED BY <1>2, <1>3, <1>4 DEF WellFormed

\* So does one that loses a section and what is within it.
LEMMA RemoveForm ==
    ASSUME WellFormed(spec), NEW s \in Sections, RemoveSection(s)
    PROVE  WellFormed(spec')
<1>1. spec' = [x \in DOMAIN spec \ Within(s) |-> spec[x]]
    BY DEF RemoveSection, NewSpec
<1>2. ASSUME NEW x \in DOMAIN spec \ Within(s), x \in DOMAIN Parent
      PROVE  Parent[x] \in DOMAIN spec \ Within(s)
    BY <1>2, TwoDeep DEF WellFormed, Within
<1> HIDE DEF Within
<1> QED BY <1>1, <1>2 DEF WellFormed

\* What is stored and what is about to be applied came out of BuildConfig.
LEMMA NextCarried == Carried /\ [Next]_vars => Carried'
<1> SUFFICES ASSUME Carried, [Next]_vars PROVE Carried'
    OBVIOUS
<1>1. CASE Build
    <2>1. PICK key \in resolveAPIServerJWTSecretKey(spec, secrets, seen) :
            rec' = [pc |-> "apply", spec |-> spec, secrets |-> secrets,
                    config |-> BuildConfig(spec, secrets, key, listed), fresh |-> ~news]
        BY <1>1 DEF Build
    <2>2. spec' = spec /\ rec'.spec = spec /\ rec'.secrets = secrets
          /\ rec'.config = BuildConfig(spec, secrets, key, listed)
        BY <1>1, <2>1 DEF Build
    <2> QED BY <2>2 DEF Carried
<1>2. CASE ApplySecret \/ PassFails
    <2>1. spec' = spec /\ rec'.pc = "idle"
        BY <1>2 DEF ApplySecret, PassFails, Idle
    <2> QED BY <2>1 DEF Carried
<1>3. CASE Deliver \/ Wake \/ ChangeHosts \/ FreqUIEvent \/ FreqUIListSync \/ DeleteRendered
           \/ UNCHANGED vars
           \/ \E s \in WithSecret : ChangeSecret(s)
    <2>1. spec' = spec /\ rec' = rec
        BY <1>3 DEF Deliver, Wake, ChangeHosts, FreqUIEvent, FreqUIListSync, DeleteRendered,
               ChangeSecret, vars
    <2> QED BY <2>1 DEF Carried
<1>4. CASE \E s \in Sections : EditSection(s) \/ RemoveSection(s)
    <2>1. WellFormed(spec')
        BY <1>4, EditForm, RemoveForm DEF Carried
    <2>2. rec' = rec
        BY <1>4 DEF EditSection, RemoveSection, NewSpec
    <2> QED BY <2>1, <2>2 DEF Carried
<1> QED BY <1>1, <1>2, <1>3, <1>4 DEF Next

\* Every field that a user sets reaches config.json, in its place and with its value, for
\* every spec that edits can lead to, every content of the Secrets and every key: no builder
\* forgets a field or drops a zero, and no section overwrites another's key in the top-level
\* object (BuildConfig, build_config.go:36-158).
THEOREM FieldsCorrect == Spec => []FieldsReachTheBot
<1>1. Init => Carried
    <2> SUFFICES ASSUME Init PROVE Carried
        OBVIOUS
    <2>1. spec = [s \in Sections |-> Minimal(s)] /\ rec.pc = "idle"
        BY DEF Init, Idle
    <2>2. "StaticPairList" \in PairlistMethods
        BY DEF PairlistMethods, MethodOptions
    <2>3. WellFormed(spec)
        BY <2>1, <2>2, MinimalForm, TwoDeep DEF WellFormed
    <2> QED BY <2>1, <2>3 DEF Carried
<1>2. Carried => FieldsReachTheBot
    <2> SUFFICES ASSUME Carried, rec.pc = "apply",
                        NEW s \in DOMAIN rec.spec, NEW f \in DOMAIN rec.spec[s],
                        ~Exempt(rec.spec, s, f)
                 PROVE  Reaches(rec.config, rec.spec, s, f)
        BY DEF FieldsReachTheBot, Reaches
    <2>1. PICK key, h : rec.config = BuildConfig(rec.spec, rec.secrets, key, h)
        BY DEF Carried
    <2>2. WellFormed(rec.spec)
        BY DEF Carried
    <2>3. Reaches(BuildConfig(rec.spec, rec.secrets, key, h), rec.spec, s, f)
        BY <2>2, RenderComplete
    <2> QED BY <2>1, <2>3
<1> QED BY <1>1, <1>2, NextCarried, PTL DEF Spec
===============================================================================
