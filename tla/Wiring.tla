------------------------------- MODULE Wiring -------------------------------
(***************************************************************************)
(* What a start makes of the environment: load_settings and validate       *)
(* (jikgugom/core/settings.py), build_adapters (adapters/factory.py) and   *)
(* the beginning of DashboardService.__init__ and of demo.main, which use  *)
(* them the same way.  The values of keys play no part, only whether they  *)
(* are given: an empty variable counts as one that is not.                 *)
(***************************************************************************)
EXTENDS Integers, Sequences

CONSTANTS
  NULL,          \* a variable that is not given; no value
  Junk,          \* FX_RATE or MONITOR_INTERVAL_SECONDS that is no number
  DefaultFx,     \* the rate used without FX_RATE
  FxChoices,     \* what FX_RATE may be: numbers, NULL, Junk
  ChannelLists   \* what SALES_CHANNELS may be: sequences of names, NULL

AliKey == "ALIEXPRESS_APP_KEY"
AliSecret == "ALIEXPRESS_APP_SECRET"
AmazonKey == "RAINFOREST_API_KEY"
NaverId == "NAVER_CLIENT_ID"
NaverSecret == "NAVER_CLIENT_SECRET"
GeminiKey == "GEMINI_API_KEY"
DeepLKey == "DEEPL_API_KEY"

Keys == {AliKey, AliSecret, AmazonKey, NaverId, NaverSecret, GeminiKey, DeepLKey}

Environment ==
  [keys: SUBSET Keys, fx: FxChoices, channels: ChannelLists, interval: {NULL, Junk}]

SupportedChannels == {"naver", "coupang"}

SalesChannels(e) == IF e.channels = NULL THEN <<"naver", "coupang">> ELSE e.channels
ChannelNames(e) == {SalesChannels(e)[k] : k \in DOMAIN SalesChannels(e)}
FxRate(e) == IF e.fx = NULL THEN DefaultFx ELSE e.fx

Readable(e) == Junk \notin {e.fx, e.interval}

\* Mutant: the two halves of a pair of keys are not compared.
ConsistentAnyKeys(e) ==
  /\ FxRate(e) > 0
  /\ ChannelNames(e) # {} /\ ChannelNames(e) \subseteq SupportedChannels

\* Settings.validate: a start that fails it ends with ConfigError.
Consistent(e) ==
  /\ AliKey \in e.keys <=> AliSecret \in e.keys
  /\ NaverId \in e.keys <=> NaverSecret \in e.keys
  /\ FxRate(e) > 0
  /\ ChannelNames(e) # {} /\ ChannelNames(e) \subseteq SupportedChannels

SourceName(e) ==
  IF {AliKey, AliSecret} \subseteq e.keys THEN "aliexpress"
  ELSE IF AmazonKey \in e.keys THEN "amazon" ELSE "sample"

Mode(e, needed) == IF needed \subseteq e.keys THEN "real" ELSE "mock"

ChannelMode(e, channel) ==
  IF channel = "naver" THEN Mode(e, {NaverId, NaverSecret}) ELSE "mock"

\* The channel the prices are computed for and the monitor goes by.
PrimaryChannel(e) ==
  IF "naver" \in ChannelNames(e) THEN "naver" ELSE SalesChannels(e)[1]

\* The shop a consistent environment is assembled into.
Assembled(e) ==
  [source  |-> SourceName(e),
   channel |-> PrimaryChannel(e),
   catalog |-> ChannelMode(e, PrimaryChannel(e)),
   llm     |-> Mode(e, {GeminiKey}),
   fx      |-> FxRate(e)]
=============================================================================
