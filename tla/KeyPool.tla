-------------------------------- MODULE KeyPool --------------------------------
(***************************************************************************)
(* The gateway's key pool (gateway/key_pool.rs): which keys of a provider  *)
(* may be asked now, in which order, and what an answer changes.  All of   *)
(* it lives in the memory of one process, under two locks: the health of   *)
(* keys and providers, and the usage counters of the local rate limit.     *)
(*                                                                         *)
(* Instants are kept as what remains of them: a cooldown, an open breaker  *)
(* and a window entry lose one unit at each tick of the clock.             *)
(***************************************************************************)
EXTENDS Integers, Sequences, FiniteSets, SequencesExt

CONSTANTS
    Relays,            \* providers
    Keys,              \* key identities (relay_id, key_id)
    KeysOf,            \* the keys of a provider, the selected one first
    OfficialKeys,      \* the key of an official login: its value never changes
    Values,            \* texts a key may have (their fingerprints)
    Sessions,          \* conversations
    NoValue, NoKey,
    RoundRobin,        \* KeyRotationMode::RoundRobin, else sessions only
    Rpm, Concurrency,  \* limits of a provider's keys; 0 is no limit
    BaseCooldown,      \* RATE_LIMIT_BASE_COOLDOWN
    Doublings,         \* how often a cooldown doubles (10 in the code)
    MaxBackoff,        \* RATE_LIMIT_MAX_COOLDOWN
    QuotaCooldown,     \* QUOTA_DEFAULT_COOLDOWN
    AuthCooldown,      \* OFFICIAL_AUTH_COOLDOWN
    MaxHint,           \* bound on the recovery time an upstream names
    BreakerThreshold,  \* BREAKER_THRESHOLD
    BreakerOpen,       \* BREAKER_OPEN
    Window,            \* RPM_WINDOW
    StickyLimit        \* STICKY_LIMIT

ASSUME PoolAssumption ==
    /\ KeysOf \in [Relays -> Seq(Keys)]
    /\ \A r \in Relays : IsInjective(KeysOf[r])
    /\ \A k \in Keys : \E r \in Relays : k \in ToSet(KeysOf[r])
    /\ \A q, r \in Relays : ToSet(KeysOf[q]) \cap ToSet(KeysOf[r]) # {} => q = r
    /\ OfficialKeys \subseteq Keys
    /\ NoValue \notin Values /\ NoKey \notin Keys
    /\ RoundRobin \in BOOLEAN
    /\ Rpm \in [Relays -> Nat] /\ Concurrency \in [Relays -> Nat]
    /\ {BaseCooldown, Doublings, MaxBackoff, QuotaCooldown, AuthCooldown, MaxHint} \subseteq Nat
    /\ {BreakerThreshold, BreakerOpen, Window, StickyLimit} \subseteq Nat \ {0}

VARIABLES
    value,     \* the text of each key in the settings
    health,    \* PoolState::keys
    provider,  \* PoolState::providers
    sticky,    \* PoolState::sticky
    usage      \* the usage table of the local rate limit

poolVars == <<value, health, provider, sticky, usage>>
-----------------------------------------------------------------------------
RelayOf(k) == CHOOSE r \in Relays : k \in ToSet(KeysOf[r])

NoHint == -1

Kinds == {"rateLimited", "quotaExhausted", "authInvalid", "serverError",
          "failover", "clientError"}
FailureClass == [kind : Kinds, after : {NoHint} \cup (0 .. MaxHint)]

\* The statuses classify_failure tells apart, what it finds in the body, and
\* the recovery time the upstream names in a header or in the body.
Reply == [status : {400, 401, 402, 403, 404, 408, 413, 422, 429, 500, 502, 503},
          hints  : SUBSET {"quota", "invalidKey"},
          after  : {NoHint} \cup (0 .. MaxHint)]

ClassifyFailure(reply) ==
    LET Class(kind) == [kind |-> kind, after |-> reply.after] IN
    CASE reply.status = 402 -> Class("quotaExhausted")
      [] reply.status = 429 /\ "quota" \in reply.hints -> Class("quotaExhausted")
      [] reply.status = 429 /\ "quota" \notin reply.hints -> Class("rateLimited")
      [] reply.status = 401 -> Class("authInvalid")
      [] reply.status = 403 /\ "invalidKey" \in reply.hints -> Class("authInvalid")
      [] reply.status = 403 /\ reply.hints = {"quota"} -> Class("quotaExhausted")
      [] reply.status \in {400, 413, 422} -> Class("clientError")
      [] reply.status \in {408, 500, 502, 503} -> Class("serverError")
      [] OTHER -> Class("failover")

ShouldFailover(class) == class.kind # "clientError"

Min2(a, b) == IF a <= b THEN a ELSE b
Max2(a, b) == IF a >= b THEN a ELSE b

\* The count of rate limits in a row matters up to Doublings only.
MaxLimited  == Doublings + 1
MaxCooldown == Max2(Max2(MaxBackoff, MaxHint), Max2(QuotaCooldown, AuthCooldown))

KeyHealth == [cooldown : 0 .. MaxCooldown,
              limited  : 0 .. MaxLimited,
              disabled : Values \cup {NoValue}]
Healthy   == [cooldown |-> 0, limited |-> 0, disabled |-> NoValue]

ProviderHealth == [errors : 0 .. BreakerThreshold - 1, open : 0 .. BreakerOpen]
Closed         == [errors |-> 0, open |-> 0]

\* sent holds the age of every request counted in the window, oldest first.
KeyUsage == [sent : Seq(0 .. Window - 1), inFlight : Nat]
Unused   == [sent |-> << >>, inFlight |-> 0]

PoolInit ==
    /\ value \in [Keys -> Values]
    /\ \A r \in Relays : \A j, k \in ToSet(KeysOf[r]) : value[j] = value[k] => j = k
    /\ health = [k \in Keys |-> Healthy]
    /\ provider = [r \in Relays |-> Closed]
    /\ sticky = [s \in Sessions |-> [r \in Relays |-> NoKey]]
    /\ usage = [k \in Keys |-> Unused]
-----------------------------------------------------------------------------
(* Which keys may be asked (order_keys_detailed). *)

Disabled(k)     == health[k].disabled = value[k]
Cooling(k)      == health[k].cooldown > 0
OpenBreaker(r)  == provider[r].open > 0

CoolingKeys(r) == {k \in ToSet(KeysOf[r]) : ~Disabled(k) /\ Cooling(k)}
ReadyKeys(r)   == {k \in ToSet(KeysOf[r]) : ~Disabled(k) /\ ~Cooling(k)}

\* Where a key is written among those of its provider.
Place(k) == CHOOSE i \in DOMAIN KeysOf[RelayOf(k)] : KeysOf[RelayOf(k)][i] = k

\* The counter of the rotation is shared by all requests: it may stand at any
\* key when this one looks.
Turns == IF RoundRobin THEN 0 .. Cardinality(Keys) - 1 ELSE {0}

\* When session s tries a ready key, among those of its provider: its own key
\* first, else as they are written or in rotation.
KeyRank(s, turn, k) ==
    LET ready == ReadyKeys(RelayOf(k))
        own   == IF s \in Sessions THEN sticky[s][RelayOf(k)] ELSE NoKey
        ahead == {j \in ready : Place(j) < Place(k)}
    IN  CASE own \in ready /\ k = own -> 0
          [] own \in ready /\ k # own -> Place(k)
          [] OTHER -> (Cardinality(ahead) - turn) % Cardinality(ready)
-----------------------------------------------------------------------------
(* What an answer changes (record_failure, record_success). *)

Backoff(limited) == Min2(BaseCooldown * 2 ^ Min2(limited - 1, Doublings), MaxBackoff)

RateLimited(h, after) ==
    LET limited == Min2(h.limited + 1, MaxLimited) IN
    [h EXCEPT !.limited = limited,
              !.cooldown = IF after = NoHint THEN Backoff(limited) ELSE after]

KeyAfterFailure(k, v, class) ==
    LET h == health[k] IN
    CASE class.kind = "rateLimited" -> RateLimited(h, class.after)
      [] class.kind = "quotaExhausted" ->
            [h EXCEPT !.cooldown = IF class.after = NoHint THEN QuotaCooldown ELSE class.after]
      [] class.kind = "authInvalid" /\ k \in OfficialKeys -> [h EXCEPT !.cooldown = AuthCooldown]
      [] class.kind = "authInvalid" /\ k \notin OfficialKeys -> [h EXCEPT !.disabled = v]
      [] OTHER -> h

ProviderAfterFailure(r, class) ==
    LET errors == provider[r].errors + 1 IN
    CASE class.kind # "serverError" -> provider[r]
      [] class.kind = "serverError" /\ errors >= BreakerThreshold ->
            [errors |-> 0, open |-> BreakerOpen]
      [] OTHER -> [provider[r] EXCEPT !.errors = errors]

\* A request that asked key k with text v failed.
RecordFailure(k, v, class) ==
    /\ health' = [health EXCEPT ![k] = KeyAfterFailure(k, v, class)]
    /\ provider' = [provider EXCEPT ![RelayOf(k)] = ProviderAfterFailure(RelayOf(k), class)]
    /\ UNCHANGED <<value, sticky>>

Pins == {p \in Sessions \X Relays : sticky[p[1]][p[2]] # NoKey}

\* A request that asked key k succeeded; s is the session to pin to it, if any.
RecordSuccess(k, s) ==
    LET r    == RelayOf(k)
        kept == IF Cardinality(Pins) >= StickyLimit
                THEN [t \in Sessions |-> [q \in Relays |-> NoKey]] ELSE sticky
    IN  /\ health' = [health EXCEPT ![k] = Healthy]
        /\ provider' = [provider EXCEPT ![r] = Closed]
        /\ sticky' = IF s \in Sessions THEN [kept EXCEPT ![s][r] = k] ELSE sticky
        /\ UNCHANGED value
-----------------------------------------------------------------------------
(* The local rate limit (KeyUsage, try_acquire, KeySlot). *)

Limited(k) == Rpm[RelayOf(k)] > 0 \/ Concurrency[RelayOf(k)] > 0

RpmFull(k) ==
    LET rpm == Rpm[RelayOf(k)] IN rpm > 0 /\ Len(usage[k].sent) >= rpm

\* Mutant: one request too many.
BusyOffByOne(k) ==
    LET most == Concurrency[RelayOf(k)] IN most > 0 /\ usage[k].inFlight > most

Busy(k) ==
    LET most == Concurrency[RelayOf(k)] IN most > 0 /\ usage[k].inFlight >= most
Free(k) == ~RpmFull(k) /\ ~Busy(k)

\* When the window has room for one more; a key that is only busy does not know.
RetryIn(k) == Window - usage[k].sent[Len(usage[k].sent) - Rpm[RelayOf(k)] + 1]

\* The code counts the window of every key it has counters for; without an
\* rpm limit nothing depends on it.
Acquired(k) == [sent     |-> IF Rpm[RelayOf(k)] > 0 THEN Append(usage[k].sent, 0) ELSE << >>,
                inFlight |-> usage[k].inFlight + 1]

\* Mutant: the count of running requests wraps around at zero.
ReleasedWrapping(u) == [u EXCEPT !.inFlight = IF @ = 0 THEN 2 ^ 16 - 1 ELSE @ - 1]

Released(u) == [u EXCEPT !.inFlight = Max2(@ - 1, 0)]

\* Mutant: only the entry in the window is given back.
CancelledInWindow(u, age) ==
    LET same == {i \in DOMAIN u.sent : u.sent[i] = age} IN
    [u EXCEPT !.sent = IF same = {} THEN @
                       ELSE RemoveAt(@, CHOOSE i \in same : \A j \in same : j <= i)]

\* The request was never sent: its entry in the window, age units old, goes too.
Cancelled(u, age) ==
    LET same == {i \in DOMAIN u.sent : u.sent[i] = age} IN
    [Released(u) EXCEPT
        !.sent = IF same = {} THEN @
                 ELSE RemoveAt(@, CHOOSE i \in same : \A j \in same : j <= i)]

\* Mutant: an entry leaves the window one unit too late.
SlidTooLate(u) ==
    LET old == {i \in DOMAIN u.sent : \A j \in 1 .. i : u.sent[j] + 1 > Window}
        n   == Cardinality(old)
    IN  [u EXCEPT !.sent = [i \in 1 .. Len(@) - n |-> @[i + n] + 1]]

\* What left the window goes from the front, as long as the first entry is old.
\* The code does so when it looks; nothing else reads the window.
Slid(u) ==
    LET old == {i \in DOMAIN u.sent : \A j \in 1 .. i : u.sent[j] + 1 >= Window}
        n   == Cardinality(old)
    IN  [u EXCEPT !.sent = [i \in 1 .. Len(@) - n |-> @[i + n] + 1]]
-----------------------------------------------------------------------------
(* Edits of the user, and time. *)

\* replace_provider_key writes the new text to the settings; only the next
\* step, ForgetKey, clears what the pool knows of the old one.
ReplaceText(k, v) ==
    /\ k \notin OfficialKeys
    /\ Len(KeysOf[RelayOf(k)]) > 1
    /\ \A j \in ToSet(KeysOf[RelayOf(k)]) \ {k} : value[j] # v
    /\ value' = [value EXCEPT ![k] = v]
    /\ UNCHANGED <<health, provider, sticky, usage>>

\* Reset in the user interface: the health, not the usage.
Reset(r) ==
    /\ health' = [k \in Keys |-> IF RelayOf(k) = r THEN Healthy ELSE health[k]]
    /\ provider' = [provider EXCEPT ![r] = Closed]
    /\ sticky' = [s \in Sessions |-> [sticky[s] EXCEPT ![r] = NoKey]]
    /\ UNCHANGED <<value, usage>>

ForgetKey(k) ==
    /\ health' = [health EXCEPT ![k] = Healthy]
    /\ sticky' = [s \in Sessions |->
                    [r \in Relays |-> IF sticky[s][r] = k THEN NoKey ELSE sticky[s][r]]]
    /\ usage' = [usage EXCEPT ![k] = Unused]
    /\ UNCHANGED <<value, provider>>

TimePasses ==
    /\ health' = [k \in Keys |-> [health[k] EXCEPT !.cooldown = Max2(@ - 1, 0)]]
    /\ provider' = [r \in Relays |-> [provider[r] EXCEPT !.open = Max2(@ - 1, 0)]]
    /\ usage' = [k \in Keys |-> Slid(usage[k])]
    /\ UNCHANGED <<value, sticky>>
=============================================================================
