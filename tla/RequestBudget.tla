---------------------------- MODULE RequestBudget ----------------------------
(***************************************************************************)
(* The account-wide request budget, InvoRequestBudget of                   *)
(* invo-request-budget.ts: one token bucket that the feed poller (FEED)    *)
(* and the direct watcher (DIRECT_WATCH) draw from, one queue per class,   *)
(* and a pump that serves the queues when it wakes.                        *)
(*                                                                         *)
(* Time is discrete: BudgetTick is one unit of it, and every deadline of the     *)
(* code is kept as the time that remains.  Tokens and rates are counted in *)
(* fractions of a token: Token units are one request.  Timers fire when    *)
(* they are due, before time goes on; Date.now() does not go back.         *)
(*                                                                         *)
(* The code refills lazily, at the next call of advance(), against the     *)
(* rate that was in force; the rate changes in advance() and note429()     *)
(* only, so refilling at every BudgetTick gives the same tokens.  A request made *)
(* in a cooldown is rejected and changes nothing, so it is no action.      *)
(* Left out: the metrics, and errors' texts.                               *)
(***************************************************************************)
EXTENDS Integers, Sequences

CONSTANTS
    Token,            \* units of one request
    Burst,            \* burst, in units
    Reserve,          \* feedReservedRequestsPerSecond, in units
    MaxRate,          \* maxRequestsPerSecond, in units per tick
    MinRate,          \* minRequestsPerSecond, in units per tick
    RecoveryStep,     \* rateRecoveryStepPerSecond, in units per tick
    RecoveryInterval, \* rateRecoveryIntervalMs, in ticks, as the following ones
    Decay,            \* consecutiveDecayMs
    BaseCooldown,     \* baseCooldownMs
    MaxCooldown,      \* maxCooldownMs
    MaxRetryAfter,    \* maxRetryAfterCooldownMs
    ShareDivisor,     \* feedCooldownShare is 1 / ShareDivisor
    MaxWait,          \* maxAcquireWaitMs
    RetryAfters,      \* the delays a server states; 0 when it states none
    MaxQueue          \* bound on the waiting requests of a class

ASSUME UnitsAssumption ==
    /\ Token \in Nat \ {0} /\ Reserve \in Nat /\ Burst \in Nat
    /\ Burst >= Reserve + Token

ASSUME RatesAssumption ==
    /\ MinRate \in Nat \ {0} /\ MaxRate \in Nat /\ MinRate <= MaxRate
    /\ RecoveryStep \in Nat \ {0} /\ RecoveryInterval \in Nat \ {0}

ASSUME CooldownsAssumption ==
    /\ Decay \in Nat \ {0}
    /\ BaseCooldown \in Nat \ {0} /\ MaxCooldown \in Nat /\ MaxRetryAfter \in Nat
    /\ BaseCooldown <= MaxCooldown /\ MaxCooldown <= MaxRetryAfter
    /\ ShareDivisor \in Nat \ {0} /\ RetryAfters \subseteq Nat

ASSUME WaitAssumption == MaxWait \in Nat \ {0} /\ MaxQueue \in Nat

VARIABLES
    tokens,    \* tokens, in units
    rate,      \* effectiveRate
    quiet,     \* time since the last 429 or recovery, at most RecoveryInterval
    since429,  \* time since the last 429, at most Decay
    penalty,   \* the last escalated cooldown; 0 when consecutive429s is 0
    cooldown,  \* per class: what remains of its cooldown
    queue,     \* per class: how long each waiting request has waited
    pump,      \* "off", or "asleep" until wakeIn is 0
    wakeIn,    \* what remains of the pump's sleep
    owed,      \* history: what feed requests, refreshes and 429s took, until
               \* refilled; no more of it than Reserve is counted
    footprint  \* history: granted requests, in units, drained at MaxRate

limits == <<rate, quiet, since429, penalty, cooldown>>
budgetVars == <<tokens, rate, quiet, since429, penalty, cooldown, queue, pump, wakeIn,
          owed, footprint>>

Class == {"FEED", "DIRECT_WATCH"}

Lesser(a, b) == IF a < b THEN a ELSE b
Greater(a, b) == IF a > b THEN a ELSE b
Minus(a, b) == IF a > b THEN a - b ELSE 0
CeilDiv(a, b) == (a + b - 1) \div b
Drop(q, n) == SubSeq(q, n + 1, Len(q))

Nobody == [FEED |-> <<>>, DIRECT_WATCH |-> <<>>]

BudgetInit ==
    /\ tokens = Burst
    /\ rate = MaxRate
    /\ quiet = 0
    /\ since429 = Decay
    /\ penalty = 0
    /\ cooldown = [c \in Class |-> 0]
    /\ queue = Nobody
    /\ pump = "off"
    /\ wakeIn = 0
    /\ owed = 0
    /\ footprint = 0

-----------------------------------------------------------------------------
(* advance(): what is left of it beside the refill. *)

Recovers == rate < MaxRate /\ quiet >= RecoveryInterval

AdvancedRate == IF Recovers THEN Lesser(MaxRate, rate + RecoveryStep) ELSE rate

AdvancedPenalty == IF since429 >= Decay THEN 0 ELSE penalty

Advance ==
    /\ rate' = AdvancedRate
    /\ quiet' = IF Recovers THEN 0 ELSE quiet
    /\ penalty' = AdvancedPenalty

-----------------------------------------------------------------------------
(* serve() and expire(): the queues q against t tokens and cooldowns cd. *)

(* Mutant: reconciliation may take the last token. *)
UsableByDirectWholly(t) == t

(* The tokens that DIRECT_WATCH may take: those above the reserve. *)
UsableByDirect(t) == Minus(t, Reserve)

(* A class in a cooldown is rejected; otherwise the feed first, each in order. *)
Served(q, t, cd) ==
    LET feed == IF cd["FEED"] > 0 THEN 0 ELSE Lesser(Len(q["FEED"]), t \div Token)
        feedLeft == IF cd["FEED"] > 0 THEN <<>> ELSE Drop(q["FEED"], feed)
        left == t - feed * Token
        direct == IF cd["DIRECT_WATCH"] > 0 \/ feedLeft # <<>> THEN 0
                  ELSE Lesser(Len(q["DIRECT_WATCH"]), UsableByDirect(left) \div Token)
        directLeft == IF cd["DIRECT_WATCH"] > 0 THEN <<>>
                      ELSE Drop(q["DIRECT_WATCH"], direct)
    IN  [queue |-> [FEED |-> feedLeft, DIRECT_WATCH |-> directLeft],
         feed |-> feed * Token,
         direct |-> direct * Token]

(* The requests that have waited long enough are at the front of a queue, n[c]
   of them: each queue is in the order of arrival. *)
Expire(q, n, left) ==
    /\ \A c \in Class :
        /\ n[c] <= Len(q[c])
        /\ \A i \in DOMAIN q[c] : q[c][i] >= MaxWait <=> i <= n[c]
    /\ left = [c \in Class |-> Drop(q[c], n[c])]

(* Serving takes the granted tokens. *)
Take(served) ==
    /\ tokens' = tokens - served.feed - served.direct
    /\ owed' = Lesser(Reserve, owed + served.feed)
    /\ footprint' = footprint + served.feed + served.direct

(* nextWakeMs(): until the first class that waits can be served, or until a
   head of a queue has waited long enough. *)
Deficit(q, t) == Minus(IF q["FEED"] # <<>> THEN Token ELSE Token + Reserve, t)

UntilExpiry(q, c) == IF q[c] = <<>> THEN MaxWait ELSE Minus(MaxWait, Head(q[c]))

NextWake(q, t, r) ==
    Greater(1, Lesser(CeilDiv(Deficit(q, t), r),
                      Lesser(UntilExpiry(q, "FEED"), UntilExpiry(q, "DIRECT_WATCH"))))

-----------------------------------------------------------------------------
(* Time. *)

(* Mutant: unused tokens pile up. *)
RefilledUncapped == tokens + rate

Refilled == Lesser(Burst, tokens + rate)

BudgetTick ==
    /\ pump = "asleep" => wakeIn > 0
    /\ tokens' = Refilled
    /\ quiet' = Lesser(RecoveryInterval, quiet + 1)
    /\ since429' = Lesser(Decay, since429 + 1)
    /\ cooldown' = [c \in Class |-> Minus(cooldown[c], 1)]
    /\ queue' = [c \in Class |-> [i \in DOMAIN queue[c] |-> queue[c][i] + 1]]
    /\ wakeIn' = Minus(wakeIn, 1)
    /\ owed' = Minus(owed, rate)
    /\ footprint' = Minus(footprint, MaxRate)
    /\ UNCHANGED <<rate, penalty, pump>>

-----------------------------------------------------------------------------
(* acquire(): the request joins its queue and is served at once if it can be. *)

(* A request that is servable before the pump wakes ends the pump's sleep. *)
WakeEarly(wake) == IF wake < wakeIn THEN 0 ELSE wakeIn

Acquire(c) ==
    /\ cooldown[c] = 0
    /\ Len(queue[c]) < MaxQueue
    /\ Advance
    /\ LET served == Served([queue EXCEPT ![c] = Append(@, 0)], tokens, cooldown)
           wake == NextWake(served.queue, tokens', rate')
       IN  /\ Take(served)
           /\ queue' = served.queue
           /\ \/ /\ served.queue = Nobody
                 /\ UNCHANGED <<pump, wakeIn>>
              \/ /\ served.queue # Nobody
                 /\ pump' = "asleep"
                 /\ wakeIn' = IF pump = "off" THEN wake ELSE WakeEarly(wake)
    /\ UNCHANGED <<since429, cooldown>>

-----------------------------------------------------------------------------
(* pump(): it wakes when its sleep ends, and stops when nobody waits. *)

PumpStops ==
    /\ pump = "asleep"
    /\ wakeIn = 0
    /\ queue = Nobody
    /\ pump' = "off"
    /\ UNCHANGED <<tokens, limits, queue, wakeIn, owed, footprint>>

PumpServes ==
    /\ pump = "asleep"
    /\ wakeIn = 0
    /\ queue # Nobody
    /\ Advance
    /\ LET served == Served(queue, tokens, cooldown)
       IN  /\ Take(served)
           /\ \E n \in [Class -> 0 .. MaxQueue] : Expire(served.queue, n, queue')
    /\ IF queue' = Nobody
       THEN pump' = "off" /\ wakeIn' = 0
       ELSE pump' = "asleep" /\ wakeIn' = NextWake(queue', tokens', rate')
    /\ UNCHANGED <<since429, cooldown>>

-----------------------------------------------------------------------------
(* chargeUnbudgeted(): a token refresh is charged but not gated. *)

ChargeUnbudgeted ==
    /\ Advance
    /\ tokens' = Minus(tokens, Token)
    /\ owed' = Lesser(Reserve, owed + Token)
    /\ UNCHANGED <<since429, cooldown, queue, pump, wakeIn, footprint>>

-----------------------------------------------------------------------------
(* note429(): the server rejected a request of class c.  It may be one that
   was granted long ago, so this can happen at any time. *)

Escalated ==
    IF AdvancedPenalty = 0 THEN BaseCooldown ELSE Lesser(MaxCooldown, 2 * AdvancedPenalty)

(* What class d serves of the cooldown of c: the feed a share only. *)
CooldownFor(c, d, full) ==
    IF c = "DIRECT_WATCH" /\ d = "FEED" THEN CeilDiv(full, ShareDivisor) ELSE full

(* Who still waits when the cooldowns are cd: nobody of a class in a cooldown.
   The expire() that follows finds nobody, for both classes are in one. *)
Rejected(q, cd) == Served(q, 0, cd).queue

(* rateDecreaseFactor is 1/2. *)
Reduced == Greater(MinRate, AdvancedRate \div 2)

Note429(c, retryAfter) ==
    LET full == Greater(Lesser(MaxRetryAfter, retryAfter), Escalated)
    IN  /\ rate' = Reduced
        /\ quiet' = 0
        /\ since429' = 0
        /\ penalty' = Escalated
        /\ tokens' = 0
        /\ owed' = Reserve
        /\ cooldown' = [d \in Class |-> Greater(cooldown[d], CooldownFor(c, d, full))]
        /\ queue' = Rejected(queue, cooldown')
        /\ UNCHANGED <<pump, wakeIn, footprint>>

-----------------------------------------------------------------------------
BudgetNext ==
    \/ BudgetTick
    \/ \E c \in Class : Acquire(c)
    \/ PumpStops
    \/ PumpServes
    \/ ChargeUnbudgeted
    \/ \E c \in Class, retryAfter \in RetryAfters : Note429(c, retryAfter)

BudgetSpec == BudgetInit /\ [][BudgetNext]_budgetVars

-----------------------------------------------------------------------------
(* Each variable has its type: the bucket stays within its burst and the rate
   between the AIMD floor and the configured ceiling. *)
BudgetTypeOK ==
    /\ tokens \in 0 .. Burst
    /\ rate \in MinRate .. MaxRate
    /\ quiet \in 0 .. RecoveryInterval
    /\ since429 \in 0 .. Decay
    /\ penalty \in 0 .. MaxCooldown
    /\ cooldown \in [Class -> 0 .. MaxRetryAfter]
    /\ queue \in [Class -> Seq(Nat)]
    /\ pump \in {"off", "asleep"}
    /\ wakeIn \in Nat
    /\ owed \in 0 .. Reserve
    /\ footprint \in Nat

(* Reconciliation never reaches the reserve: whatever is missing of it was
   taken by feed requests, token refreshes and 429s, and is refilled since. *)
ReserveHeldForFeed == tokens + owed >= Reserve

(* The granted requests of any stretch of time stay within one burst and what
   the configured ceiling refills in that time, whatever the 429s and recoveries. *)
CeilingHolds == tokens + footprint <= Burst

(* The feed is never the more throttled class: overlapping penalties of either
   class, escalated or stated by the server, leave it the shorter cooldown. *)
FeedCooldownNeverLonger == cooldown["FEED"] <= cooldown["DIRECT_WATCH"]

(* Nobody waits for a class in a cooldown: a 429 rejects the waiting requests
   at once, not when the pump wakes. *)
NobodyWaitsInCooldown == \A c \in Class : cooldown[c] > 0 => queue[c] = <<>>

(* No request waits longer than maxAcquireWaitMs for its grant or rejection:
   the pump is never asleep past the deadline of a request. *)
WaitBounded ==
    \A c \in Class : \A i \in DOMAIN queue[c] : queue[c][i] <= MaxWait

(* A waiting feed request is paced by the refill of one token, at worst at the
   AIMD floor, and not by the longer refill a DIRECT_WATCH head needs. *)
FeedPacedByOneToken ==
    queue["FEED"] # <<>> => pump = "asleep" /\ wakeIn <= CeilDiv(Token, MinRate)

(* The shared account serves the feed first and never beyond its ceiling:  *)
(* the reserve is the feed's, 429s hit it the least, nobody waits in a     *)
(* cooldown or past his deadline, and the feed waits for one token only.   *)
BudgetSafe ==
    /\ BudgetTypeOK
    /\ ReserveHeldForFeed /\ CeilingHolds
    /\ FeedCooldownNeverLonger /\ NobodyWaitsInCooldown
    /\ WaitBounded /\ FeedPacedByOneToken
=============================================================================
