--------------------------- MODULE PushProviders ---------------------------
(***************************************************************************)
(* The Hub's push providers (routes/push/providers.rs): how one delivery     *)
(* gets a bearer token and what it makes of the provider's answer.           *)
(*                                                                         *)
(* Each platform caches one bearer behind an async lock.  APNs' is signed    *)
(* here and at once; FCM's is fetched while the lock is held, so that other  *)
(* deliveries wait for it.  The whole delivery ends after a deadline, and    *)
(* with its future goes the lock it may hold.                                *)
(*                                                                         *)
(* Time is counted in ticks.  A bearer is what is left of its life at the    *)
(* provider, at worst: it counts from the moment it was asked for.  Device   *)
(* tokens are well formed, both platforms are configured and the clock is    *)
(* after 1970; what a push says is fixed and left out.                       *)
(***************************************************************************)
EXTENDS Naturals, FiniteSets

CONSTANTS
    Handles,
    Tokens,
    Ios,            \* the tokens that APNs gave out; FCM gave out the others
    Deadline,       \* 25 s in Providers::send
    Margin,         \* a bearer is not used in its last 60 s (FCM), 10 min (APNs)
    Life,           \* ticks a new bearer is good for
    MaxFrames,      \* bound: registrations over the life of the Hub
    MaxPushes       \* bound: deliveries over the life of the Hub

ASSUME ProviderBounds ==
    /\ Ios \subseteq Tokens
    /\ Deadline \in Nat \ {0} /\ Margin \in Nat /\ Life \in Nat
    /\ Deadline <= Margin /\ Margin < Life
    /\ MaxFrames \in Nat /\ MaxPushes \in Nat

VARIABLES
    bearer,       \* the cached bearer of each platform; 0 when there is none
    flight        \* deliveries, each a task of its own

Platforms   == {"ios", "android"}
Platform(d) == IF d.token \in Ios THEN "ios" ELSE "android"

Delivery == [handle : Handles, token : Tokens, gen : 1..MaxFrames,
             stage : {"start", "oauth", "post"}, left : 0..Deadline, bearer : 0..Life]

ProviderTypeOK == bearer \in [Platforms -> 0..Life] /\ flight \subseteq Delivery

ProviderInit == bearer = [p \in Platforms |-> 0] /\ flight = {}

Replace(d, e) == flight' = (flight \ {d}) \cup {e}

-----------------------------------------------------------------------------
\* Mutant: the bearer is used to the last moment of its life.
CachedToTheEnd(p) == bearer[p] > 0

\* A cached bearer that has not expired.
Cached(p) == bearer[p] > Margin

BearerLocked(p) == \E d \in flight : Platform(d) = p /\ d.stage = "oauth"

\* bearer() finds one; Apns::bearer signs one when it does not.
TakeBearer(d) ==
    /\ d.stage = "start"
    /\ LET p == Platform(d)
           b == IF Cached(p) THEN bearer[p] ELSE Life
       IN  /\ ~BearerLocked(p)
           /\ Cached(p) \/ p = "ios"
           /\ bearer' = [bearer EXCEPT ![p] = b]
           /\ Replace(d, [d EXCEPT !.stage = "post", !.bearer = b])

\* Fcm::bearer finds none, and asks for one with the lock held.
AskOauth(d) ==
    /\ d.stage = "start"
    /\ Platform(d) = "android" /\ ~Cached("android") /\ ~BearerLocked("android")
    /\ Replace(d, [d EXCEPT !.stage = "oauth", !.bearer = Life])
    /\ bearer' = bearer

\* The answer of the OAuth service.  Its life counts from the question.
OauthAnswers(d) ==
    /\ d.stage = "oauth"
    /\ bearer' = [bearer EXCEPT !["android"] = d.bearer]
    /\ Replace(d, [d EXCEPT !.stage = "post"])

GetBearer(d) == TakeBearer(d) \/ AskOauth(d) \/ OauthAnswers(d)

\* A delivery that ends without a verdict on the Device's token: the deadline,
\* no bearer, no answer.
GivesUp(d) == d.left = 0 \/ d.stage \in {"oauth", "post"}

\* What a provider may say of a push (external).
Answers == {"success", "gone", "bad_device_token", "unregistered", "other"}

\* Which answers mean that the token is dead for good.
ApnsDead(answer)        == answer \in {"gone", "bad_device_token"}
FcmInvalidToken(answer) == answer = "unregistered"

TokenIsDead(p, answer) == IF p = "ios" THEN ApnsDead(answer) ELSE FcmInvalidToken(answer)

\* The clock: a deadline is not passed by.
Aged(x) == IF x = 0 THEN 0 ELSE x - 1

ProviderTick ==
    /\ \A d \in flight : d.left > 0
    /\ flight' = {[d EXCEPT !.left = @ - 1, !.bearer = Aged(@)] : d \in flight}
    /\ bearer' = [p \in Platforms |-> Aged(bearer[p])]

-----------------------------------------------------------------------------
\* The margin and the deadline together: a bearer that is sent is good until
\* the delivery is over, however long it waited for the lock and the answer.
\* An expired one fails every push until the cache is old enough.
BearerOutlivesItsPush == \A d \in flight : d.stage = "post" => d.bearer > 0
=============================================================================
