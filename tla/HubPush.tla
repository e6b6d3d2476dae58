------------------------------ MODULE HubPush ------------------------------
(***************************************************************************)
(* The Hub's push store (routes/push.rs): one registration per handle,       *)
(* content-free wakes from the Host, deliveries to the provider in tasks of  *)
(* their own.                                                               *)
(*                                                                         *)
(* The store lock is taken once per frame and once per finished delivery; a  *)
(* wake looks the Device's channel up before it takes the lock.  Time is     *)
(* counted in ticks, and ages stop at Collapse.  A token is a model value.   *)
(* A platform without a provider, and a Hub without any, leave the state as  *)
(* it is; the counters of the metrics page are left out.                    *)
(***************************************************************************)
EXTENDS PushProviders

CONSTANTS
    None,
    Capacity,       \* CAPACITY of the store
    Collapse,       \* COLLAPSE, in ticks
    MaxWakes        \* bound: wakes between their two halves at once

ASSUME PushNone   == None \notin Tokens
ASSUME PushBounds == Capacity \in Nat \ {0} /\ Collapse \in Nat \ {0} /\ MaxWakes \in Nat \ {0}

VARIABLES
    entries,      \* the registration of each handle, NoEntry when there is none
    generation,   \* Store::generation
    joined,       \* handles with a Device whose channel is open
    checked,      \* handles whose Host's wake passed the peer check
    pushes,       \* how many there were
    quiet,        \* history: ticks since the last push for a handle whose entry stayed
    latest,       \* history: generation of a handle's last registration
    withdrawn     \* history: handles whose Device or provider ended that registration

providerVars == <<flight, bearer>>
vars == <<entries, generation, joined, checked, providerVars, pushes, quiet, latest, withdrawn>>

Entry   == [token : Tokens, gen : 1..MaxFrames, age : 0..Collapse]
NoEntry == [token |-> None, gen |-> 0, age |-> Collapse]

Present == {h \in Handles : entries[h] # NoEntry}

Init ==
    /\ entries    = [h \in Handles |-> NoEntry]
    /\ generation = 0
    /\ joined = {} /\ checked = {} /\ pushes = 0
    /\ ProviderInit
    /\ quiet   = [h \in Handles |-> Collapse]
    /\ latest  = [h \in Handles |-> 0]
    /\ withdrawn = {}

\* With an entry goes what it knew of the last push.
Forget(gone) == [h \in Handles |-> IF h \in gone THEN Collapse ELSE quiet[h]]

-----------------------------------------------------------------------------
(* Frames of the Device.                                                    *)

\* Mutant: the newest registration is evicted.
EvictsNewest(h) ==
    {g \in Present : /\ Cardinality(Present) = Capacity /\ h \notin Present
                     /\ \A k \in Present : entries[k].gen <= entries[g].gen}

\* A full store gives up its oldest registration to a new handle.
Evicted(h) ==
    {g \in Present : /\ Cardinality(Present) = Capacity /\ h \notin Present
                     /\ \A k \in Present : entries[g].gen <= entries[k].gen}

\* Mutant: a refreshed token forgets when the last push went out.
RefreshForgets(h) == Collapse

\* A refreshed registration keeps the time of the last push.
KeptAge(h) == entries[h].age

\* Store::register
Register(h, token) ==
    /\ h \in joined
    /\ generation < MaxFrames
    /\ generation' = generation + 1
    /\ entries' = [g \in Handles |->
                     IF g = h THEN [token |-> token, gen |-> generation + 1, age |-> KeptAge(h)]
                     ELSE IF g \in Evicted(h) THEN NoEntry
                     ELSE entries[g]]
    /\ latest'    = [latest EXCEPT ![h] = generation + 1]
    /\ withdrawn' = withdrawn \ {h}
    /\ quiet' = Forget(Evicted(h))
    /\ UNCHANGED <<joined, checked, providerVars, pushes>>

\* PushUnregister
Unregister(h) ==
    /\ h \in joined
    /\ entries' = [entries EXCEPT ![h] = NoEntry]
    /\ withdrawn' = withdrawn \cup {h}
    /\ quiet' = Forget({h})
    /\ UNCHANGED <<generation, joined, checked, providerVars, pushes, latest>>

-----------------------------------------------------------------------------
(* Frames of the Host, and the delivery they may start.                     *)

\* PushWake, first half: sessions.peer_of(handle, Host) has an open channel,
\* or the wake goes on to the store.
WakeCheck(h) ==
    /\ h \notin joined
    /\ h \notin checked /\ Cardinality(checked) < MaxWakes
    /\ checked' = checked \cup {h}
    /\ UNCHANGED <<entries, generation, joined, providerVars, pushes, quiet, latest, withdrawn>>

\* Mutant: the window is not looked at.
MayPushAlways(h) == h \in Present

MayPush(h) == h \in Present /\ entries[h].age = Collapse

\* Store::take_wake, then the spawn of the delivery: no registration, or a
\* push in the last Collapse ticks, ends the wake.
TakeWake(h) ==
    /\ h \in checked
    /\ checked' = checked \ {h}
    /\ IF MayPush(h)
       THEN /\ pushes < MaxPushes
            /\ pushes'  = pushes + 1
            /\ entries' = [entries EXCEPT ![h].age = 0]
            /\ flight'  = flight \cup {[handle |-> h, token |-> entries[h].token,
                                        gen |-> entries[h].gen,
                                        stage |-> "start", left |-> Deadline,
                                        bearer |-> 0]}
            /\ quiet'   = [quiet EXCEPT ![h] = 0]
       ELSE UNCHANGED <<pushes, entries, flight, quiet>>
    /\ UNCHANGED <<generation, joined, bearer, latest, withdrawn>>

\* Providers::send on its way to an answer.
Advance(d) ==
    /\ d \in flight
    /\ GetBearer(d)
    /\ UNCHANGED <<entries, generation, joined, checked, pushes, quiet, latest, withdrawn>>

\* The provider accepts, or the delivery fails in a way that says nothing of
\* the token.
Delivered(d) ==
    /\ d \in flight
    /\ GivesUp(d) \/ (d.stage = "post" /\ \E a \in Answers : ~TokenIsDead(Platform(d), a))
    /\ flight' = flight \ {d}
    /\ UNCHANGED <<bearer, entries, generation, joined, checked, pushes, quiet, latest, withdrawn>>

\* Mutant: whatever is registered under the handle goes.
IsCurrentAlways(d) == d.handle \in Present

\* Store::remove_generation: only the registration that was sent to.
IsCurrent(d) == d.handle \in Present /\ entries[d.handle].gen = d.gen

\* Err(true): the provider says the token is dead for good.
TokenRefused(d) ==
    /\ d \in flight
    /\ d.stage = "post" /\ \E a \in Answers : TokenIsDead(Platform(d), a)
    /\ flight' = flight \ {d}
    /\ IF IsCurrent(d)
       THEN /\ entries' = [entries EXCEPT ![d.handle] = NoEntry]
            /\ withdrawn' = withdrawn \cup {d.handle}
            /\ quiet' = Forget({d.handle})
       ELSE UNCHANGED <<entries, withdrawn, quiet>>
    /\ UNCHANGED <<bearer, generation, joined, checked, pushes, latest>>

-----------------------------------------------------------------------------
(* The rooms, the networks and the clock.                                   *)

Join(h) ==
    /\ h \notin joined
    /\ joined' = joined \cup {h}
    /\ UNCHANGED <<entries, generation, checked, providerVars, pushes, quiet, latest, withdrawn>>

Lose(h) ==
    /\ h \in joined
    /\ joined' = joined \ {h}
    /\ UNCHANGED <<entries, generation, checked, providerVars, pushes, quiet, latest, withdrawn>>

Older(a) == IF a < Collapse THEN a + 1 ELSE a

Tick ==
    /\ entries' = [h \in Handles |-> [entries[h] EXCEPT !.age = Older(@)]]
    /\ quiet'   = [h \in Handles |-> Older(quiet[h])]
    /\ ProviderTick
    /\ UNCHANGED <<generation, joined, checked, pushes, latest, withdrawn>>

Next ==
    \/ \E h \in Handles : \/ \E token \in Tokens : Register(h, token)
                          \/ Unregister(h) \/ WakeCheck(h) \/ TakeWake(h) \/ Join(h) \/ Lose(h)
    \/ \E d \in flight : Advance(d) \/ Delivered(d) \/ TokenRefused(d)
    \/ Tick

Spec == Init /\ [][Next]_vars

-----------------------------------------------------------------------------
\* Every variable has its type, and the registrations carry generations the
\* store has given out.
TypeOK ==
    /\ entries \in [Handles -> Entry \cup {NoEntry}]
    /\ generation \in 0..MaxFrames
    /\ joined \subseteq Handles /\ checked \subseteq Handles
    /\ ProviderTypeOK
    /\ pushes \in 0..MaxPushes
    /\ quiet \in [Handles -> 0..Collapse]
    /\ latest \in [Handles -> 0..MaxFrames]
    /\ withdrawn \subseteq Handles

\* Store::register's eviction by generation: a registration that neither its
\* Device withdrew nor the provider refused is only missing when CAPACITY
\* other handles have registered since.
EvictionIsFair ==
    \A h \in Handles : latest[h] # 0 /\ h \notin withdrawn \cup Present =>
        Cardinality({g \in Handles : latest[g] > latest[h]}) >= Capacity

\* take_wake and register together: within COLLAPSE of a push there is no
\* second one for the handle unless its registration was removed in between.
WakeStep ==
    pushes' > pushes => \A d \in flight' \ flight : quiet[d.handle] = Collapse
WakesCollapse == [][WakeStep]_vars

\* remove_generation: a late verdict of the provider removes the registration
\* it was about, never one that replaced it.
RefusalStep ==
    \A d \in flight \ flight' : \A h \in Present :
        entries'[h] = NoEntry => h = d.handle /\ entries[h].token = d.token
RefusalHitsItsToken == [][RefusalStep]_vars

-----------------------------------------------------------------------------
(* What the documents say and the code does not keep.                       *)

\* "The relay MUST send a wake only when ... no Device is joined" (R-12-073).
PushOnlyWhenAway == [][\A d \in flight' \ flight : pushes' > pushes => d.handle \notin joined]_vars
=============================================================================
