--------------------------- MODULE HubPushProofs ---------------------------
(***************************************************************************)
(* Proofs about HubPush and PushProviders, for any handles, tokens, store    *)
(* capacity, collapse window, deadline, margin and bearer life that satisfy  *)
(* the named assumptions, and however many registrations and deliveries:     *)
(* type correctness, fair eviction, bearers that outlive their push, wakes   *)
(* that collapse and refusals that hit their own token.                      *)
(***************************************************************************)
EXTENDS HubPush, FiniteSetTheorems, TLAPS

-----------------------------------------------------------------------------
(* Entries.                                                                 *)

\* A handle without a registration has no token; one with a registration has.
LEMMA EntryIs ==
    ASSUME TypeOK, NEW h \in Handles
    PROVE  /\ h \in Present <=> entries[h] \in Entry
           /\ h \in Present <=> entries[h].token \in Tokens
           /\ h \notin Present => entries[h] = NoEntry
           /\ entries[h].age \in 0..Collapse
           /\ entries[h].gen \in 0..MaxFrames
           /\ h \in Present => entries[h].gen \in 1..MaxFrames
<1>1. entries[h] \in Entry \cup {NoEntry}
  BY DEF TypeOK
<1>2. Collapse \in Nat /\ MaxFrames \in Nat /\ None \notin Tokens
  BY PushBounds, ProviderBounds, PushNone
<1>3. NoEntry.token = None /\ NoEntry.age = Collapse /\ NoEntry.gen = 0
  BY DEF NoEntry
<1>4. \A e \in Entry : e.token \in Tokens /\ e.gen \in 1..MaxFrames /\ e.age \in 0..Collapse
  BY DEF Entry
<1>5. NoEntry \notin Entry
  BY <1>2, <1>3, <1>4
<1>6. h \in Present <=> entries[h] # NoEntry
  BY DEF Present
<1>. QED
  BY <1>1, <1>2, <1>3, <1>4, <1>5, <1>6

\* An entry that grows older keeps its token and generation, and is none the
\* less an entry; no entry stays none.
LEMMA OlderEntry ==
    ASSUME TypeOK, NEW h \in Handles, NEW e, e = [entries[h] EXCEPT !.age = Older(@)]
    PROVE  /\ e \in Entry \cup {NoEntry}
           /\ e.token = entries[h].token /\ e.gen = entries[h].gen
           /\ e.age = Older(entries[h].age)
           /\ e = NoEntry <=> entries[h] = NoEntry
<1>1. Collapse \in Nat /\ None \notin Tokens
  BY PushBounds, PushNone
<1>2. CASE entries[h] \in Entry
  <2>1. entries[h].age \in 0..Collapse /\ Older(entries[h].age) \in 0..Collapse
    BY <1>1, <1>2 DEF Entry, Older
  <2>2. e \in Entry /\ e.token = entries[h].token /\ e.gen = entries[h].gen
        /\ e.age = Older(entries[h].age)
    BY <1>2, <2>1 DEF Entry
  <2>3. e.token # None /\ entries[h].token # None
    BY <1>1, <1>2, <2>2 DEF Entry
  <2>. QED
    BY <2>2, <2>3 DEF NoEntry
<1>3. CASE entries[h] = NoEntry
  <2>1. Older(Collapse) = Collapse
    BY <1>1 DEF Older
  <2>2. e = NoEntry
    BY <1>3, <2>1 DEF NoEntry
  <2>. QED
    BY <1>3, <2>1, <2>2 DEF NoEntry
<1>. QED
  BY <1>2, <1>3 DEF TypeOK

-----------------------------------------------------------------------------
(* The inductive invariant.                                                 *)

\* A registration carries the generation of its handle's last one, and no two
\* handles the same.
Stamped ==
    /\ \A h \in Handles : latest[h] <= generation
    /\ \A h \in Present : entries[h].gen = latest[h]
    /\ \A g, h \in Handles : latest[g] = latest[h] /\ latest[h] # 0 => g = h

\* The handles that ever registered.
Known == {h \in Handles : latest[h] # 0}

\* The store's age of the last push is the time since the last push.
QuietIsAge == \A h \in Handles : quiet[h] = entries[h].age

\* A delivery was started for a registration the store gave out, and for its
\* token.
FlightsKnown ==
    \A d \in flight : /\ d.gen <= generation
                      /\ IsCurrent(d) => entries[d.handle].token = d.token

\* A bearer that was taken or asked for has more life left than its delivery.
BearersLast == \A d \in flight : d.stage # "start" => d.bearer > d.left

\* Bearers that last give the property the run checks.
LEMMA BearersSuffice == TypeOK /\ BearersLast => BearerOutlivesItsPush
<1> SUFFICES ASSUME TypeOK, BearersLast, NEW d \in flight, d.stage = "post"
             PROVE  d.bearer > 0
  BY DEF BearerOutlivesItsPush
<1>1. d \in Delivery
  BY DEF TypeOK, ProviderTypeOK
<1>2. d.left \in Nat /\ d.bearer \in Nat
  BY <1>1, ProviderBounds DEF Delivery
<1>. QED
  BY <1>2 DEF BearersLast

-----------------------------------------------------------------------------
(* The providers' steps.                                                    *)

\* A delivery on its way to an answer stays a delivery of the same
\* registration, with a bearer that lasts.
LEMMA AdvanceProvider ==
    ASSUME ProviderTypeOK, BearersLast, NEW d \in flight, GetBearer(d)
    PROVE  /\ ProviderTypeOK' /\ BearersLast'
           /\ \E e \in Delivery : /\ flight' = (flight \ {d}) \cup {e}
                                  /\ e.handle = d.handle /\ e.token = d.token /\ e.gen = d.gen
<1>0. /\ Life \in Nat /\ Margin \in Nat /\ Deadline \in Nat /\ Deadline <= Margin /\ Margin < Life
  BY ProviderBounds
<1>1. d \in Delivery /\ d.left \in 0..Deadline /\ d.bearer \in 0..Life
  BY DEF ProviderTypeOK, Delivery
<1>2. \A p \in Platforms : bearer[p] \in 0..Life
  BY DEF ProviderTypeOK
<1>3. CASE TakeBearer(d)
  <2>1. PICK p, b : /\ p = Platform(d) /\ b = IF Cached(p) THEN bearer[p] ELSE Life
    OBVIOUS
  <2>2. p \in Platforms
    BY <2>1 DEF Platform, Platforms
  <2>3. b \in 0..Life /\ b > d.left
    BY <1>0, <1>1, <1>2, <2>1, <2>2 DEF Cached
  <2>4. PICK e : e = [d EXCEPT !.stage = "post", !.bearer = b]
    OBVIOUS
  <2>5. /\ e \in Delivery /\ e.handle = d.handle /\ e.token = d.token /\ e.gen = d.gen
        /\ e.bearer = b /\ e.left = d.left
    BY <1>1, <2>3, <2>4 DEF Delivery
  <2>6. flight' = (flight \ {d}) \cup {e} /\ bearer' = [bearer EXCEPT ![p] = b]
    BY <1>3, <2>1, <2>4 DEF TakeBearer, Replace
  <2>7. ProviderTypeOK'
    BY <2>2, <2>3, <2>5, <2>6 DEF ProviderTypeOK
  <2>8. BearersLast'
    BY <2>3, <2>5, <2>6 DEF BearersLast
  <2>. QED
    BY <2>5, <2>6, <2>7, <2>8
<1>4. CASE AskOauth(d)
  <2>0. Life \in 0..Life
    BY <1>0
  <2>1. PICK e : e = [d EXCEPT !.stage = "oauth", !.bearer = Life]
    OBVIOUS
  <2>2. /\ e \in Delivery /\ e.handle = d.handle /\ e.token = d.token /\ e.gen = d.gen
        /\ e.bearer = Life /\ e.left = d.left
    BY <1>1, <2>0, <2>1 DEF Delivery
  <2>3. flight' = (flight \ {d}) \cup {e} /\ bearer' = bearer
    BY <1>4, <2>1 DEF AskOauth, Replace
  <2>4. ProviderTypeOK'
    BY <2>2, <2>3 DEF ProviderTypeOK
  <2>5. BearersLast'
    BY <1>0, <1>1, <2>2, <2>3 DEF BearersLast
  <2>. QED
    BY <2>2, <2>3, <2>4, <2>5
<1>5. CASE OauthAnswers(d)
  <2>1. PICK e : e = [d EXCEPT !.stage = "post"]
    OBVIOUS
  <2>2. /\ e \in Delivery /\ e.handle = d.handle /\ e.token = d.token /\ e.gen = d.gen
        /\ e.bearer = d.bearer /\ e.left = d.left
    BY <1>1, <2>1 DEF Delivery
  <2>3. flight' = (flight \ {d}) \cup {e} /\ bearer' = [bearer EXCEPT !["android"] = d.bearer]
    BY <1>5, <2>1 DEF OauthAnswers, Replace
  <2>4. ProviderTypeOK'
    BY <1>1, <2>2, <2>3 DEF ProviderTypeOK, Platforms
  <2>5. BearersLast'
    BY <1>5, <2>2, <2>3 DEF BearersLast, OauthAnswers
  <2>. QED
    BY <2>2, <2>3, <2>4, <2>5
<1>. QED
  BY <1>3, <1>4, <1>5 DEF GetBearer

\* A tick takes as much from a bearer as from its delivery.
LEMMA TickProvider ==
    ASSUME ProviderTypeOK, BearersLast, ProviderTick
    PROVE  /\ ProviderTypeOK' /\ BearersLast'
           /\ \A e \in flight' : \E d \in flight :
                 e.handle = d.handle /\ e.token = d.token /\ e.gen = d.gen
<1>0. Life \in Nat /\ Deadline \in Nat
  BY ProviderBounds
<1>1. ASSUME NEW d \in flight, NEW e, e = [d EXCEPT !.left = @ - 1, !.bearer = Aged(@)]
      PROVE  /\ e \in Delivery /\ e.handle = d.handle /\ e.token = d.token /\ e.gen = d.gen
             /\ e.stage # "start" => e.bearer > e.left
  <2>1. d \in Delivery /\ d.left > 0 /\ (d.stage # "start" => d.bearer > d.left)
    BY DEF ProviderTypeOK, ProviderTick, BearersLast
  <2>2. d.left \in 0..Deadline /\ d.bearer \in 0..Life
    BY <2>1 DEF Delivery
  <2>3. d.left - 1 \in 0..Deadline /\ Aged(d.bearer) \in 0..Life
    BY <1>0, <2>1, <2>2 DEF Aged
  <2>4. /\ e \in Delivery /\ e.handle = d.handle /\ e.token = d.token /\ e.gen = d.gen
        /\ e.stage = d.stage /\ e.left = d.left - 1 /\ e.bearer = Aged(d.bearer)
    BY <1>1, <2>1, <2>3 DEF Delivery
  <2>. QED
    BY <1>0, <2>1, <2>2, <2>4 DEF Aged
<1>2. ASSUME NEW e \in flight'
      PROVE  \E d \in flight : e = [d EXCEPT !.left = @ - 1, !.bearer = Aged(@)]
  BY DEF ProviderTick
<1>3. bearer' \in [Platforms -> 0..Life]
  <2>1. ASSUME NEW p \in Platforms PROVE Aged(bearer[p]) \in 0..Life
    <3>1. bearer[p] \in 0..Life
      BY DEF ProviderTypeOK
    <3>. QED
      BY <1>0, <3>1 DEF Aged
  <2>. QED
    BY <2>1 DEF ProviderTick
<1>4. ASSUME NEW e \in flight'
      PROVE  /\ e \in Delivery /\ (e.stage # "start" => e.bearer > e.left)
             /\ \E d \in flight : e.handle = d.handle /\ e.token = d.token /\ e.gen = d.gen
  <2>1. PICK d \in flight : e = [d EXCEPT !.left = @ - 1, !.bearer = Aged(@)]
    BY <1>2
  <2>. QED
    BY <1>1, <2>1
<1>. QED
  BY <1>3, <1>4 DEF ProviderTypeOK, BearersLast

-----------------------------------------------------------------------------
(* The store's steps: types.                                                *)

\* Store::register gives a typed store.
LEMMA RegisterTyped ==
    ASSUME TypeOK, NEW h \in Handles, NEW token \in Tokens, Register(h, token)
    PROVE  TypeOK'
<1>0. Collapse \in Nat /\ MaxFrames \in Nat
  BY PushBounds, ProviderBounds
<1>1. generation + 1 \in 1..MaxFrames /\ generation' = generation + 1
  BY <1>0 DEF Register, TypeOK
<1>2. [token |-> token, gen |-> generation + 1, age |-> KeptAge(h)] \in Entry
  BY <1>1, EntryIs DEF Entry, KeptAge
<1>3. entries' \in [Handles -> Entry \cup {NoEntry}]
  BY <1>2 DEF Register, TypeOK
<1>4. quiet' \in [Handles -> 0..Collapse]
  BY <1>0 DEF Register, TypeOK, Forget
<1>5. generation' \in 0..MaxFrames /\ latest' \in [Handles -> 0..MaxFrames]
  BY <1>0, <1>1 DEF Register, TypeOK
<1>6. withdrawn' \subseteq Handles /\ UNCHANGED <<joined, checked, bearer, flight, pushes>>
  BY DEF Register, TypeOK, providerVars
<1>. QED
  BY <1>3, <1>4, <1>5, <1>6 DEF TypeOK, ProviderTypeOK

\* Store::take_wake and its delivery are typed.
LEMMA TakeWakeTyped ==
    ASSUME TypeOK, NEW h \in Handles, TakeWake(h)
    PROVE  TypeOK'
<1>0. Collapse \in Nat /\ MaxFrames \in Nat /\ MaxPushes \in Nat /\ Deadline \in Nat /\ Life \in Nat
  BY PushBounds, ProviderBounds
<1>1. CASE MayPush(h)
  <2>1. entries[h] \in Entry
    BY <1>1, EntryIs DEF MayPush
  <2>2. 0 \in 0..Collapse /\ 0 \in 0..Life /\ Deadline \in 0..Deadline
    BY <1>0
  <2>3. [entries[h] EXCEPT !.age = 0] \in Entry
    BY <2>1, <2>2 DEF Entry
  <2>4. entries' \in [Handles -> Entry \cup {NoEntry}]
    BY <1>1, <2>3 DEF TakeWake, TypeOK
  <2>5. entries[h].token \in Tokens /\ entries[h].gen \in 1..MaxFrames
    BY <2>1 DEF Entry
  <2>6. [handle |-> h, token |-> entries[h].token, gen |-> entries[h].gen, stage |-> "start",
         left |-> Deadline, bearer |-> 0] \in Delivery
    BY <2>2, <2>5 DEF Delivery
  <2>7. ProviderTypeOK'
    BY <1>1, <2>6 DEF TakeWake, TypeOK, ProviderTypeOK
  <2>8. quiet' \in [Handles -> 0..Collapse] /\ pushes' \in 0..MaxPushes
    BY <1>0, <1>1, <2>2 DEF TakeWake, TypeOK
  <2>. QED
    BY <2>4, <2>7, <2>8 DEF TakeWake, TypeOK
<1>2. CASE ~MayPush(h)
  BY <1>2 DEF TakeWake, TypeOK, ProviderTypeOK
<1>. QED
  BY <1>1, <1>2

\* The removal of a registration gives a typed store.
LEMMA RemovalTyped ==
    ASSUME TypeOK, NEW h \in Handles
    PROVE  /\ [entries EXCEPT ![h] = NoEntry] \in [Handles -> Entry \cup {NoEntry}]
           /\ Forget({h}) \in [Handles -> 0..Collapse]
BY PushBounds DEF TypeOK, Forget

\* A tick gives a typed store.
LEMMA TickTyped ==
    ASSUME TypeOK, BearersLast, Tick
    PROVE  TypeOK'
<1>1. entries' \in [Handles -> Entry \cup {NoEntry}]
  BY OlderEntry DEF Tick
<1>2. quiet' \in [Handles -> 0..Collapse]
  <2>1. ASSUME NEW h \in Handles PROVE Older(quiet[h]) \in 0..Collapse
    <3>1. quiet[h] \in 0..Collapse
      BY DEF TypeOK
    <3>. QED
      BY <3>1, PushBounds DEF Older
  <2>. QED
    BY <2>1 DEF Tick
<1>3. ProviderTypeOK'
  BY TickProvider DEF Tick, TypeOK
<1>. QED
  BY <1>1, <1>2, <1>3 DEF Tick, TypeOK

\* A delivery's handle is one of the handles.
LEMMA FlightTyped ==
    ASSUME TypeOK, NEW d \in flight
    PROVE  d.handle \in Handles /\ d.token \in Tokens /\ d.gen \in 1..MaxFrames
<1>1. d \in Delivery
  BY DEF TypeOK, ProviderTypeOK
<1>. QED
  BY <1>1 DEF Delivery

\* Every step keeps the types.
LEMMA TypeStep == TypeOK /\ BearersLast /\ [Next]_vars => TypeOK'
<1> SUFFICES ASSUME TypeOK, BearersLast, [Next]_vars PROVE TypeOK'
  OBVIOUS
<1>1. ASSUME NEW h \in Handles, NEW token \in Tokens, Register(h, token) PROVE TypeOK'
  BY <1>1, RegisterTyped
<1>2. ASSUME NEW h \in Handles, Unregister(h) PROVE TypeOK'
  BY <1>2, RemovalTyped DEF Unregister, TypeOK, ProviderTypeOK, providerVars
<1>3. ASSUME NEW h \in Handles, WakeCheck(h) PROVE TypeOK'
  BY <1>3 DEF WakeCheck, TypeOK, ProviderTypeOK, providerVars
<1>4. ASSUME NEW h \in Handles, TakeWake(h) PROVE TypeOK'
  BY <1>4, TakeWakeTyped
<1>5. ASSUME NEW h \in Handles, Join(h) PROVE TypeOK'
  BY <1>5 DEF Join, TypeOK, ProviderTypeOK, providerVars
<1>6. ASSUME NEW h \in Handles, Lose(h) PROVE TypeOK'
  BY <1>6 DEF Lose, TypeOK, ProviderTypeOK, providerVars
<1>7. ASSUME NEW d \in flight, Advance(d) PROVE TypeOK'
  <2>1. ProviderTypeOK'
    BY <1>7, AdvanceProvider DEF Advance, TypeOK
  <2>. QED
    BY <1>7, <2>1 DEF Advance, TypeOK
<1>8. ASSUME NEW d \in flight, Delivered(d) PROVE TypeOK'
  BY <1>8 DEF Delivered, TypeOK, ProviderTypeOK
<1>9. ASSUME NEW d \in flight, TokenRefused(d) PROVE TypeOK'
  <2>1. CASE IsCurrent(d)
    BY <1>9, <2>1, RemovalTyped, FlightTyped DEF TokenRefused, TypeOK, ProviderTypeOK
  <2>2. CASE ~IsCurrent(d)
    BY <1>9, <2>2 DEF TokenRefused, TypeOK, ProviderTypeOK
  <2>. QED
    BY <2>1, <2>2
<1>10. CASE Tick
  BY <1>10, TickTyped
<1>11. CASE UNCHANGED vars
  BY <1>11 DEF vars, providerVars, TypeOK, ProviderTypeOK
<1>. QED
  BY <1>1, <1>2, <1>3, <1>4, <1>5, <1>6, <1>7, <1>8, <1>9, <1>10, <1>11 DEF Next

-----------------------------------------------------------------------------
(* The bearers.                                                             *)

\* A bearer lasts through every step.
LEMMA BearersStep == TypeOK /\ BearersLast /\ [Next]_vars => BearersLast'
<1> SUFFICES ASSUME TypeOK, BearersLast, [Next]_vars PROVE BearersLast'
  OBVIOUS
<1>1. CASE UNCHANGED flight
  BY <1>1 DEF BearersLast
<1>2. ASSUME NEW h \in Handles, TakeWake(h) PROVE BearersLast'
  BY <1>2 DEF TakeWake, BearersLast
<1>3. ASSUME NEW d \in flight, Advance(d) PROVE BearersLast'
  BY <1>3, AdvanceProvider DEF Advance, TypeOK
<1>4. ASSUME NEW d \in flight, Delivered(d) \/ TokenRefused(d) PROVE BearersLast'
  BY <1>4 DEF Delivered, TokenRefused, BearersLast
<1>5. CASE Tick
  BY <1>5, TickProvider DEF Tick, TypeOK
<1>6. ASSUME NEW h \in Handles, \/ \E token \in Tokens : Register(h, token)
                                \/ Unregister(h) \/ WakeCheck(h) \/ Join(h) \/ Lose(h)
      PROVE  UNCHANGED flight
  BY <1>6 DEF Register, Unregister, WakeCheck, Join, Lose, providerVars
<1>7. UNCHANGED vars => UNCHANGED flight
  BY DEF vars, providerVars
<1>. QED
  BY <1>1, <1>2, <1>3, <1>4, <1>5, <1>6, <1>7 DEF Next

\* The empty store is typed and has no bearers.
LEMMA TypeInit == Init => TypeOK /\ BearersLast
<1> SUFFICES ASSUME Init PROVE TypeOK /\ BearersLast
  OBVIOUS
<1>1. Collapse \in 0..Collapse /\ 0 \in 0..Life /\ 0 \in 0..MaxFrames /\ 0 \in 0..MaxPushes
  BY PushBounds, ProviderBounds
<1>. QED
  BY <1>1 DEF Init, ProviderInit, TypeOK, ProviderTypeOK, BearersLast

\* Every variable of the store and the providers keeps its type: in
\* particular no delivery outlives its deadline and no bearer its life.
THEOREM TypeCorrect == Spec => []TypeOK
BY TypeInit, TypeStep, BearersStep, PTL DEF Spec

\* Providers::send, for any deadline no longer than the margin and any margin
\* shorter than a bearer's life: a bearer that goes out with a push is good
\* until the delivery is over.
THEOREM BearersOutlive == Spec => []BearerOutlivesItsPush
BY TypeInit, TypeStep, BearersStep, BearersSuffice, PTL DEF Spec

-----------------------------------------------------------------------------
(* Wakes collapse.                                                          *)

\* The age in the store is the time since the last push, through every step.
LEMMA QuietStep == TypeOK /\ QuietIsAge /\ [Next]_vars => QuietIsAge'
<1> SUFFICES ASSUME TypeOK, QuietIsAge, [Next]_vars PROVE QuietIsAge'
  OBVIOUS
<1>0. NoEntry.age = Collapse
  BY DEF NoEntry
<1>1. ASSUME NEW h \in Handles, NEW token \in Tokens, Register(h, token) PROVE QuietIsAge'
  <2>1. h \notin Evicted(h)
    BY DEF Evicted
  <2>2. ASSUME NEW g \in Handles PROVE quiet'[g] = entries'[g].age
    <3>1. CASE g = h
      BY <1>1, <2>1, <3>1 DEF Register, Forget, KeptAge, QuietIsAge
    <3>2. CASE g # h /\ g \in Evicted(h)
      BY <1>0, <1>1, <3>2 DEF Register, Forget
    <3>3. CASE g # h /\ g \notin Evicted(h)
      BY <1>1, <3>3 DEF Register, Forget, QuietIsAge
    <3>. QED
      BY <3>1, <3>2, <3>3
  <2>. QED
    BY <2>2 DEF QuietIsAge
<1>2. ASSUME NEW h \in Handles, Unregister(h) PROVE QuietIsAge'
  BY <1>0, <1>2 DEF Unregister, Forget, QuietIsAge, TypeOK
<1>3. ASSUME NEW h \in Handles, TakeWake(h) PROVE QuietIsAge'
  <2>1. CASE MayPush(h)
    <3>1. entries[h] \in Entry
      BY <2>1, EntryIs DEF MayPush
    <3>2. entries'[h].age = 0 /\ \A g \in Handles : g # h => entries'[g] = entries[g]
      BY <1>3, <2>1, <3>1 DEF TakeWake, TypeOK, Entry
    <3>3. quiet'[h] = 0 /\ \A g \in Handles : g # h => quiet'[g] = quiet[g]
      BY <1>3, <2>1 DEF TakeWake, TypeOK
    <3>. QED
      BY <3>2, <3>3 DEF QuietIsAge
  <2>2. CASE ~MayPush(h)
    BY <1>3, <2>2 DEF TakeWake, QuietIsAge
  <2>. QED
    BY <2>1, <2>2
<1>4. ASSUME NEW d \in flight, TokenRefused(d) PROVE QuietIsAge'
  <2>1. CASE IsCurrent(d)
    BY <1>0, <1>4, <2>1, FlightTyped DEF TokenRefused, Forget, QuietIsAge, TypeOK
  <2>2. CASE ~IsCurrent(d)
    BY <1>4, <2>2 DEF TokenRefused, QuietIsAge
  <2>. QED
    BY <2>1, <2>2
<1>5. CASE Tick
  <2>1. ASSUME NEW h \in Handles PROVE quiet'[h] = entries'[h].age
    <3>1. entries'[h].age = Older(entries[h].age)
      BY <1>5, OlderEntry DEF Tick
    <3>. QED
      BY <1>5, <3>1 DEF Tick, QuietIsAge
  <2>. QED
    BY <2>1 DEF QuietIsAge
<1>6. ASSUME NEW h \in Handles, WakeCheck(h) \/ Join(h) \/ Lose(h) PROVE QuietIsAge'
  BY <1>6 DEF WakeCheck, Join, Lose, QuietIsAge
<1>7. ASSUME NEW d \in flight, Advance(d) \/ Delivered(d) PROVE QuietIsAge'
  BY <1>7 DEF Advance, Delivered, QuietIsAge
<1>8. CASE UNCHANGED vars
  BY <1>8 DEF vars, QuietIsAge
<1>. QED
  BY <1>1, <1>2, <1>3, <1>4, <1>5, <1>6, <1>7, <1>8 DEF Next

\* A step that pushes finds the handle quiet for the whole window.
LEMMA WakeStepHolds == TypeOK /\ QuietIsAge /\ [Next]_vars => [WakeStep]_vars
<1> SUFFICES ASSUME TypeOK, QuietIsAge, Next, pushes' > pushes, NEW d \in flight' \ flight
             PROVE  quiet[d.handle] = Collapse
  BY DEF WakeStep
<1>1. pushes \in Nat
  BY ProviderBounds DEF TypeOK
<1>2. PICK h \in Handles : TakeWake(h) /\ MayPush(h)
  <2>1. pushes' # pushes
    BY <1>1
  <2>2. PICK h \in Handles : TakeWake(h)
    BY <2>1 DEF Next, Register, Unregister, WakeCheck, Join, Lose, Advance, Delivered, TokenRefused,
                Tick
  <2>. QED
    BY <2>1, <2>2 DEF TakeWake
<1>3. d.handle = h
  BY <1>2 DEF TakeWake
<1>. QED
  BY <1>2, <1>3 DEF MayPush, QuietIsAge

\* take_wake and register, for any window: within COLLAPSE of a push there is
\* no second one for the handle unless its registration was removed between.
THEOREM WakesDoCollapse == Spec => WakesCollapse
<1>1. Init => QuietIsAge
  BY DEF Init, QuietIsAge, NoEntry
<1>. QED
  BY <1>1, TypeInit, TypeStep, BearersStep, QuietStep, WakeStepHolds, PTL DEF Spec, WakesCollapse

-----------------------------------------------------------------------------
(* Stamps and eviction.                                                     *)

\* A step of the store that registers nobody: registrations keep their
\* generation or go.
Unstamped ==
    /\ UNCHANGED <<generation, latest>>
    /\ \A h \in Handles : \/ entries'[h] = NoEntry
                          \/ entries[h] # NoEntry /\ entries'[h].gen = entries[h].gen
                             /\ entries'[h].token = entries[h].token
    /\ withdrawn \subseteq withdrawn'
    /\ \A h \in Handles : entries[h] # NoEntry /\ entries'[h] = NoEntry => h \in withdrawn'

\* Every step but a registration is such a step.
LEMMA UnstampedSteps ==
    ASSUME TypeOK, [Next]_vars,
           ~ \E h \in Handles, token \in Tokens : Register(h, token)
    PROVE  Unstamped
<1>0. \A h \in Handles : \/ entries[h] = NoEntry
                         \/ entries[h] # NoEntry
  OBVIOUS
<1>1. ASSUME NEW h \in Handles, Unregister(h) PROVE Unstamped
  BY <1>1 DEF Unregister, Unstamped, TypeOK
<1>2. ASSUME NEW h \in Handles, TakeWake(h) PROVE Unstamped
  <2>1. CASE MayPush(h)
    <3>1. entries[h] \in Entry /\ entries[h] # NoEntry
      BY <2>1, EntryIs DEF MayPush, Present
    <3>2. /\ entries'[h].token = entries[h].token /\ entries'[h].gen = entries[h].gen
          /\ \A g \in Handles : g # h => entries'[g] = entries[g]
      BY <1>2, <2>1, <3>1 DEF TakeWake, TypeOK, Entry
    <3>3. entries'[h].token # None
      BY <3>1, <3>2, PushNone DEF Entry
    <3>4. entries'[h] # NoEntry
      BY <3>3 DEF NoEntry
    <3>. QED
      BY <1>2, <3>1, <3>2, <3>4 DEF TakeWake, Unstamped
  <2>2. CASE ~MayPush(h)
    BY <1>2, <2>2 DEF TakeWake, Unstamped
  <2>. QED
    BY <2>1, <2>2
<1>3. ASSUME NEW d \in flight, TokenRefused(d) PROVE Unstamped
  <2>1. CASE IsCurrent(d)
    BY <1>3, <2>1 DEF TokenRefused, Unstamped, TypeOK
  <2>2. CASE ~IsCurrent(d)
    BY <1>3, <2>2 DEF TokenRefused, Unstamped
  <2>. QED
    BY <2>1, <2>2
<1>4. CASE Tick
  <2>1. ASSUME NEW h \in Handles
        PROVE  /\ entries'[h].gen = entries[h].gen /\ entries'[h].token = entries[h].token
               /\ entries'[h] = NoEntry <=> entries[h] = NoEntry
    BY <1>4, OlderEntry DEF Tick
  <2>. QED
    BY <1>4, <2>1 DEF Tick, Unstamped
<1>5. ASSUME NEW h \in Handles, WakeCheck(h) \/ Join(h) \/ Lose(h) PROVE Unstamped
  BY <1>5 DEF WakeCheck, Join, Lose, Unstamped
<1>6. ASSUME NEW d \in flight, Advance(d) \/ Delivered(d) PROVE Unstamped
  BY <1>6 DEF Advance, Delivered, Unstamped
<1>7. CASE UNCHANGED vars
  BY <1>7 DEF vars, Unstamped
<1>. QED
  BY <1>1, <1>2, <1>3, <1>4, <1>5, <1>6, <1>7 DEF Next

\* What a registration does to the stamps.
LEMMA RegisterIs ==
    ASSUME TypeOK, Stamped, NEW h \in Handles, NEW token \in Tokens, Register(h, token)
    PROVE  /\ generation \in Nat /\ \A g \in Handles : latest[g] \in Nat /\ latest[g] <= generation
           /\ generation' = generation + 1 /\ latest'[h] = generation + 1
           /\ \A g \in Handles : g # h => latest'[g] = latest[g]
           /\ entries'[h].gen = generation + 1 /\ entries'[h] # NoEntry
           /\ \A g \in Handles : g # h => entries'[g] = IF g \in Evicted(h) THEN NoEntry ELSE entries[g]
           /\ withdrawn' = withdrawn \ {h}
<1>1. entries'[h] = [token |-> token, gen |-> generation + 1, age |-> KeptAge(h)]
  BY DEF Register
<1>2. entries'[h].token = token /\ token # None /\ entries'[h].gen = generation + 1
  BY <1>1, PushNone
<1>3. entries'[h] # NoEntry
  BY <1>2 DEF NoEntry
<1>4. generation \in Nat /\ \A g \in Handles : latest[g] \in Nat /\ latest[g] <= generation
  BY ProviderBounds DEF TypeOK, Stamped
<1>. QED
  BY <1>2, <1>3, <1>4 DEF Register, TypeOK

\* The stamps stay the generations the store gave out, through every step.
LEMMA StampedStep == TypeOK /\ Stamped /\ [Next]_vars => Stamped'
<1> SUFFICES ASSUME TypeOK, Stamped, [Next]_vars PROVE Stamped'
  OBVIOUS
<1>1. ASSUME NEW h \in Handles, NEW token \in Tokens, Register(h, token) PROVE Stamped'
  <2>1. \A g \in Handles : latest'[g] <= generation'
    BY <1>1, RegisterIs
  <2>2. ASSUME NEW g \in Present' PROVE entries'[g].gen = latest'[g]
    <3>1. CASE g = h
      BY <1>1, <3>1, RegisterIs
    <3>2. CASE g # h
      <4>1. g \in Present /\ entries'[g] = entries[g] /\ latest'[g] = latest[g]
        BY <1>1, <3>2, RegisterIs DEF Present
      <4>. QED
        BY <4>1 DEF Stamped
    <3>. QED
      BY <3>1, <3>2
  <2>3. ASSUME NEW f \in Handles, NEW g \in Handles, latest'[f] = latest'[g], latest'[g] # 0
        PROVE  f = g
    <3>1. \A k \in Handles : k # h => latest'[k] # generation + 1
      BY <1>1, RegisterIs
    <3>. QED
      BY <1>1, <2>3, <3>1, RegisterIs DEF Stamped
  <2>. QED
    BY <2>1, <2>2, <2>3 DEF Stamped
<1>2. CASE ~ \E h \in Handles, token \in Tokens : Register(h, token)
  <2>1. Unstamped
    BY <1>2, UnstampedSteps
  <2>. QED
    BY <2>1 DEF Unstamped, Stamped, Present
<1>. QED
  BY <1>1, <1>2

\* The handles that ever registered stay finitely many.
LEMMA KnownStep == TypeOK /\ Stamped /\ IsFiniteSet(Known) /\ [Next]_vars => IsFiniteSet(Known')
<1> SUFFICES ASSUME TypeOK, Stamped, IsFiniteSet(Known), [Next]_vars PROVE IsFiniteSet(Known')
  OBVIOUS
<1>1. ASSUME NEW h \in Handles, NEW token \in Tokens, Register(h, token) PROVE IsFiniteSet(Known')
  <2>1. Known' \subseteq Known \cup {h}
    BY <1>1, RegisterIs DEF Known
  <2>2. IsFiniteSet(Known \cup {h})
    BY FS_AddElement
  <2>. QED
    BY <2>1, <2>2, FS_Subset
<1>2. CASE ~ \E h \in Handles, token \in Tokens : Register(h, token)
  <2>1. Known' = Known
    BY <1>2, UnstampedSteps DEF Unstamped, Known
  <2>. QED
    BY <2>1
<1>. QED
  BY <1>1, <1>2

Newer(h) == {g \in Handles : latest[g] > latest[h]}

\* The handles that registered after one are finitely many, so that they can be
\* counted, and those among them that stay are no fewer later.
LEMMA NewerIsFinite ==
    ASSUME TypeOK, IsFiniteSet(Known), NEW h \in Handles
    PROVE  IsFiniteSet(Newer(h))
<1>1. Newer(h) \subseteq Known
  BY ProviderBounds DEF TypeOK, Newer, Known
<1>. QED
  BY <1>1, FS_Subset

\* Whom a full store gives up was the oldest: CAPACITY others are newer.
LEMMA EvictedIsOldest ==
    ASSUME TypeOK, Stamped, IsFiniteSet(Known), NEW h \in Handles, NEW token \in Tokens,
           Register(h, token), NEW x \in Evicted(h), TypeOK', IsFiniteSet(Known')
    PROVE  Cardinality(Newer(x)') >= Capacity
<1>1. x \in Present /\ h \notin Present /\ Cardinality(Present) = Capacity /\ x # h
      /\ x \in Handles /\ \A k \in Present : entries[x].gen <= entries[k].gen
  BY DEF Evicted, Present
<1>2. \A k \in Present : k \in Handles /\ latest[k] = entries[k].gen /\ latest[k] # 0 /\ k # h
  BY <1>1, EntryIs DEF Stamped, Present
<1>3. \A k \in Present \ {x} : latest[k] > latest[x]
  <2> SUFFICES ASSUME NEW k \in Present \ {x} PROVE latest[k] > latest[x]
    OBVIOUS
  <2>1. latest[x] <= latest[k] /\ latest[x] \in Nat /\ latest[k] \in Nat
    BY <1>1, <1>2, RegisterIs
  <2>2. latest[x] # latest[k]
    BY <1>1, <1>2 DEF Stamped
  <2>. QED
    BY <2>1, <2>2
<1>4. (Present \ {x}) \cup {h} \subseteq Newer(x)'
  <2>1. latest'[x] = latest[x] /\ latest'[h] = generation + 1 /\ latest[x] <= generation
        /\ latest[x] \in Nat /\ generation \in Nat
    BY <1>1, RegisterIs
  <2>2. \A k \in Present \ {x} : latest'[k] = latest[k]
    BY <1>2, RegisterIs
  <2>. QED
    BY <1>2, <1>3, <2>1, <2>2 DEF Newer
<1>5. IsFiniteSet(Present)
  <2>1. Present \subseteq Known
    BY <1>2 DEF Known
  <2>. QED
    BY <2>1, FS_Subset
<1>6. IsFiniteSet(Present \ {x}) /\ Cardinality(Present \ {x}) = Capacity - 1
  BY <1>1, <1>5, FS_RemoveElement
<1>7. Cardinality((Present \ {x}) \cup {h}) = Capacity
  <2>1. Cardinality((Present \ {x}) \cup {h}) = Cardinality(Present \ {x}) + 1
    BY <1>1, <1>6, FS_AddElement
  <2>. QED
    BY <1>6, <2>1, PushBounds
<1>8. IsFiniteSet(Newer(x)')
  <2>1. Newer(x)' \subseteq Known'
    BY <1>1, ProviderBounds DEF TypeOK, Newer, Known
  <2>. QED
    BY <2>1, FS_Subset
<1>9. Cardinality((Present \ {x}) \cup {h}) <= Cardinality(Newer(x)')
  BY <1>4, <1>8, FS_Subset
<1>. QED
  BY <1>7, <1>8, <1>9, FS_CardinalityType, PushBounds

\* Every step keeps the evictions fair.
LEMMA EvictionStep ==
    ASSUME TypeOK, Stamped, IsFiniteSet(Known), EvictionIsFair, [Next]_vars, TypeOK',
           IsFiniteSet(Known')
    PROVE  EvictionIsFair'
<1> SUFFICES ASSUME NEW x \in Handles, latest'[x] # 0, x \notin withdrawn', x \notin Present'
             PROVE  Cardinality(Newer(x)') >= Capacity
  BY DEF EvictionIsFair, Newer
<1>0. Newer(x) = {g \in Handles : latest[g] > latest[x]}
  BY DEF Newer
<1>1. ASSUME NEW h \in Handles, NEW token \in Tokens, Register(h, token)
      PROVE  Cardinality(Newer(x)') >= Capacity
  <2>1. x # h /\ latest'[x] = latest[x] /\ x \notin withdrawn /\ latest[x] # 0
    BY <1>1, RegisterIs DEF Present
  <2>2. CASE x \in Evicted(h)
    BY <1>1, <2>2, EvictedIsOldest
  <2>3. CASE x \notin Evicted(h)
    <3>1. x \notin Present
      BY <1>1, <2>1, <2>3, RegisterIs DEF Present
    <3>2. Cardinality(Newer(x)) >= Capacity
      BY <1>0, <2>1, <3>1 DEF EvictionIsFair
    <3>3. Newer(x) \subseteq Newer(x)'
      <4> SUFFICES ASSUME NEW g \in Handles, latest[g] > latest[x] PROVE latest'[g] > latest'[x]
        BY DEF Newer
      <4>1. CASE g = h
        BY <1>1, <2>1, <4>1, RegisterIs
      <4>2. CASE g # h
        BY <1>1, <2>1, <4>2, RegisterIs
      <4>. QED
        BY <4>1, <4>2
    <3>4. IsFiniteSet(Newer(x)')
      <4>1. Newer(x)' \subseteq Known'
        BY ProviderBounds DEF TypeOK, Newer, Known
      <4>. QED
        BY <4>1, FS_Subset
    <3>5. Cardinality(Newer(x)) <= Cardinality(Newer(x)') /\ Cardinality(Newer(x)) \in Nat
          /\ Cardinality(Newer(x)') \in Nat
      BY <3>3, <3>4, FS_Subset, FS_CardinalityType, NewerIsFinite
    <3>. QED
      BY <3>2, <3>5, PushBounds
  <2>. QED
    BY <2>2, <2>3
<1>2. CASE ~ \E h \in Handles, token \in Tokens : Register(h, token)
  <2>1. Unstamped
    BY <1>2, UnstampedSteps
  <2>2. latest' = latest /\ x \notin withdrawn /\ x \notin Present /\ latest[x] # 0
    BY <2>1 DEF Unstamped, Present
  <2>3. Newer(x)' = Newer(x)
    BY <2>2 DEF Newer
  <2>. QED
    BY <1>0, <2>2, <2>3 DEF EvictionIsFair
<1>. QED
  BY <1>1, <1>2

\* The empty store has no stamps.
LEMMA StampedInit == Init => Stamped /\ IsFiniteSet(Known) /\ EvictionIsFair
<1> SUFFICES ASSUME Init PROVE Stamped /\ IsFiniteSet(Known) /\ EvictionIsFair
  OBVIOUS
<1>1. Known = {} /\ Present = {}
  BY DEF Init, Known, Present
<1>. QED
  BY <1>1, FS_EmptySet DEF Init, Stamped, EvictionIsFair

StoreInv == TypeOK /\ BearersLast /\ Stamped /\ IsFiniteSet(Known) /\ EvictionIsFair

\* Every step keeps the store's invariant.
LEMMA StoreStep == StoreInv /\ [Next]_vars => StoreInv'
BY TypeStep, BearersStep, StampedStep, KnownStep, EvictionStep DEF StoreInv

\* Store::register, for any capacity and however many handles: a registration
\* that neither its Device withdrew nor the provider refused is only missing
\* once CAPACITY other handles have registered after it.
THEOREM EvictionsAreFair == Spec => []EvictionIsFair
<1>1. Init => StoreInv
  BY TypeInit, StampedInit DEF StoreInv
<1>2. StoreInv => EvictionIsFair
  BY DEF StoreInv
<1>. QED
  BY <1>1, <1>2, StoreStep, PTL DEF Spec

-----------------------------------------------------------------------------
(* Refusals.                                                                *)

\* What is known of a delivery survives a step that keeps, removes or renews
\* registrations.
LEMMA FlightKept ==
    ASSUME TypeOK, FlightsKnown, Stamped, [Next]_vars, NEW d \in flight
    PROVE  /\ d.gen <= generation'
           /\ IsCurrent(d)' => IsCurrent(d) /\ entries'[d.handle].token = d.token
<1>0. d.handle \in Handles /\ d.gen \in Nat /\ d.gen <= generation /\ generation \in Nat
  BY FlightTyped, ProviderBounds DEF FlightsKnown, TypeOK
<1>1. ASSUME NEW h \in Handles, NEW token \in Tokens, Register(h, token)
      PROVE  /\ d.gen <= generation'
             /\ IsCurrent(d)' => IsCurrent(d) /\ entries'[d.handle].token = d.token
  <2>1. d.gen <= generation' /\ d.gen # generation + 1
    BY <1>0, <1>1, RegisterIs
  <2>2. ASSUME IsCurrent(d)' PROVE IsCurrent(d) /\ entries'[d.handle] = entries[d.handle]
    <3>1. d.handle # h
      BY <1>1, <2>1, <2>2, RegisterIs DEF IsCurrent
    <3>. QED
      BY <1>0, <1>1, <2>2, <3>1, RegisterIs DEF IsCurrent, Present
  <2>. QED
    BY <2>1, <2>2 DEF FlightsKnown
<1>2. CASE ~ \E h \in Handles, token \in Tokens : Register(h, token)
  <2>1. Unstamped
    BY <1>2, UnstampedSteps
  <2>. QED
    BY <1>0, <2>1 DEF Unstamped, FlightsKnown, IsCurrent, Present
<1>. QED
  BY <1>1, <1>2

\* Where the deliveries come from: one that was there, or the registration a
\* wake found.
LEMMA FlightsFrom ==
    ASSUME TypeOK, BearersLast, [Next]_vars, NEW e \in flight'
    PROVE  \/ \E d \in flight : e.handle = d.handle /\ e.token = d.token /\ e.gen = d.gen
           \/ /\ e.handle \in Present /\ Unstamped
              /\ e.token = entries[e.handle].token /\ e.gen = entries[e.handle].gen
<1>1. CASE flight' \subseteq flight
  BY <1>1
<1>2. ASSUME NEW h \in Handles, TakeWake(h)
      PROVE  \/ e \in flight
             \/ /\ e.handle \in Present /\ Unstamped
                /\ e.token = entries[e.handle].token /\ e.gen = entries[e.handle].gen
  <2>1. CASE MayPush(h)
    <3>1. e \in flight \/ (e.handle = h /\ e.token = entries[h].token /\ e.gen = entries[h].gen)
      BY <1>2, <2>1 DEF TakeWake
    <3>2. generation' = generation /\ generation \in Nat
      BY <1>2, ProviderBounds DEF TakeWake, TypeOK
    <3>3. ~ \E g \in Handles, token \in Tokens : Register(g, token)
      BY <3>2 DEF Register
    <3>. QED
      BY <2>1, <3>1, <3>3, UnstampedSteps DEF MayPush
  <2>2. CASE ~MayPush(h)
    BY <1>2, <2>2 DEF TakeWake
  <2>. QED
    BY <2>1, <2>2
<1>3. ASSUME NEW d \in flight, Advance(d)
      PROVE  \E f \in flight : e.handle = f.handle /\ e.token = f.token /\ e.gen = f.gen
  <2>1. PICK f \in Delivery : /\ flight' = (flight \ {d}) \cup {f}
                              /\ f.handle = d.handle /\ f.token = d.token /\ f.gen = d.gen
    BY <1>3, AdvanceProvider DEF Advance, TypeOK
  <2>. QED
    BY <2>1
<1>4. ASSUME NEW d \in flight, Delivered(d) \/ TokenRefused(d) PROVE flight' \subseteq flight
  BY <1>4 DEF Delivered, TokenRefused
<1>5. CASE Tick
  BY <1>5, TickProvider DEF Tick, TypeOK
<1>6. ASSUME NEW h \in Handles, \/ \E token \in Tokens : Register(h, token)
                                \/ Unregister(h) \/ WakeCheck(h) \/ Join(h) \/ Lose(h)
      PROVE  flight' \subseteq flight
  BY <1>6 DEF Register, Unregister, WakeCheck, Join, Lose, providerVars
<1>7. UNCHANGED vars => flight' \subseteq flight
  BY DEF vars, providerVars
<1>. QED
  BY <1>1, <1>2, <1>3, <1>4, <1>5, <1>6, <1>7 DEF Next

\* Every step keeps what is known of the deliveries.
LEMMA FlightsStep == TypeOK /\ BearersLast /\ Stamped /\ FlightsKnown /\ [Next]_vars => FlightsKnown'
<1> SUFFICES ASSUME TypeOK, BearersLast, Stamped, FlightsKnown, [Next]_vars, NEW e \in flight'
             PROVE  /\ e.gen <= generation'
                    /\ IsCurrent(e)' => entries'[e.handle].token = e.token
  BY DEF FlightsKnown
<1>1. CASE \E d \in flight : e.handle = d.handle /\ e.token = d.token /\ e.gen = d.gen
  <2>1. PICK d \in flight : e.handle = d.handle /\ e.token = d.token /\ e.gen = d.gen
    BY <1>1
  <2>2. /\ d.gen <= generation'
        /\ IsCurrent(d)' => entries'[d.handle].token = d.token
    BY FlightKept
  <2>. QED
    BY <2>1, <2>2 DEF IsCurrent
<1>2. CASE /\ e.handle \in Present /\ Unstamped
           /\ e.token = entries[e.handle].token /\ e.gen = entries[e.handle].gen
  <2>1. e.handle \in Handles /\ e.gen = latest[e.handle]
    BY <1>2 DEF Present, Stamped
  <2>. QED
    BY <1>2, <2>1 DEF Unstamped, Stamped, IsCurrent, Present
<1>. QED
  BY <1>1, <1>2, FlightsFrom

\* A step that ends a delivery removes no registration but the one it was for.
LEMMA RefusalStepHolds == TypeOK /\ FlightsKnown /\ [Next]_vars => [RefusalStep]_vars
<1> SUFFICES ASSUME TypeOK, FlightsKnown, Next, NEW d \in flight \ flight', NEW h \in Present,
                    entries'[h] = NoEntry
             PROVE  h = d.handle /\ entries[h].token = d.token
  BY DEF RefusalStep
<1>0. h \in Handles /\ entries[h] # NoEntry
  BY DEF Present
<1>1. ASSUME NEW g \in Handles, \/ \E token \in Tokens : Register(g, token)
                                \/ Unregister(g) \/ WakeCheck(g) \/ TakeWake(g) \/ Join(g) \/ Lose(g)
      PROVE  FALSE
  BY <1>1 DEF Register, Unregister, WakeCheck, TakeWake, Join, Lose, providerVars
<1>2. ASSUME NEW e \in flight, Advance(e) \/ Delivered(e) PROVE FALSE
  BY <1>0, <1>2 DEF Advance, Delivered
<1>3. ASSUME NEW e \in flight, TokenRefused(e) PROVE h = d.handle /\ entries[h].token = d.token
  <2>1. d = e
    BY <1>3 DEF TokenRefused
  <2>2. IsCurrent(e) /\ h = e.handle
    BY <1>0, <1>3 DEF TokenRefused, TypeOK
  <2>. QED
    BY <2>1, <2>2 DEF FlightsKnown
<1>4. CASE Tick
  BY <1>0, <1>4, OlderEntry DEF Tick
<1>. QED
  BY <1>1, <1>2, <1>3, <1>4 DEF Next

\* remove_generation: however late the provider's verdict comes, and whatever
\* was registered meanwhile, it removes the registration it was about or none.
THEOREM RefusalsHitTheirToken == Spec => RefusalHitsItsToken
<1>1. Init => StoreInv /\ FlightsKnown
  BY TypeInit, StampedInit DEF StoreInv, Init, ProviderInit, FlightsKnown
<1>2. StoreInv /\ FlightsKnown /\ [Next]_vars => FlightsKnown'
  BY FlightsStep DEF StoreInv
<1>3. StoreInv /\ FlightsKnown /\ [Next]_vars => [RefusalStep]_vars
  BY RefusalStepHolds DEF StoreInv
<1>. QED
  BY <1>1, <1>2, <1>3, StoreStep, PTL DEF Spec, RefusalHitsItsToken
=============================================================================
