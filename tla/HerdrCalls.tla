----------------------------- MODULE HerdrCalls -----------------------------
(***************************************************************************)
(* What one call of HerdrClient can have done by the time it returns         *)
(* (ipc/client.rs, ipc/transport.rs, watch/herdr_calls.rs), and which keys   *)
(* send_input lets through to it (watch/key_map.rs).                         *)
(*                                                                         *)
(* Every call opens a fresh connection, writes one request and reads one     *)
(* line.  A transport failure is retried once, whatever the method.  Herdr   *)
(* may have carried out a request whose answer never came.                   *)
(***************************************************************************)
EXTENDS Naturals, Sequences

(***************************************************************************)
(* exchange: the request is written and one line is read, each or neither.   *)
(* sent: how often Herdr has read the whole request.                         *)
(***************************************************************************)
Exchange ==
    {[read |-> "failed", sent |-> 0],      \* the write failed or timed out
     [read |-> "failed", sent |-> 1],      \* the answer did not come in time
     [read |-> "cut",    sent |-> 1],      \* the line ends at max_bytes or too early
     [read |-> "line",   sent |-> 1]}

(***************************************************************************)
(* One attempt: how call_once returns, and how often Herdr carried it out.   *)
(* Herdr rejects what it cannot do (there: is the pane still there), and     *)
(* its answer then says so.                                                  *)
(***************************************************************************)
Attempts(there) ==
    {[res |-> "connect", done |-> 0]} \cup
    {[res  |-> IF x.read = "failed" THEN "io"
               ELSE IF x.read = "cut" THEN "malformed"
               ELSE IF there THEN "ok" ELSE "rejected",
      done |-> IF there THEN x.sent ELSE 0] : x \in Exchange}

IsRetryable(res) == res \in {"connect", "io"}

(***************************************************************************)
(* HerdrClient::call: whether the caller sees success, and how often Herdr   *)
(* did what was asked.  again: Herdr can do it a second time (a pane that is *)
(* closed is gone).                                                          *)
(***************************************************************************)
Call(there, again) ==
    {[ok |-> a.res = "ok", times |-> a.done] :
        a \in {b \in Attempts(there) : ~IsRetryable(b.res)}}
    \cup UNION {{[ok |-> b.res = "ok", times |-> a.done + b.done] :
                    b \in Attempts(there /\ (again \/ a.done = 0))} :
                a \in {c \in Attempts(there) : IsRetryable(c.res)}}

\* The caller's answer tells exactly what Herdr did.
Clean(out) == out.times = (IF out.ok THEN 1 ELSE 0)

-----------------------------------------------------------------------------
(***************************************************************************)
(* Keys: a named or function key, or a chord of modifiers and a base.  Only  *)
(* what a rule looks at is kept of a name.                                   *)
(***************************************************************************)
PermittedModifiers == <<"ctrl", "alt", "shift">>

Key(mods, base) == [mods |-> mods, base |-> base]
Named   == {"enter", "return", "backspace", "named"}    \* NAMED_KEYS
Chars   == {"c", "char"}                                \* any one character
Bases   == Named \cup Chars \cup {"function", "unknown"}
KeyNames == [mods : Seq(STRING), base : Bases]

IsPermitted(m) == \E i \in 1..3 : PermittedModifiers[i] = m

\* A bug: the modifiers are checked one by one, and not their order.
ValidateAnyOrder(k) ==
    IF k.mods = <<>> THEN k.base \in Named \cup {"function"}
    ELSE /\ \A i \in 1..Len(k.mods) : IsPermitted(k.mods[i])
         /\ k.base \in Named \cup Chars

\* The permitted modifiers that occur in mods, each once and in their order.
Filtered(mods) ==
    LET Kept(m) == IF \E i \in 1..Len(mods) : mods[i] = m THEN <<m>> ELSE <<>>
    IN  Kept("ctrl") \o Kept("alt") \o Kept("shift")

\* validate_key, split_chord and validate_chord
ValidateKey(k) ==
    IF k.mods = <<>> THEN k.base \in Named \cup {"function"}
    ELSE /\ \A i \in 1..Len(k.mods) : IsPermitted(k.mods[i])
         /\ k.mods = Filtered(k.mods)
         /\ k.base \in Named \cup Chars

\* The key clears the line it is typed into, as forward_input reads it.
ClearsLine(k) == k \in {Key(<<>>, "enter"), Key(<<>>, "return"), Key(<<"ctrl">>, "c")}
=============================================================================
