------------------------------ MODULE PaneInput ------------------------------
(***************************************************************************)
(* What a Device types, on its way into a Herdr pane (watch/input.rs, the    *)
(* send_input arm of bridge_thread in bridge.rs).                            *)
(*                                                                         *)
(* A Device sends its whole composer line, or text and keys of its own.  The *)
(* Host turns a line into Backspaces and a tail against its shadow of what   *)
(* the pane's line holds.  The shadows are one map under one lock, shared by *)
(* every session's thread; a call that failed leaves the shadow at the last  *)
(* step that Herdr confirmed, so that the next line can finish the work.     *)
(*                                                                         *)
(* The pane is modelled as what R-10-075 takes it for: a line that text is   *)
(* appended to and Backspace shortens (external).  Keys that edit elsewhere  *)
(* in the line, and a person at the desktop, are outside it.  The held       *)
(* submits that a plain Enter cancels are WatchSession's.                    *)
(***************************************************************************)
EXTENDS HerdrCalls, FiniteSets

CONSTANTS Sessions,   \* Device sessions, one bridge_thread each
          Panes,      \* panes that Herdr may have
          Asks,       \* the requests a Device may make
          Graphemes,  \* what a line is made of
          StartPanes, \* the panes at the start
          StartLines, \* lines a pane may hold, and its shadow with it, at the start
          KeyLimit,   \* Backspaces sent in one call; 64 in reconcile_line
          MaxAsks,    \* bound: requests, all sessions together
          MaxFaults,  \* bound: calls that do not go as they should
          None

ASSUME InputAssumption ==
    /\ KeyLimit \in Nat \ {0} /\ MaxAsks \in Nat /\ MaxFaults \in Nat
    /\ StartPanes \subseteq Panes /\ StartPanes # {}
    /\ IsFiniteSet(Sessions) /\ IsFiniteSet(Panes)
    /\ StartLines \subseteq Seq(Graphemes) /\ "raw" \notin Graphemes

VARIABLES
    open,     \* external: the panes Herdr has
    known,    \* external: the panes Herdr ever had; ids are not used again
    line,     \* external: the line each pane holds
    shadow,   \* HostState.input_lines; an absent entry is the empty line
    watched,  \* Bridge.watched of each session
    asked,    \* what each Device has asked for; its number is its correlation id
    taken,    \* how many of them its thread has received from req_rx
    job,      \* what its thread is doing, or None
    answers,  \* what was sent to out_tx, one entry for each correlation id
    unsure,   \* history: panes of which a call said less than Herdr did
    faults    \* history: calls that went wrong

herdrVars == <<open, known, line>>
inputVars == <<shadow, watched, asked, taken, job, answers, unsure, faults>>
vars      == <<herdrVars, inputVars>>

\* One answer: accepted, the pane it names, and for the record whether the
\* reads were restarted, how many calls Herdr confirmed, and how often it
\* carried out the one it did most often.
Answer(ok, read, wrote, most, pane) ==
    [ok |-> ok, pane |-> pane, read |-> read, wrote |-> wrote, most |-> most]

\* accepted: false, or an error frame; neither ends the session
Refusal == Answer(FALSE, FALSE, 0, 0, None)

-----------------------------------------------------------------------------
(***************************************************************************)
(* Requests.  A SendInput has every field, None where the frame left it out. *)
(***************************************************************************)
SendInput(p, l, text, keys, bypass) ==
    [do |-> "input", pane |-> p, line |-> l, text |-> text, keys |-> keys,
     bypass |-> bypass]

\* Lines are sequences of graphemes; Raw is one of the six sequences of
\* R-10-036 that stand for a key (Home, End, PageUp...).
Lines == Seq(Graphemes)
Raw   == <<"raw">>

InputRequests ==
    [do : {"input"}, pane : Panes, line : Lines \cup {None}, text : Lines \cup {Raw, None},
     keys : Seq(KeyNames) \cup {None}, bypass : BOOLEAN]

IsLine(r) == r.do = "input" /\ r.line # None /\ r.text = None /\ r.keys = None

RequireWatched(s, r) == watched[s] = r.pane

ValidateSendInput(r) ==
    IF r.line # None THEN ~r.bypass /\ r.text = None /\ r.keys = None
    ELSE /\ r.text # None \/ (r.keys # None /\ r.keys # <<>>)
         /\ r.keys # None => \A i \in 1..Len(r.keys) : ValidateKey(r.keys[i])

-----------------------------------------------------------------------------
Truncate(l, n) == SubSeq(l, 1, Len(l) - n)

CommonPrefix(a, b) ==
    LET Agree(n) == n <= Len(a) /\ n <= Len(b) /\ SubSeq(a, 1, n) = SubSeq(b, 1, n)
    IN  CHOOSE n \in 0..Len(a) : Agree(n) /\ ~Agree(n + 1)

Least(a, b) == IF a < b THEN a ELSE b

\* forward_input's reading of the keys it has sent
ShadowAfterKeys(l, keys) ==
    IF \E i \in 1..Len(keys) : ClearsLine(keys[i]) THEN <<>>
    ELSE Truncate(l, Least(Len(l), Cardinality(
             {i \in 1..Len(keys) : keys[i] = Key(<<>>, "backspace")})))

\* What the pane makes of its keys, one after the other (external).
\* Keys that put a character in the line (Space, shift with a letter), which the
\* shadow does not follow, and keys that move inside it count as no change of it.
TypeKeys(l, keys) ==
    LET typed[i \in 0..Len(keys)] ==
            IF i = 0 THEN l
            ELSE IF ClearsLine(keys[i]) THEN <<>>
            ELSE IF keys[i] = Key(<<>>, "backspace")
                 THEN Truncate(typed[i - 1], Least(1, Len(typed[i - 1])))
            ELSE typed[i - 1]
    IN  typed[Len(keys)]

AfterText(l, text) == IF text = Raw THEN l ELSE l \o text

Text(t) == [op |-> "text", text |-> t]
Keys(k) == [op |-> "keys", keys |-> k]

Backspaces(n) == Keys([i \in 1..n |-> Key(<<>>, "backspace")])

\* The chunks that remove n graphemes.
Chunks(n) == LET full == n \div KeyLimit
             IN  [i \in 1..full |-> Backspaces(KeyLimit)]
                 \o (IF n % KeyLimit = 0 THEN <<>> ELSE <<Backspaces(n % KeyLimit)>>)

\* reconcile_line: the calls that turn the old line into the new one
ReconcileLine(old, new) ==
    LET n == CommonPrefix(old, new)
    IN  Chunks(Len(old) - n)
        \o (IF n = Len(new) THEN <<>> ELSE <<Text(SubSeq(new, n + 1, Len(new)))>>)

\* Typing a call's text or keys into a pane's line (external).
TypeCall(l, c) == IF c.op = "text" THEN AfterText(l, c.text) ELSE TypeKeys(l, c.keys)

\* forward_input: the text, then the keys
ForwardInput(r) == (IF r.text = None THEN <<>> ELSE <<Text(r.text)>>)
                   \o (IF r.keys = None THEN <<>> ELSE <<Keys(r.keys)>>)

-----------------------------------------------------------------------------
At(s) == IF job[s] = None THEN "idle" ELSE job[s].at

\* A bug: only the newest of the requests that were merged is answered.
AnswerNewest(s, n, a) == [answers EXCEPT ![s] = @ \o <<a>>]

\* reply_to_inputs: every merged request gets the answer, in their order
ReplyToInputs(s, n, a) == [answers EXCEPT ![s] = @ \o [i \in 1..n |-> a]]

(***************************************************************************)
(* coalesce_input: lines for one pane that wait one after the other are      *)
(* taken together.  This is the last of those that start at i.               *)
(***************************************************************************)
CoalesceInput(s, i) ==
    LET Merges(k) == /\ k <= Len(asked[s])
                     /\ IsLine(asked[s][k]) /\ asked[s][k].pane = asked[s][i].pane
    IN  IF IsLine(asked[s][i])
        THEN CHOOSE j \in i..Len(asked[s]) :
                 /\ \A k \in i..j : Merges(k)
                 /\ ~Merges(j + 1)
        ELSE i

\* A bug: lines that wait are answered together, but the oldest is applied.
AppliedOldest(s, i) == asked[s][i]

\* The request that is carried out for those taken from i on.
Applied(s, i) == asked[s][CoalesceInput(s, i)]

\* The Device sends a request; dispatch_incoming puts it on req_tx.
Ask(s) ==
    /\ Len(asked[s]) + Cardinality({a \in (Sessions \ {s}) \X (1..MaxAsks) :
                                       a[2] <= Len(asked[a[1]])}) < MaxAsks
    /\ \E r \in Asks : asked' = [asked EXCEPT ![s] = Append(@, r)]
    /\ UNCHANGED <<herdrVars, shadow, watched, taken, job, answers, unsure, faults>>

(***************************************************************************)
(* send_input up to its lock: the request is taken, merged and checked.      *)
(***************************************************************************)
TakeInput(s) ==
    LET i == taken[s] + 1
        j == CoalesceInput(s, i)
        r == Applied(s, i)
    IN  /\ At(s) = "idle" /\ i <= Len(asked[s])
        /\ asked[s][i].do = "input"
        /\ taken' = [taken EXCEPT ![s] = j]
        /\ IF RequireWatched(s, r) /\ ValidateSendInput(r)
           THEN /\ job' = [job EXCEPT ![s] = [at |-> "lock", req |-> r, n |-> j - taken[s],
                                             todo |-> <<>>, wrote |-> 0, most |-> 0,
                                             old |-> 0]]
                /\ answers' = answers
           ELSE /\ answers' = ReplyToInputs(s, j - taken[s], Refusal)
                /\ job' = job
        /\ UNCHANGED <<herdrVars, shadow, watched, asked, unsure, faults>>

\* A bug: each session locks only its own work.
InputNeverLocked == FALSE

\* input_lines is locked from the comparison to the last call.
InputLocked == \E t \in Sessions : At(t) = "call"

\* A bug: only what was accepted as a whole restarts the reads.
ReadsWhenAccepted(ok, changed) == ok

RestartsReads(ok, changed) == ok \/ changed

\* The end of send_input: the lock is dropped, the reads are restarted after
\* a write, and the requests are answered.
Finish(s, ok, wrote, most, newLen) ==
    LET j == job[s]
        changed == ~j.req.bypass /\ newLen # j.old
    IN  /\ job' = [job EXCEPT ![s] = None]
        /\ answers' = ReplyToInputs(s, j.n, Answer(ok, RestartsReads(ok, changed), wrote, most, j.req.pane))

\* send_input has the lock and knows which calls it will make.
LockInput(s) ==
    /\ At(s) = "lock" /\ ~InputLocked
    /\ LET j == job[s]
           p == j.req.pane
           todo == IF j.req.line # None THEN ReconcileLine(shadow[p], j.req.line)
                                        ELSE ForwardInput(j.req)
       IN  IF todo = <<>>
           THEN Finish(s, TRUE, 0, 0, Len(shadow[p]))
           ELSE /\ job' = [job EXCEPT ![s] = [j EXCEPT !.at = "call", !.todo = todo,
                                                      !.old = Len(shadow[p])]]
                /\ answers' = answers
    /\ UNCHANGED <<herdrVars, shadow, watched, asked, taken, unsure, faults>>

\* The shadow after a call that Herdr confirmed.
ShadowAfterCall(l, j, c) ==
    IF j.req.bypass THEN l
    ELSE IF j.req.line # None
         THEN IF Len(j.todo) = 1 THEN j.req.line ELSE Truncate(l, Len(c.keys))
    ELSE IF c.op = "text" THEN AfterText(l, c.text) ELSE ShadowAfterKeys(l, c.keys)

\* Typing a call's input as often as Herdr carried it out.  Input that
\* bypasses the line goes to the question the pane is asking (external).
TypedInto(p, j, c, times) ==
    LET once == TypeCall(line[p], c)
    IN  IF times = 0 \/ j.req.bypass THEN line
        ELSE [line EXCEPT ![p] = IF times = 1 THEN once ELSE TypeCall(once, c)]

\* A call did not go as it should: a person would see a failure, or worse.
Fault(out, there) == ~(out.ok = there /\ Clean(out))

Charge(out, there, p) ==
    /\ Fault(out, there) => faults < MaxFaults
    /\ faults' = IF Fault(out, there) THEN faults + 1 ELSE faults
    /\ unsure' = IF Clean(out) THEN unsure ELSE unsure \cup {p}

(***************************************************************************)
(* One pane.send_text or pane.send_input call of send_input.                 *)
(***************************************************************************)
CallHerdr(s) ==
    /\ At(s) = "call"
    /\ LET j == job[s]
           p == j.req.pane
           c == Head(j.todo)
       IN  \E out \in Call(p \in open, TRUE) :
             LET most  == IF out.times > j.most THEN out.times ELSE j.most
                 after == IF out.ok THEN ShadowAfterCall(shadow[p], j, c) ELSE shadow[p]
             IN  /\ Charge(out, p \in open, p)
                 /\ line' = TypedInto(p, j, c, out.times)
                 /\ shadow' = [shadow EXCEPT ![p] = after]
                 /\ IF out.ok /\ Len(j.todo) > 1
                    THEN /\ job' = [job EXCEPT ![s] = [j EXCEPT !.todo = Tail(@),
                                                               !.wrote = @ + 1,
                                                               !.most = most]]
                         /\ answers' = answers
                    ELSE Finish(s, out.ok, j.wrote + (IF out.ok THEN 1 ELSE 0), most, Len(after))
    /\ UNCHANGED <<open, known, watched, asked, taken>>

InputStep(s) == TakeInput(s) \/ LockInput(s) \/ CallHerdr(s)

(***************************************************************************)
(* A bridge that runs, with lines it has typed before.                       *)
(***************************************************************************)
Init ==
    /\ open = StartPanes /\ known = open
    /\ \E l \in StartLines : line = [p \in Panes |-> IF p \in open THEN l ELSE <<>>]
    /\ shadow = line
    /\ watched \in [Sessions -> open]
    /\ asked = [s \in Sessions |-> <<>>]
    /\ taken = [s \in Sessions |-> 0]
    /\ job = [s \in Sessions |-> None]
    /\ answers = [s \in Sessions |-> <<>>]
    /\ unsure = {} /\ faults = 0

-----------------------------------------------------------------------------
(***************************************************************************)
(* Correctness.                                                              *)
(***************************************************************************)

\* R-10-075: the shadow is the pane's line, whatever failed in between and
\* whichever Device typed, for a pane whose calls all told the truth.  The
\* next line is computed against the shadow, so one grapheme of difference
\* deletes or doubles a person's text.
ShadowIsTheLine == \A p \in open \ unsure : shadow[p] = line[p]

\* R-11-227 and R-11-252: the answers, the request at work and the requests
\* that wait are the Device's requests, in order; merging lines neither drops
\* a correlation id nor answers one twice.
EveryIdAccounted ==
    \A s \in Sessions :
        taken[s] = Len(answers[s]) + (IF At(s) = "idle" THEN 0 ELSE job[s].n)

\* R-11-248 and R-11-252: a line that is accepted is in the pane when it is
\* answered, and it is the newest of those answered with it: not an older one
\* that was merged away, and not half of it.
AcceptedLineIsShown ==
    [][\A s \in Sessions :
         LET n == Len(answers'[s])
         IN  n > Len(answers[s]) /\ answers'[s][n].ok /\ IsLine(asked[s][n])
               => LET p == asked[s][n].pane
                  IN  p \in open \ unsure' => line'[p] = asked[s][n].line]_vars

\* R-10-071: when Herdr has confirmed a write to the composer line, the pane
\* is read again, also when a later call of the same request failed.  Keys of
\* R-10-036 and an empty text write nothing to it.
WritesAreRead ==
    \A s \in Sessions : \A i \in 1..Len(answers[s]) :
        /\ asked[s][i].do = "input"
        /\ answers[s][i].wrote > 0
        /\ ~asked[s][i].bypass /\ asked[s][i].text \notin {Raw, <<>>}
        => answers[s][i].read

\* R-11-055, R-10-038, R-10-039: only keys of the permitted vocabulary reach
\* Herdr, each modifier once and in the order ctrl, alt, shift, and nothing of
\* a request that has another key does.
OnlyPermittedKeys ==
    LET Rank(m) == CHOOSE i \in 1..3 : PermittedModifiers[i] = m
        Fine(k) == /\ \A i \in 1..Len(k.mods) : k.mods[i] \in {"ctrl", "alt", "shift"}
                   /\ \A i \in 2..Len(k.mods) : Rank(k.mods[i - 1]) < Rank(k.mods[i])
                   /\ k.base # "unknown"
    IN  \A s \in Sessions : At(s) = "call" =>
            \A c \in {job[s].todo[i] : i \in 1..Len(job[s].todo)} :
                c.op = "keys" => \A i \in 1..Len(c.keys) : Fine(c.keys[i])

\* R-11-227, R-10-071, R-11-055: no request is lost or answered twice when
\* lines are merged, none that wrote is left unread, and none has Herdr press
\* a key that is not permitted.
EveryRequestIsKept == EveryIdAccounted /\ WritesAreRead /\ OnlyPermittedKeys

\* R-11-056: "The Host MUST NOT retry `text` or `keys` operations."
OperationsAreNotRetried ==
    \A s \in Sessions : \A i \in 1..Len(answers[s]) :
        asked[s][i].do = "input" /\ ~IsLine(asked[s][i]) => answers[s][i].most <= 1
=============================================================================
