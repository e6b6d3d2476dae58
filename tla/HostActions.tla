----------------------------- MODULE HostActions -----------------------------
(***************************************************************************)
(* What a Device does to the panes themselves: host_action and its create,   *)
(* pane and plugin operations (watch/input.rs, watch/plugin_actions.rs),     *)
(* next to the input of the same sessions (PaneInput) and the desktop.       *)
(*                                                                         *)
(* plugin.invoke is not told which pane the plugin opened.  It compares the  *)
(* panes before the call with those a settle time after it, while the        *)
(* desktop and other sessions open and close panes of their own.             *)
(***************************************************************************)
EXTENDS PaneInput

(***************************************************************************)
(* An action names the fields the request gave; these it must give.          *)
(***************************************************************************)
Required ==
    [act \in {"workspace.create", "tab.create", "pane.split", "split", "zoom", "close",
              "rename", "resize", "plugin.invoke"} |->
        IF act \in {"workspace.create", "tab.create"} THEN {}
        ELSE IF act = "pane.split" THEN {"direction"}
        ELSE IF act \in {"split", "resize"} THEN {"pane", "direction"}
        ELSE IF act = "plugin.invoke" THEN {"plugin_id", "action_id"}
        ELSE {"pane"}]

HostAction(act, pane, given) == [do |-> "action", act |-> act, pane |-> pane, given |-> given]

ActionRequests ==
    [do : {"action"}, act : DOMAIN Required, pane : Panes \cup {None}, given : SUBSET STRING]

\* What bridge_thread is at with a request, and where in an invocation.
InputJobs ==
    [at : {"lock", "call"}, req : InputRequests, n : Nat, wrote : Nat, most : Nat, old : Nat,
     todo : Seq([op : {"text"}, text : Lines \cup {Raw}] \cup [op : {"keys"}, keys : Seq(KeyNames)])]
ActionJobs ==
    [at : {"act", "context", "before", "invoke", "after"}, req : ActionRequests, n : {1},
     before : SUBSET Panes, since : SUBSET Panes, mine : SUBSET Panes, context : Panes \cup {None}]

ASSUME RequestAssumption ==
    /\ Asks \subseteq InputRequests \cup ActionRequests
    /\ None \notin InputJobs \cup ActionJobs

Creates == {"workspace.create", "tab.create", "pane.split", "split"}

\* host_action: the arguments are looked at before Herdr is called.
TakeAction(s) ==
    LET i == taken[s] + 1
        r == asked[s][i]
    IN  /\ At(s) = "idle" /\ i <= Len(asked[s])
        /\ r.do = "action"
        /\ taken' = [taken EXCEPT ![s] = i]
        /\ IF Required[r.act] \subseteq r.given
           THEN /\ job' = [job EXCEPT ![s] =
                       [at |-> IF r.act = "plugin.invoke" THEN "context" ELSE "act",
                        req |-> r, n |-> 1, before |-> {}, since |-> {}, mine |-> {},
                        context |-> None]]
                /\ answers' = answers
           ELSE /\ answers' = ReplyToInputs(s, 1, Refusal)
                /\ job' = job
        /\ UNCHANGED <<herdrVars, shadow, watched, asked, unsure, faults>>

\* Herdr opens panes of new ids and closes others (external).
PanesChange(opened, closed) ==
    /\ opened \cap known = {}
    /\ open' = (open \cup opened) \ closed
    /\ known' = known \cup opened
    /\ line' = line

\* The request is answered and the thread is free.
Done(s, a) == /\ answers' = ReplyToInputs(s, 1, a)
              /\ job' = [job EXCEPT ![s] = None]

(***************************************************************************)
(* The one call of a create or pane action.  A create that is carried out    *)
(* twice leaves two panes, of which the answer names the last.  When the     *)
(* panes of the model are used up, the new one is not followed.              *)
(***************************************************************************)
ActionCall(s) ==
    /\ At(s) = "act"
    /\ LET r == job[s].req
           there == r.pane = None \/ r.pane \in open
       IN  \E out \in Call(there, r.act # "close") : \E opened \in SUBSET (Panes \ known) :
             /\ Fault(out, there) => faults < MaxFaults
             /\ faults' = IF Fault(out, there) THEN faults + 1 ELSE faults
             /\ Cardinality(opened) = IF r.act \in Creates
                                      THEN Least(out.times, Cardinality(Panes \ known))
                                      ELSE 0
             /\ PanesChange(opened, IF r.act = "close" /\ out.times > 0 THEN {r.pane} ELSE {})
             /\ IF ~out.ok THEN Done(s, Refusal)
                ELSE \E p \in IF r.act \in Creates /\ opened # {} THEN opened ELSE {r.pane} :
                         Done(s, Answer(TRUE, FALSE, 1, out.times, p))
    /\ UNCHANGED <<shadow, watched, asked, taken, unsure>>

-----------------------------------------------------------------------------
\* A snapshot that cannot be had ends the action with an error.
SnapshotFails(s) ==
    /\ At(s) \in {"context", "before", "after"}
    /\ faults < MaxFaults /\ faults' = faults + 1
    /\ Done(s, Refusal)
    /\ UNCHANGED <<herdrVars, shadow, watched, asked, taken, unsure>>

\* snapshot_pane_ids
SnapshotPaneIds == open

(***************************************************************************)
(* build_invocation_context: the pane the plugin is told of is the one the   *)
(* request names, or the one with the focus (any one of the open panes) in   *)
(* a snapshot of its own, taken before the panes are listed.                 *)
(***************************************************************************)
InvokeContext(s) ==
    /\ At(s) = "context"
    /\ \E focused \in open \cup {None} :
         /\ focused = None <=> open = {}
         /\ job' = [job EXCEPT ![s].at = "before",
                               ![s].context = IF job[s].req.pane = None THEN focused
                                              ELSE job[s].req.pane]
    /\ UNCHANGED <<herdrVars, shadow, watched, asked, taken, answers, unsure, faults>>

\* The panes before the call.
InvokeBefore(s) ==
    /\ At(s) = "before"
    /\ job' = [job EXCEPT ![s].at = "invoke", ![s].before = SnapshotPaneIds,
                          ![s].since = known]
    /\ UNCHANGED <<herdrVars, shadow, watched, asked, taken, answers, unsure, faults>>

\* plugin.action.invoke: the plugin opens a pane or does not, closes one or
\* does not, each time it is run.
InvokeCall(s) ==
    /\ At(s) = "invoke"
    /\ \E out \in Call(TRUE, TRUE), opened \in SUBSET (Panes \ known), closed \in SUBSET open :
         /\ Fault(out, TRUE) => faults < MaxFaults
         /\ faults' = IF Fault(out, TRUE) THEN faults + 1 ELSE faults
         /\ Cardinality(opened) + Cardinality(closed) <= out.times
         /\ PanesChange(opened, closed)
         /\ IF out.ok
            THEN /\ job' = [job EXCEPT ![s].at = "after", ![s].mine = opened]
                 /\ answers' = answers
            ELSE Done(s, Refusal)
    /\ UNCHANGED <<shadow, watched, asked, taken, unsure>>

\* A bug: the first pane that is new is taken, however many there are.
AttributeAny(before, after) ==
    IF after \ before = {} THEN None ELSE CHOOSE p \in after \ before : TRUE

\* The pane the invocation is said to have opened: the only new one.
Attribute(before, after) ==
    IF Cardinality(after \ before) = 1 THEN CHOOSE p \in after \ before : TRUE ELSE None

\* The panes after the settle time.
InvokeAfter(s) ==
    /\ At(s) = "after"
    /\ Done(s, Answer(TRUE, FALSE, 1, 1, Attribute(job[s].before, SnapshotPaneIds)))
    /\ UNCHANGED <<herdrVars, shadow, watched, asked, taken, unsure, faults>>

ActionStep(s) ==
    \/ TakeAction(s) \/ ActionCall(s)
    \/ InvokeContext(s) \/ InvokeBefore(s) \/ SnapshotFails(s) \/ InvokeCall(s) \/ InvokeAfter(s)

\* A person at the desktop opens or closes a pane (external).
Desktop == /\ \/ \E p \in Panes \ known : PanesChange({p}, {})
              \/ \E p \in open : PanesChange({}, {p})
           /\ UNCHANGED inputVars

Next == \/ \E s \in Sessions : Ask(s) \/ InputStep(s) \/ ActionStep(s)
        \/ Desktop

Spec == Init /\ [][Next]_vars

-----------------------------------------------------------------------------
\* Each variable holds what its field in bridge.rs, watch/bridge.rs or Herdr
\* can hold.
TypeOK ==
    /\ open \subseteq known /\ known \subseteq Panes
    /\ DOMAIN line = Panes /\ DOMAIN shadow = Panes
    /\ \A s \in Sessions :
         /\ watched[s] \in Panes
         /\ Len(asked[s]) <= MaxAsks
         /\ Len(answers[s]) <= taken[s] /\ taken[s] <= Len(asked[s])
         /\ At(s) \in {"idle", "lock", "call", "act", "context", "before", "invoke", "after"}
         /\ At(s) = "call" => job[s].todo # <<>>
    /\ unsure \subseteq Panes /\ faults \in 0..MaxFaults

\* R-11-217a: a pane that plugin.invoke is answered with was opened while the
\* invocation was at work, and was the only new one; and a plugin that opened
\* one pane, when nobody else opened any, has it named.
InvocationIsAttributed ==
    [][\A s \in Sessions :
         At(s) = "after" /\ Len(answers'[s]) > Len(answers[s]) =>
            LET j == job[s]
                a == answers'[s][Len(answers'[s])]
                new == known \ j.since
            IN  a.ok =>
                /\ a.pane # None => a.pane \in new /\ (new \cap open) = {a.pane}
                /\ Cardinality(j.mine) = 1 /\ new = j.mine /\ j.mine \subseteq open
                     => a.pane \in j.mine]_vars
=============================================================================
