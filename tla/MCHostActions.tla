--------------------------- MODULE MCHostActions ---------------------------
(***************************************************************************)
(* HostActions for TLC: two Devices, panes of which one may be opened, and   *)
(* requests that meet every path of the two modules.                         *)
(***************************************************************************)
EXTENDS HostActions, TLC

CONSTANTS p1, p2, p3, d1, d2

MCSessions == {d1, d2}
MCSymmetry == Permutations(MCSessions)
MCPanes == {p1, p2, p3}
MCStartPanes == {p1}
MCGraphemes == {"a", "b"}
MCStartLines == {<<>>, <<"a", "b", "a">>}

Enter     == Key(<<>>, "enter")
Backspace == Key(<<>>, "backspace")

LineOf(l)      == SendInput(p1, l, None, None, FALSE)
TextOf(t, k)   == SendInput(p1, None, t, k, FALSE)

MCAsks ==
    {LineOf(<<>>), LineOf(<<"a", "a">>), LineOf(<<"a", "b", "b">>),
     TextOf(<<"b">>, <<Backspace, Backspace>>), TextOf(Raw, <<Enter>>),
     TextOf(None, <<Key(<<"alt", "ctrl">>, "char")>>),        \* wrong order
     SendInput(p1, None, <<"b">>, <<Enter>>, TRUE),           \* an answer
     SendInput(p1, <<"a">>, None, None, TRUE),                \* refused
     SendInput(p2, <<"a">>, None, None, FALSE)}               \* not watched
    \cup {HostAction("pane.split", p1, {"pane", "direction"}),
          HostAction("split", p1, {"pane"}),                  \* no direction
          HostAction("close", p1, {"pane"}),
          HostAction("plugin.invoke", None, {"plugin_id", "action_id"})}
=============================================================================
