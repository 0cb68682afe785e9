------------------------------- MODULE MCMenu -------------------------------
(* A small instance of Menu. *)
EXTENDS Menu, TLC

CONSTANTS h1, h2,     \* two servers
          p1, p2,     \* two players
          a, b        \* two keys of the game

MCRows    == <<"clients", "recents", "general", "servers", "exit">>
MCItems   == [v \in {"general"} |-> 2]
MCPerPage == [v \in Paged |-> 1]

Key(w) == <<"key", w>>
Pad(w) == <<"pad", w>>

\* No button, one key or the mouse, and the pairs that compete: both devices, opening
\* and choosing, the two directions.
MCInputs == {{}, {Mouse}, {Insert}, {Join}} \cup {{Key(w)} : w \in Wishes}
              \cup {{Key("enter"), Pad("enter")}, {Insert, Key("enter")},
                    {Key("left"), Key("right")}}

\* Nothing in a frame but the opening looks at the game's keys, and the other pages open
\* and close as this one does: keys are in play only at the root and at "clients", with
\* the lists empty and a player at most in the lobby.
MCKeysApart ==
  (held # {} \/ event # NoEvent \/ excused # {}) =>
    /\ menu.view \in {Root, "clients"} /\ menu.root \in {0, 4}
    /\ Count("recents") = 0 /\ Count("servers") = 0 /\ Len(players.list) <= 1
    /\ latch \cup down \subseteq {Mouse, Insert, Key("left"), Key("enter")}

\* Nothing tells one server, player or key from another.
MCSymmetry == Permutations(Hosts) \cup Permutations(Players) \cup Permutations(GameKeys)
=============================================================================
