-------------------------------- MODULE Menu --------------------------------
(***************************************************************************)
(* The menu (menu): what a frame does with the buttons it finds down, with *)
(* the pointer, and with lists that change under its indices; and how the  *)
(* game is kept from the keys while the menu is open.                      *)
(*                                                                         *)
(* The render thread runs menu::tick in every frame: handle_input, then    *)
(* block_game_input, then serverlist::tick, which may replace or reorder   *)
(* the list of servers, then the body, which hit-tests the pointer and     *)
(* draws. The game's threads pass on key events at any time between.       *)
(*                                                                         *)
(* Coordinates, texts and colours are left out; so are the effects of a    *)
(* row, of which the model keeps whom or what they reach.                  *)
(***************************************************************************)
EXTENDS Integers, FiniteSets, Sequences

CONSTANTS
  Rows,        \* the pages in the order of the root list
  Items,       \* for each page of settings, the number of its rows
  Hosts,       \* servers that may be listed
  Players,     \* players that may be in the lobby
  MaxRecents,  \* players that may be in the recently seen list
  PerPage,     \* rows on a page of "recents" and of "servers"
  MaxHover,    \* players the pointer can reach
  GameKeys,    \* keys of the game
  Inputs       \* sets of buttons a frame may find down

Wishes == {"up", "down", "left", "right", "enter", "back"}
Insert == <<"key", "insert">>
Join   == <<"key", "join">>
Mouse  == <<"mouse", "left">>
Buttons == ({"key", "pad"} \X Wishes) \cup {Insert, Join, Mouse}

Root  == "root"
Paged == {"recents", "servers"}

ASSUME RowsAssumption ==
  /\ Rows \in Seq(STRING) /\ Len(Rows) > 0
  /\ \A i, j \in 1 .. Len(Rows) : i # j => Rows[i] # Rows[j]
ASSUME InputsAssumption == Inputs \subseteq SUBSET Buttons
ASSUME PerPageAssumption == PerPage \in [Paged -> Nat \ {0}]
ASSUME SizeAssumption ==
  /\ Items \in [DOMAIN Items -> Nat] /\ DOMAIN Items \cap ({Root, "clients"} \cup Paged) = {}
  /\ MaxRecents \in Nat /\ MaxHover \in Nat
  /\ IsFiniteSet(Hosts) /\ IsFiniteSet(Players)

VARIABLES
  menu,      \* g_open, g_view, g_root_sel, g_sub_sel, g_player_view and the pages
  latch,     \* the buttons whose latch is set
  players,   \* g_players, and how many of them gather_players found
  servers,   \* the hosts of serverlist::g_entries
  recents,   \* recents::count()
  wasOpen,   \* was_open of block_game_input
  held,      \* keys the game takes to be down
  event,     \* the key event hk_key_event has let through but not yet passed on
  pc,        \* where the frame is
  down,      \* buttons this frame finds down
  shown,     \* what the last frame drew details of or highlighted, if anything
  fired,     \* history: the buttons this frame reacted to
  reached,   \* history: whom or what the last step's choices reached
  used,      \* history: buttons down that have been reacted to since pressed
  seenOpen,  \* history: block_game_input last found the menu open
  excused    \* history: keys the game was given after it had

frame == <<down, shown, fired, reached, used>>
gate  == <<wasOpen, held, event, seenOpen, excused>>
lists == <<servers, recents>>
vars  == <<menu, latch, players, lists, gate, pc, frame>>

NoPlayer == -1
NoEvent  == [key |-> "none", press |-> FALSE]
Targets  == ({"player"} \X Players) \cup ({"server"} \X Hosts)
              \cup UNION {{v} \X (0 .. Items[v] - 1) : v \in DOMAIN Items}
Lists(S) == UNION {{f \in [1 .. n -> S] : \A i, j \in 1 .. n : i # j => f[i] # f[j]} :
                     n \in 0 .. Cardinality(S)}
Least(m, n) == IF m < n THEN m ELSE n

TypeOK ==
  /\ menu \in [open : BOOLEAN, view : {Root} \cup {Rows[i] : i \in 1 .. Len(Rows)},
               root : 0 .. Len(Rows) - 1, sub : Nat, player : Nat \cup {NoPlayer},
               page : [Paged -> Nat]]
  /\ latch \subseteq Buttons /\ down \subseteq Buttons
  /\ used \subseteq Buttons /\ fired \subseteq Buttons
  /\ players \in [list : Seq(Players), n : Nat] /\ players.n <= Len(players.list)
  /\ servers \in Lists(Hosts) /\ recents \in 0 .. MaxRecents
  /\ wasOpen \in BOOLEAN /\ seenOpen \in BOOLEAN
  /\ held \subseteq GameKeys /\ excused \subseteq GameKeys
  /\ event \in [key : GameKeys, press : BOOLEAN] \cup {NoEvent}
  /\ pc \in {"input", "gate", "tick", "body"}
  /\ shown \subseteq Targets /\ reached \subseteq Targets

Init ==
  /\ menu = [open |-> FALSE, view |-> Root, root |-> 0, sub |-> 0, player |-> NoPlayer,
             page |-> [v \in Paged |-> 0]]
  /\ latch = {} /\ players = [list |-> <<>>, n |-> 0]
  /\ servers = <<>> /\ recents \in 0 .. MaxRecents
  /\ wasOpen = FALSE /\ held = {} /\ event = NoEvent /\ seenOpen = FALSE /\ excused = {}
  /\ pc = "input" /\ down = {} /\ shown = {} /\ fired = {} /\ reached = {} /\ used = {}

-----------------------------------------------------------------------------
(* Pages and rows.                                                          *)

Count(v)     == IF v = "recents" THEN recents ELSE Len(servers)
PageCount(v) == IF Count(v) = 0 THEN 1 ELSE (Count(v) + PerPage[v] - 1) \div PerPage[v]
Start(m, v)  == m.page[v] * PerPage[v]

\* Rows on the page a list is at: none when the list has shrunk to before it.
OnPage(m, v) == IF Count(v) > Start(m, v) THEN Least(Count(v) - Start(m, v), PerPage[v]) ELSE 0

\* Rows handle_input lets the selection move over; n is what gather_players returned.
Selectable(m, n) ==
  CASE m.view = "clients"     -> IF m.player >= 0 THEN 1 ELSE n
    [] m.view \in Paged       -> OnPage(m, m.view)
    [] m.view \in DOMAIN Items -> Items[m.view]
    [] OTHER                  -> 0

\* Rows the pointer is tested against: two beside a player, though the page has one.
Hoverable(m, n) ==
  CASE m.view = Root          -> Len(Rows)
    [] m.view = "clients"     -> IF m.player >= 0 THEN 2 ELSE Least(n, MaxHover)
    [] m.view \in Paged       -> OnPage(m, m.view)
    [] m.view \in DOMAIN Items -> Items[m.view]
    [] OTHER                  -> 0

\* gather_players finds the players of the lobby, which may have become any others
\* since the last time. It overwrites as many entries and leaves those behind them.
Gathered(lobby) ==
  [list |-> lobby \o SubSeq(players.list, Len(lobby) + 1, Len(players.list)),
   n    |-> Len(lobby)]

-----------------------------------------------------------------------------
(* Choosing a row: activate(), and the branches before it.                  *)

Activated(m) ==
  IF Rows[m.root + 1] = "exit"
  THEN [m EXCEPT !.open = FALSE]
  ELSE LET v == Rows[m.root + 1] IN
       [m EXCEPT !.view = v, !.sub = 0,
                 !.page = [p \in Paged |-> IF p = v THEN 0 ELSE @[p]]]

Chosen(m) ==
  CASE m.view = Root                              -> Activated(m)
    [] m.view = "clients" /\ m.player = NoPlayer  -> [m EXCEPT !.player = m.sub, !.sub = 0]
    [] OTHER                                      -> m

\* The server a row of the present page stands for.
ServerAt(m) ==
  LET i == Start(m, "servers") + m.sub IN
  IF i < Len(servers) THEN {<<"server", servers[i + 1]>>} ELSE {}

\* Whom or what choosing the selected row reaches, read from ps.
Reaches(m, ps) ==
  CASE m.view = "clients" ->
         IF m.player >= 0 /\ m.sub = 0 THEN {<<"player", ps.list[m.player + 1]>>} ELSE {}
    [] m.view = "servers"      -> ServerAt(m)
    [] m.view \in DOMAIN Items -> IF m.sub < Items[m.view] THEN {<<m.view, m.sub>>} ELSE {}
    [] OTHER                   -> {}

\* Back to the list of players, or to the root.
Backed(m) ==
  IF m.view = "clients" /\ m.player >= 0
  THEN [m EXCEPT !.player = NoPlayer, !.sub = 0]
  ELSE [m EXCEPT !.view = Root, !.sub = 0, !.player = NoPlayer, !.page["recents"] = 0]

-----------------------------------------------------------------------------
(* handle_input.                                                            *)

Edges(d)  == d \ latch
Opened(d) == menu.open # (Insert \in Edges(d))

\* The buttons whose state is looked at. The pad's is not where the key's edge
\* already settles the question, and most are looked at only in an open menu.
Polled(d) ==
  {Insert} \cup
  IF ~Opened(d) THEN {}
  ELSE ({"key"} \X Wishes)
         \cup {b \in {"pad"} \X Wishes : <<"key", b[2]>> \notin Edges(d)}
         \cup {b \in {Join} : menu.view = "servers"}

Reacts(d) == Edges(d) \cap Polled(d)
Wants(d, w) == \E b \in Reacts(d) : b[2] = w
\* Mutant: the latches are let go of in a closed menu.
LatchedAnew(d) == IF Opened(d) THEN (latch \ Polled(d)) \cup (d \cap Polled(d))
                  ELSE d \cap {Insert}

Latched(d) == (latch \ Polled(d)) \cup (d \cap Polled(d))

\* Right and left turn the pages of a list; a left that did is used up.
PagedRight(m, d) ==
  IF m.view \in Paged /\ Wants(d, "right") /\ m.page[m.view] < PageCount(m.view) - 1
  THEN [m EXCEPT !.page[m.view] = @ + 1, !.sub = 0] ELSE m

TurnsLeft(m, d) == m.view \in Paged /\ Wants(d, "left") /\ m.page[m.view] > 0

Turned(d) ==
  LET r == PagedRight([menu EXCEPT !.open = TRUE], d) IN
  IF TurnsLeft(r, d) THEN [r EXCEPT !.page[r.view] = @ - 1, !.sub = 0] ELSE r

Leaves(d) == \/ Wants(d, "back")
             \/ Wants(d, "left") /\ ~TurnsLeft(PagedRight(menu, d), d)

\* What J reaches, before the page is clamped.
Joined(m, d) == IF Wants(d, "join") THEN ServerAt(m) ELSE {}

\* Mutant: up from the first row is not brought round.
MovedOff(i, n, d) ==
  LET u == IF Wants(d, "up") THEN i - 1 ELSE i IN
  IF Wants(d, "down") THEN (u + 1) % n ELSE u

\* Up and down go round the n rows of a list.
Moved(i, n, d) ==
  LET u == IF Wants(d, "up") THEN (i - 1 + n) % n ELSE i IN
  IF Wants(d, "down") THEN (u + 1) % n ELSE u

\* The frame looks at the buttons d, leaves the menu as m and has reached r.
Handles(d, m, r) ==
  /\ pc = "input" /\ pc' = "gate"
  /\ menu' = m /\ latch' = Latched(d) /\ down' = d
  /\ fired' = Reacts(d) /\ used' = (used \cap d) \cup Reacts(d) /\ reached' = r
  /\ UNCHANGED <<lists, gate, shown>>

InputClosed(d) ==
  /\ ~Opened(d)
  /\ Handles(d, [menu EXCEPT !.open = FALSE], {}) /\ UNCHANGED players

InputRoot(d) ==
  /\ Opened(d) /\ menu.view = Root
  /\ LET m == [menu EXCEPT !.open = ~Wants(d, "left"),
                           !.root = IF Wants(d, "left") THEN @ ELSE Moved(@, Len(Rows), d)] IN
     Handles(d, IF m.open /\ Wants(d, "enter") THEN Chosen(m) ELSE m, {})
  /\ UNCHANGED players

InputBack(d) ==
  /\ Opened(d) /\ menu.view # Root /\ Leaves(d)
  /\ Handles(d, Backed(Turned(d)), Joined(Turned(d), d)) /\ UNCHANGED players

\* Mutant: the page of the servers stays where it was.
ClampedNot(m) == m

\* A page of servers that no longer exists gives way to the last one.
Clamped(m) ==
  IF m.view = "servers"
  THEN [m EXCEPT !.page["servers"] = Least(@, PageCount("servers") - 1)] ELSE m

\* Mutant: the players are gathered anew beside one of them, too.
KnowsAnew(m) ==
  IF m.view = "clients" THEN {Gathered(lobby) : lobby \in Lists(Players)} ELSE {players}

\* The players are gathered anew in their list, and not beside one of them.
Knows(m) ==
  IF m.view = "clients" /\ m.player = NoPlayer
  THEN {Gathered(lobby) : lobby \in Lists(Players)} ELSE {players}

InputList(d) ==
  /\ Opened(d) /\ menu.view # Root /\ ~Leaves(d)
  /\ \E ps \in Knows(menu) :
     LET m == Clamped(Turned(d))
         n == Selectable(m, ps.n)
         s == [m EXCEPT !.sub = IF n = 0 THEN @ ELSE Moved(Least(@, n - 1), n, d)]
         e == Wants(d, "enter") /\ n > 0
     IN /\ Handles(d, IF e THEN Chosen(s) ELSE s,
                   Joined(Turned(d), d) \cup (IF e THEN Reaches(s, ps) ELSE {}))
        /\ players' = ps

Input == \E d \in Inputs : InputClosed(d) \/ InputRoot(d) \/ InputBack(d) \/ InputList(d)

-----------------------------------------------------------------------------
(* The rest of the frame.                                                   *)

\* Mutant: was_open is not reset when the menu closes.
BlockGameInputOnce ==
  /\ pc = "gate" /\ pc' = "tick"
  /\ held' = IF menu.open /\ ~wasOpen THEN {} ELSE held
  /\ wasOpen' = (wasOpen \/ menu.open) /\ seenOpen' = menu.open
  /\ down' = down \cap {Mouse} /\ fired' = {} /\ reached' = {}
  /\ UNCHANGED <<menu, latch, players, lists, event, excused, shown, used>>

\* block_game_input: an opened menu makes the game let go of its keys.
BlockGameInput ==
  /\ pc = "gate" /\ pc' = "tick"
  /\ held' = IF menu.open /\ ~wasOpen THEN {} ELSE held
  /\ wasOpen' = menu.open /\ seenOpen' = menu.open
  /\ down' = down \cap {Mouse} /\ fired' = {} /\ reached' = {}
  /\ UNCHANGED <<menu, latch, players, lists, event, excused, shown, used>>

\* serverlist::tick leaves any list of servers; a closed menu draws nothing.
Tick ==
  /\ pc = "tick" /\ servers' \in Lists(Hosts)
  /\ IF menu.open
     THEN pc' = "body" /\ UNCHANGED <<shown, down>>
     ELSE pc' = "input" /\ shown' = {} /\ down' = {}
  /\ UNCHANGED <<menu, latch, players, recents, gate, fired, reached, used>>

\* What a drawn menu shows. Of the lobby: the player whose details are up, who is the
\* one at the selection unless a player has been chosen.
DrawnPlayer(m, ps) ==
  LET i == IF m.player >= 0 THEN m.player ELSE m.sub IN
  IF i < ps.n THEN {<<"player", ps.list[i + 1]>>} ELSE {}

\* Of the servers: the one highlighted, whose details are up as well.
DrawnServer(m) == IF m.sub < OnPage(m, "servers") THEN ServerAt(m) ELSE {}

\* Of a page of settings: the row highlighted.
DrawnItem(m) == IF m.sub < Items[m.view] THEN {<<m.view, m.sub>>} ELSE {}

Drawn(m, ps) ==
  CASE m.view = "clients"      -> DrawnPlayer(m, ps)
    [] m.view = "servers"      -> DrawnServer(m)
    [] m.view \in DOMAIN Items -> DrawnItem(m)
    [] OTHER                   -> {}

Clicks == Mouse \in down \ latch

\* The body, which has found the players ps, ends with the menu as m, drawn, and has
\* reached r.
Draws(m, ps, r) ==
  /\ pc = "body" /\ pc' = "input"
  /\ menu' = m /\ players' = ps /\ shown' = Drawn(m, ps) /\ reached' = r
  /\ latch' = (latch \ {Mouse}) \cup (down \cap {Mouse})
  /\ used' = used \cup (IF Clicks THEN {Mouse} ELSE {})
  /\ down' = {}
  /\ UNCHANGED <<lists, gate, fired>>

\* The pointer is elsewhere.
BodyOff(ps) == Draws(menu, ps, {})

\* Mutant: a click reaches into the players of the frame before.
BodyRowStale(ps) ==
  \E i \in 0 .. Hoverable(menu, ps.n) - 1, moved \in BOOLEAN :
    LET m == IF ~moved /\ ~Clicks THEN menu
             ELSE IF menu.view = Root THEN [menu EXCEPT !.root = i]
             ELSE [menu EXCEPT !.sub = i]
    IN IF Clicks THEN Draws(Chosen(m), ps, Reaches(m, players)) ELSE Draws(m, ps, {})

\* The pointer is on row i: it selects the row when it moved or clicks.
BodyRow(ps) ==
  \E i \in 0 .. Hoverable(menu, ps.n) - 1, moved \in BOOLEAN :
    LET m == IF ~moved /\ ~Clicks THEN menu
             ELSE IF menu.view = Root THEN [menu EXCEPT !.root = i]
             ELSE [menu EXCEPT !.sub = i]
    IN IF Clicks THEN Draws(Chosen(m), ps, Reaches(m, ps)) ELSE Draws(m, ps, {})

\* The pointer is on "< back".
BodyBack(ps) ==
  menu.view # Root /\ Draws(IF Clicks THEN Backed(menu) ELSE menu, ps, {})

Body == \E lobby \in Lists(Players) :
          LET ps == Gathered(lobby) IN BodyOff(ps) \/ BodyRow(ps) \/ BodyBack(ps)

-----------------------------------------------------------------------------
(* The game's threads.                                                      *)

\* hk_key_event lets an event through when it finds the menu closed ...
KeyLetThrough ==
  /\ event = NoEvent /\ ~menu.open
  /\ event' \in [key : GameKeys, press : BOOLEAN] /\ event'.press # (event'.key \in held)
  /\ UNCHANGED <<menu, latch, players, lists, wasOpen, held, seenOpen, excused, pc, frame>>

\* ... and passes it on later; by then the menu may be open.
KeyPassedOn ==
  /\ event # NoEvent /\ event' = NoEvent
  /\ held' = IF event.press THEN held \cup {event.key} ELSE held \ {event.key}
  /\ excused' = IF event.press /\ seenOpen
                THEN excused \cup {event.key} ELSE excused \ {event.key}
  /\ UNCHANGED <<menu, latch, players, lists, wasOpen, seenOpen, pc, frame>>

\* The main loop lists another player as recently seen; it never lists fewer.
RecentsGrow ==
  /\ recents < MaxRecents /\ recents' = recents + 1
  /\ UNCHANGED <<menu, latch, players, servers, gate, pc, frame>>

Next ==
  \/ Input \/ BlockGameInput \/ Tick \/ Body
  \/ KeyLetThrough \/ KeyPassedOn \/ RecentsGrow

Spec == Init /\ [][Next]_vars
-----------------------------------------------------------------------------
(* Properties.                                                              *)

\* Once handle_input is through, an open menu is at a page that exists and its
\* selection at a row of it, however its lists have shrunk since they were drawn; a
\* player's page is of an entry gather_players has filled; and the recently seen are
\* never at a page behind their last, at which handle_input would leave them.
OnARow ==
  /\ pc = "gate" /\ menu.open =>
       CASE menu.view = "servers" ->
              /\ menu.page["servers"] < PageCount("servers")
              /\ Count("servers") > 0 => menu.sub < OnPage(menu, "servers")
         [] menu.view = "recents" -> Count("recents") > 0 => menu.sub < OnPage(menu, "recents")
         [] OTHER -> LET n == Selectable(menu, players.n) IN n > 0 => menu.sub < n
  /\ menu.player < Len(players.list)
  /\ menu.page["recents"] < PageCount("recents")

\* Enter and J reach no other server, player or setting than the one the last frame
\* showed, although all they have is an index: nothing that could move the lists may
\* come between drawing them and handle_input. (Unless an arrow in the same frame
\* moves the selection first, or nothing was shown.)
KeysReachShown ==
  [][/\ pc = "input" /\ pc' = "gate" /\ shown # {}
     /\ {b[2] : b \in fired'} \cap {"up", "down", "left", "right"} = {}
     => reached' \subseteq shown]_vars

\* A click reaches nothing but what the frame then goes on to show, though the lobby may
\* have changed since the frame before.
ClicksReachShown == [][pc = "body" /\ pc' = "input" /\ shown' # {} => reached' \subseteq shown']_vars

\* A button is reacted to at most once for each time it is pressed, however long it is
\* held and however often the menu is closed and opened meanwhile, which leaves the
\* latches unattended.
OncePerPress ==
  [][/\ pc = "input" /\ pc' = "gate" => fired' \cap (used \cap down') = {}
     /\ pc = "body" /\ Clicks => Mouse \notin used]_vars

\* While the menu is open the game holds no key down, for it would not be told of the
\* release. The exceptions are keys passed on after a frame that had found the menu
\* open and before one that found it closed: events that looked at g_open in time but
\* were late, and keys pressed between a click on "exit" and an Insert in the very next
\* frame, which block_game_input does not take for an opening.
NothingHeld == menu.open /\ pc # "gate" => held \subseteq excused

=============================================================================
