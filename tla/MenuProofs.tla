------------------------------- MODULE MenuProofs -------------------------------
(***************************************************************************)
(* Theorems about Menu: for any pages, rows, players, servers and keys,    *)
(* and any buttons a frame may find down.                                  *)
(***************************************************************************)
EXTENDS Menu, Counting

Views == {Root} \cup {Rows[i] : i \in 1 .. Len(Rows)}
MenuType == [open : BOOLEAN, view : Views, root : 0 .. Len(Rows) - 1, sub : Nat,
             player : Nat \cup {NoPlayer}, page : [Paged -> Nat]]
FoundType == [list : Seq(Players), n : Nat]

-----------------------------------------------------------------------------
(* Buttons: each press once.                                                *)

\* What has been reacted to is latched; the mouse, once it is, for as long as it is down.
PressedInv ==
  /\ used \subseteq latch
  /\ pc # "input" /\ Mouse \in used => Mouse \in down

LEMMA MouseNotPolled == \A d : Mouse \notin Polled(d)
  BY DEF Mouse, Polled, Insert, Join

LEMMA PressedOnInput ==
  ASSUME PressedInv, NEW d, NEW m, NEW r, Handles(d, m, r)
  PROVE  PressedInv' /\ fired' \cap (used \cap down') = {}
<1>1. /\ latch' = Latched(d) /\ down' = d /\ fired' = Reacts(d)
      /\ used' = (used \cap d) \cup Reacts(d) /\ pc' = "gate"
  BY DEF Handles
<1>2. used \subseteq latch
  BY DEF PressedInv
<1>3. Reacts(d) \subseteq (d \cap Polled(d)) \ latch
  BY DEF Reacts, Edges
<1>4. used' \subseteq latch' /\ used' \subseteq d
  BY <1>1, <1>2, <1>3 DEF Latched
<1> QED
  BY <1>1, <1>2, <1>3, <1>4 DEF PressedInv

LEMMA PressedOnBody ==
  ASSUME PressedInv, NEW m, NEW ps, NEW r, Draws(m, ps, r)
  PROVE  PressedInv' /\ (Clicks => Mouse \notin used)
<1>1. /\ pc = "body" /\ pc' = "input" /\ down' = {}
      /\ latch' = (latch \ {Mouse}) \cup (down \cap {Mouse})
      /\ used' = used \cup (IF Clicks THEN {Mouse} ELSE {})
  BY DEF Draws
<1>2. used \subseteq latch /\ (Mouse \in used => Mouse \in down)
  BY <1>1 DEF PressedInv
<1>3. Clicks => Mouse \in down /\ Mouse \notin used
  BY <1>2 DEF Clicks
<1>4. used' \subseteq latch'
  BY <1>1, <1>2, <1>3
<1> QED
  BY <1>1, <1>3, <1>4 DEF PressedInv

\* Every frame looks at the buttons in one of four ways, and draws in one of three.
LEMMA InputHandles ==
  ASSUME Input
  PROVE  \E d \in Inputs : \E m, r : Handles(d, m, r)
  BY DEF Input, InputClosed, InputRoot, InputBack, InputList

LEMMA BodyDraws ==
  ASSUME Body
  PROVE  \E lobby \in Lists(Players) : \E m, r : Draws(m, Gathered(lobby), r)
<1>1. PICK lobby \in Lists(Players) :
        BodyOff(Gathered(lobby)) \/ BodyRow(Gathered(lobby)) \/ BodyBack(Gathered(lobby))
  BY DEF Body
<1> DEFINE ps == Gathered(lobby)
<1>2. CASE BodyOff(ps)
  BY <1>2 DEF BodyOff
<1>3. CASE BodyRow(ps)
  <2> HIDE DEF ps
  <2>1. \E m, r : Draws(m, ps, r)
    BY <1>3 DEF BodyRow
  <2> QED
    BY <2>1 DEF ps
<1>4. CASE BodyBack(ps)
  BY <1>4 DEF BodyBack
<1> QED
  BY <1>1, <1>2, <1>3, <1>4

\* A step in which the game's threads run, or none.
Elsewhere == KeyLetThrough \/ KeyPassedOn \/ RecentsGrow \/ UNCHANGED vars

LEMMA ElsewhereKeeps ==
  ASSUME Elsewhere
  PROVE  /\ menu' = menu /\ latch' = latch /\ players' = players /\ servers' = servers
         /\ pc' = pc /\ down' = down /\ shown' = shown /\ used' = used /\ reached' = reached
         /\ wasOpen' = wasOpen /\ seenOpen' = seenOpen
  BY DEF Elsewhere, KeyLetThrough, KeyPassedOn, RecentsGrow, vars, frame, gate, lists

LEMMA PressedStep ==
  ASSUME PressedInv, [Next]_vars
  PROVE  PressedInv'
<1>1. CASE Input
  BY <1>1, InputHandles, PressedOnInput
<1>2. CASE BlockGameInput
  BY <1>2 DEF BlockGameInput, PressedInv
<1>3. CASE Tick
  <2>1. used' = used /\ latch' = latch /\ (pc' # "input" => down' = down) /\ pc = "tick"
    BY <1>3 DEF Tick
  <2> QED
    BY <2>1 DEF PressedInv
<1>4. CASE Body
  BY <1>4, BodyDraws, PressedOnBody
<1>5. CASE Elsewhere
  BY <1>5, ElsewhereKeeps DEF PressedInv
<1> QED
  BY <1>1, <1>2, <1>3, <1>4, <1>5 DEF Next, Elsewhere

\* A button is reacted to at most once for each time it is pressed (the latches of
\* handle_input and of the body).
THEOREM EachPressOnce == Spec => OncePerPress
<1> DEFINE A == /\ pc = "input" /\ pc' = "gate" => fired' \cap (used \cap down') = {}
                /\ pc = "body" /\ Clicks => Mouse \notin used
<1>1. Init => PressedInv
  BY DEF Init, PressedInv
<1>2. PressedInv /\ [Next]_vars => PressedInv'
  BY PressedStep
<1>3. PressedInv /\ [Next]_vars => [A]_vars
  <2> SUFFICES ASSUME PressedInv, Next PROVE A
    OBVIOUS
  <2>1. ASSUME pc = "input", pc' = "gate" PROVE fired' \cap (used \cap down') = {}
    <3>1. ~BlockGameInput /\ ~Tick /\ ~Body /\ ~Elsewhere
      <4>1. Body => pc = "body"
        BY BodyDraws DEF Draws
      <4> QED
        BY <2>1, <4>1, ElsewhereKeeps DEF BlockGameInput, Tick
    <3> QED
      BY <3>1, InputHandles, PressedOnInput DEF Next, Elsewhere
  <2>2. ASSUME pc = "body", Clicks PROVE Mouse \notin used
    BY <2>2 DEF PressedInv, Clicks
  <2> QED
    BY <2>1, <2>2
<1>4. Spec => [][A]_vars
  <2> HIDE DEF A
  <2> QED
    BY <1>1, <1>2, <1>3, PTL DEF Spec
<1> QED
  BY <1>4 DEF OncePerPress

-----------------------------------------------------------------------------
(* Rows and pages.                                                          *)

\* Of c rows with w on a page: the pages that exist are the first, and all that begin
\* before the last row.
LEMMA PageExists ==
  ASSUME NEW c \in Nat, NEW w \in Nat \ {0}, NEW n \in Nat
  PROVE  LET k == IF c = 0 THEN 1 ELSE (c + w - 1) \div w IN
         k \in Nat \ {0} /\ (n < k <=> n = 0 \/ n * w < c)
<1> DEFINE a == c + w - 1
           q == a \div w
           r == a % w
<1>0. a \in Int
  OBVIOUS
<1>1. c + w - 1 = w * q + r /\ q \in Int /\ r \in Int /\ 0 <= r /\ r <= w - 1
  <2> HIDE DEF a
  <2>1. a = w * q + r /\ q \in Int /\ r \in 0 .. w - 1
    BY <1>0, Euclid
  <2>2. r \in Int /\ 0 <= r /\ r <= w - 1
    <3> HIDE DEF r
    <3> QED
      BY <2>1
  <2> QED
    BY <2>1, <2>2 DEF a
<1>2. n * w \in Nat /\ n * w = w * n
  OBVIOUS
<1> HIDE DEF q, r
<1>3. w * q \in Int
  BY <1>1
<1>4. CASE c = 0
  BY <1>2, <1>4
<1>5. CASE c # 0
  <2>1. q > 0
    <3>1. CASE q <= 0
      <4>1. w * (0 - q) >= 0
        BY <1>1, <3>1
      <4>2. w * (0 - q) = w * 0 - w * q
        BY <1>1, Distributes
      <4> QED
        BY <1>1, <1>3, <1>5, <4>1, <4>2
    <3> QED
      BY <1>1, <3>1
  <2>2. n < q => n * w < c
    <3> SUFFICES ASSUME n < q PROVE n * w < c
      OBVIOUS
    <3>1. w * (q - n) >= w
      BY <1>1, Multiple
    <3>2. w * (q - n) = w * q - w * n
      BY <1>1, Distributes
    <3> QED
      BY <1>1, <1>2, <1>3, <3>1, <3>2
  <2>3. n * w < c => n < q
    <3> SUFFICES ASSUME n >= q PROVE n * w >= c
      BY <1>1, <1>2
    <3>1. w * (n - q) >= 0
      BY <1>1
    <3>2. w * (n - q) = w * n - w * q
      BY <1>1, Distributes
    <3> QED
      BY <1>1, <1>2, <1>3, <3>1, <3>2
  <2>4. n = 0 => n * w < c
    BY <1>5
  <2> QED
    BY <1>1, <1>5, <2>1, <2>2, <2>3, <2>4 DEF q
<1> QED
  BY <1>4, <1>5

LEMMA ListsType ==
  ASSUME NEW S, IsFiniteSet(S), NEW f \in Lists(S)
  PROVE  f \in Seq(S)
<1>1. PICK n \in 0 .. Cardinality(S) : f \in [1 .. n -> S]
  BY DEF Lists
<1>2. n \in Nat
  BY FS_CardinalityType
<1> QED
  BY <1>1, <1>2, FunctionIsSeq

\* Entries that were filled stay filled.
LEMMA GatheredType ==
  ASSUME players \in FoundType, NEW lobby \in Lists(Players)
  PROVE  /\ Gathered(lobby) \in FoundType
         /\ Gathered(lobby).n <= Len(Gathered(lobby).list)
         /\ Len(players.list) <= Len(Gathered(lobby).list)
<1> DEFINE old  == players.list
           rest == SubSeq(old, Len(lobby) + 1, Len(old))
           new  == lobby \o rest
<1>1. lobby \in Seq(Players) /\ Len(lobby) \in Nat
  BY ListsType, SizeAssumption
<1>2. old \in Seq(Players) /\ Len(old) \in Nat
  BY DEF FoundType
<1>3. rest \in Seq(Players) /\ Len(rest) = IF Len(lobby) + 1 <= Len(old) THEN Len(old) - Len(lobby) ELSE 0
  <2>1. Len(lobby) + 1 \in Int /\ Len(old) \in Int
    BY <1>1, <1>2
  <2>2. ASSUME NEW i \in Len(lobby) + 1 .. Len(old) PROVE old[i] \in Players
    <3>1. i \in 1 .. Len(old)
      BY <1>1, <1>2
    <3> QED
      BY <1>2, <3>1, ElementOfSeq
  <2> HIDE DEF old
  <2>3. rest \in Seq(Players) /\ Len(rest) = IF Len(lobby) + 1 <= Len(old)
                                            THEN Len(old) - (Len(lobby) + 1) + 1 ELSE 0
    BY <2>1, <2>2, SubSeqProperties
  <2> HIDE DEF rest
  <2> QED
    BY <1>1, <1>2, <2>3
<1> HIDE DEF rest, old
<1>4. new \in Seq(Players) /\ Len(new) = Len(lobby) + Len(rest)
  BY <1>1, <1>3, ConcatProperties
<1>5. Gathered(lobby) = [list |-> new, n |-> Len(lobby)]
  BY DEF Gathered, rest, old, new
<1> HIDE DEF new
<1>6. Len(lobby) <= Len(new) /\ Len(old) <= Len(new)
  BY <1>1, <1>2, <1>3, <1>4
<1> QED
  BY <1>1, <1>4, <1>5, <1>6 DEF FoundType, old

\* The views are told from one another.
LEMMA ViewsApart ==
  /\ Root # "clients" /\ Root \notin Paged /\ "clients" \notin Paged
  /\ Root \notin DOMAIN Items /\ "clients" \notin DOMAIN Items
  /\ "recents" \notin DOMAIN Items /\ "servers" \notin DOMAIN Items
  /\ "recents" # "servers" /\ "recents" \in Paged /\ "servers" \in Paged
  /\ "recents" # Root /\ "recents" # "clients" /\ "servers" # Root /\ "servers" # "clients"
<1>1. DOMAIN Items \cap ({Root, "clients"} \cup Paged) = {}
  BY SizeAssumption
<1>2. "recents" \in Paged /\ "servers" \in Paged
  BY DEF Paged
<1>3. Root # "clients" /\ Root \notin Paged /\ "clients" \notin Paged
  BY DEF Root, Paged
<1> QED
  BY <1>1, <1>2, <1>3

ListsOK == servers \in Seq(Hosts) /\ recents \in 0 .. MaxRecents

\* Lists, their pages, and the rows on a page.
LEMMA OnPageFacts ==
  ASSUME ListsOK, NEW m \in MenuType, NEW v \in Paged
  PROVE  /\ Count(v) \in Nat /\ Start(m, v) \in Nat /\ OnPage(m, v) \in Nat
         /\ PageCount(v) \in Nat \ {0} /\ PerPage[v] \in Nat \ {0} /\ m.page[v] \in Nat
         /\ m.page[v] < PageCount(v) <=> m.page[v] = 0 \/ Start(m, v) < Count(v)
         /\ m.page[v] < PageCount(v) /\ Count(v) > 0 => OnPage(m, v) > 0
         /\ Start(m, v) + OnPage(m, v) <= Count(v) \/ OnPage(m, v) = 0
<1>1. Count(v) \in Nat
  BY SizeAssumption DEF ListsOK, Count
<1>2. PerPage[v] \in Nat \ {0} /\ m.page[v] \in Nat
  BY PerPageAssumption DEF MenuType
<1>3. Start(m, v) \in Nat
  <2>1. \A a, b \in Nat : a * b \in Nat
    OBVIOUS
  <2> QED
    BY <1>2, <2>1 DEF Start
<1>4. PageCount(v) \in Nat \ {0}
      /\ (m.page[v] < PageCount(v) <=> m.page[v] = 0 \/ Start(m, v) < Count(v))
  BY <1>1, <1>2, PageExists DEF PageCount, Start
<1>5. OnPage(m, v) \in Nat /\ (Start(m, v) < Count(v) => OnPage(m, v) > 0)
      /\ (Start(m, v) + OnPage(m, v) <= Count(v) \/ OnPage(m, v) = 0)
  BY <1>1, <1>2, <1>3 DEF OnPage, Least
<1>6. m.page[v] = 0 => Start(m, v) = 0
  <2>1. \A b \in Nat : 0 * b = 0
    OBVIOUS
  <2> QED
    BY <1>2, <2>1 DEF Start
<1> QED
  BY <1>1, <1>2, <1>3, <1>4, <1>5, <1>6

\* Rows the selection moves over, and rows the pointer finds.
LEMMA SelectableFacts ==
  ASSUME ListsOK, NEW m \in MenuType, NEW n \in Nat
  PROVE  /\ Selectable(m, n) \in Nat /\ Hoverable(m, n) \in Nat
         /\ m.view = "clients" => Selectable(m, n) = (IF m.player >= 0 THEN 1 ELSE n)
         /\ m.view = "clients" /\ m.player < 0 => Hoverable(m, n) <= n
         /\ m.view \in Paged => Selectable(m, n) = OnPage(m, m.view)
                                /\ Hoverable(m, n) = OnPage(m, m.view)
         /\ m.view \in DOMAIN Items => Selectable(m, n) = Items[m.view]
                                       /\ Hoverable(m, n) = Items[m.view]
         /\ m.view = Root => Hoverable(m, n) = Len(Rows)
         /\ m.view \notin {"clients"} \cup Paged \cup DOMAIN Items => Selectable(m, n) = 0
<1>1. m.view \in Paged => OnPage(m, m.view) \in Nat
  BY OnPageFacts
<1>2. m.view \in DOMAIN Items => Items[m.view] \in Nat
  BY SizeAssumption
<1>3. Len(Rows) \in Nat
  BY RowsAssumption
<1>4. CASE m.view = "clients"
  <2>1. Selectable(m, n) = IF m.player >= 0 THEN 1 ELSE n
    BY <1>4, ViewsApart DEF Selectable
  <2>2. Hoverable(m, n) = IF m.player >= 0 THEN 2 ELSE Least(n, MaxHover)
    BY <1>4, ViewsApart DEF Hoverable
  <2>3. Least(n, MaxHover) \in Nat /\ Least(n, MaxHover) <= n
    BY SizeAssumption DEF Least
  <2>4. m.player \in Nat \cup {NoPlayer}
    BY DEF MenuType
  <2>5. m.player < 0 => ~(m.player >= 0)
    BY <2>4 DEF NoPlayer
  <2> QED
    BY <1>4, <2>1, <2>2, <2>3, <2>5, ViewsApart
<1>5. CASE m.view \in Paged
  <2>1. Selectable(m, n) = OnPage(m, m.view) /\ Hoverable(m, n) = OnPage(m, m.view)
    BY <1>5, ViewsApart DEF Selectable, Hoverable, Paged
  <2> QED
    BY <1>1, <1>5, <2>1, ViewsApart DEF Paged
<1>6. CASE m.view \in DOMAIN Items
  <2>1. Selectable(m, n) = Items[m.view] /\ Hoverable(m, n) = Items[m.view]
    BY <1>6, ViewsApart DEF Selectable, Hoverable, Paged
  <2> QED
    BY <1>2, <1>6, <2>1, ViewsApart DEF Paged
<1>7. CASE m.view \notin {"clients"} \cup Paged \cup DOMAIN Items
  <2>1. Selectable(m, n) = 0
    BY <1>7 DEF Selectable
  <2>2. Hoverable(m, n) = IF m.view = Root THEN Len(Rows) ELSE 0
    BY <1>7 DEF Hoverable
  <2> QED
    BY <1>3, <1>7, <2>1, <2>2
<1> QED
  BY <1>4, <1>5, <1>6, <1>7

-----------------------------------------------------------------------------
(* What becomes of the menu.                                                *)

\* The recently seen are at a page that exists, and the selection at a row of it, or at
\* the first when there are none.
RecentsOK(m) ==
  /\ m.page["recents"] < PageCount("recents")
  /\ m.view = "recents" => m.sub = 0 \/ m.sub < OnPage(m, "recents")

MenuOf(o, v, r, s, p, g) ==
  [open |-> o, view |-> v, root |-> r, sub |-> s, player |-> p, page |-> g]

LEMMA IsMenuOf ==
  ASSUME NEW m \in MenuType
  PROVE  m = MenuOf(m.open, m.view, m.root, m.sub, m.player, m.page)
  BY DEF MenuOf, MenuType

WithView(m, x)   == [m EXCEPT !.view = x]
WithSub(m, x)    == [m EXCEPT !.sub = x]
WithPlayer(m, x) == [m EXCEPT !.player = x]
WithPage(m, x)   == [m EXCEPT !.page = x]

LEMMA ChangedMenu ==
  ASSUME NEW o, NEW v, NEW r, NEW s, NEW p, NEW g, NEW x
  PROVE  /\ WithView(MenuOf(o, v, r, s, p, g), x) = MenuOf(o, x, r, s, p, g)
         /\ WithSub(MenuOf(o, v, r, s, p, g), x) = MenuOf(o, v, r, x, p, g)
         /\ WithPlayer(MenuOf(o, v, r, s, p, g), x) = MenuOf(o, v, r, s, x, g)
         /\ WithPage(MenuOf(o, v, r, s, p, g), x) = MenuOf(o, v, r, s, p, x)
<1>1. WithView(MenuOf(o, v, r, s, p, g), x) = MenuOf(o, x, r, s, p, g)
  BY DEF MenuOf, WithView
<1>2. WithSub(MenuOf(o, v, r, s, p, g), x) = MenuOf(o, v, r, x, p, g)
  BY DEF MenuOf, WithSub
<1>3. WithPlayer(MenuOf(o, v, r, s, p, g), x) = MenuOf(o, v, r, s, x, g)
  BY DEF MenuOf, WithPlayer
<1>4. WithPage(MenuOf(o, v, r, s, p, g), x) = MenuOf(o, v, r, s, p, x)
  BY DEF MenuOf, WithPage
<1> QED
  BY <1>1, <1>2, <1>3, <1>4

\* Of the menu m, the menu t is left: at what m is at, but for its page and row.
SamePlace(t, m) == t.open = m.open /\ t.view = m.view /\ t.root = m.root /\ t.player = m.player

PageAt(m, k) == [m EXCEPT !.page[m.view] = k, !.sub = 0]
RowAt(m, i)  == [m EXCEPT !.sub = i]

LEMMA PageAtFacts ==
  ASSUME ListsOK, NEW m \in MenuType, m.view \in Paged, NEW k \in Nat, RecentsOK(m),
         m.view = "recents" => k < PageCount(m.view)
  PROVE  /\ PageAt(m, k) \in MenuType /\ SamePlace(PageAt(m, k), m) /\ RecentsOK(PageAt(m, k))
<1> DEFINE t == PageAt(m, k)
<1>1. t = [open |-> m.open, view |-> m.view, root |-> m.root, sub |-> 0, player |-> m.player,
           page |-> [m.page EXCEPT ![m.view] = k]]
  <2> DEFINE f == [m.page EXCEPT ![m.view] = k]
  <2>1. t = [m EXCEPT !.page = f, !.sub = 0]
    BY DEF PageAt
  <2> HIDE DEF t, f
  <2>2. t = [open |-> m.open, view |-> m.view, root |-> m.root, sub |-> 0, player |-> m.player,
             page |-> f]
    BY <2>1 DEF MenuType
  <2> QED
    BY <2>2 DEF f
<1>2. m.page \in [Paged -> Nat] /\ [m.page EXCEPT ![m.view] = k] \in [Paged -> Nat]
  BY DEF MenuType
<1>3. t \in MenuType
  <2>1. /\ m.open \in BOOLEAN /\ m.view \in Views /\ m.root \in 0 .. Len(Rows) - 1
        /\ m.player \in Nat \cup {NoPlayer}
    BY DEF MenuType
  <2> HIDE DEF t
  <2> QED
    BY <1>1, <1>2, <2>1 DEF MenuType
<1>4. SamePlace(t, m) /\ t.sub = 0 /\ t.page = [m.page EXCEPT ![m.view] = k]
  BY <1>1 DEF SamePlace
<1> HIDE DEF t
<1>5. t.page["recents"] = IF m.view = "recents" THEN k ELSE m.page["recents"]
  BY <1>2, <1>4, ViewsApart
<1>6. RecentsOK(t)
  BY <1>4, <1>5 DEF RecentsOK
<1> QED
  BY <1>3, <1>4, <1>6 DEF t

LEMMA RowAtFacts ==
  ASSUME NEW m \in MenuType, NEW i \in Nat
  PROVE  /\ RowAt(m, i) \in MenuType /\ SamePlace(RowAt(m, i), m)
         /\ RowAt(m, i).sub = i /\ RowAt(m, i).page = m.page
<1>1. RowAt(m, i) = [open |-> m.open, view |-> m.view, root |-> m.root, sub |-> i,
                     player |-> m.player, page |-> m.page]
  BY DEF RowAt, MenuType
<1>2. /\ m.open \in BOOLEAN /\ m.view \in Views /\ m.root \in 0 .. Len(Rows) - 1
      /\ m.player \in Nat \cup {NoPlayer} /\ m.page \in [Paged -> Nat]
  BY DEF MenuType
<1> QED
  BY <1>1, <1>2 DEF MenuType, SamePlace

LEMMA PagedRightFacts ==
  ASSUME ListsOK, NEW m \in MenuType, RecentsOK(m), NEW d
  PROVE  /\ PagedRight(m, d) \in MenuType /\ SamePlace(PagedRight(m, d), m)
         /\ RecentsOK(PagedRight(m, d))
         /\ ~Wants(d, "right") => PagedRight(m, d) = m
<1>1. CASE m.view \in Paged /\ Wants(d, "right") /\ m.page[m.view] < PageCount(m.view) - 1
  <2> DEFINE k == m.page[m.view] + 1
  <2>1. k \in Nat /\ k < PageCount(m.view)
    BY <1>1, OnPageFacts
  <2>2. PagedRight(m, d) = PageAt(m, k)
    BY <1>1 DEF PagedRight, PageAt
  <2> HIDE DEF k
  <2> QED
    BY <1>1, <2>1, <2>2, PageAtFacts
<1>2. CASE ~(m.view \in Paged /\ Wants(d, "right") /\ m.page[m.view] < PageCount(m.view) - 1)
  BY <1>2 DEF PagedRight, SamePlace
<1> QED
  BY <1>1, <1>2

OpenMenu == [menu EXCEPT !.open = TRUE]

LEMMA OpenMenuFacts ==
  ASSUME menu \in MenuType
  PROVE  /\ OpenMenu \in MenuType /\ OpenMenu.open = TRUE /\ OpenMenu.view = menu.view
         /\ OpenMenu.root = menu.root /\ OpenMenu.player = menu.player
         /\ OpenMenu.sub = menu.sub /\ OpenMenu.page = menu.page
         /\ RecentsOK(menu) => RecentsOK(OpenMenu)
<1>1. \A x \in BOOLEAN : [menu EXCEPT !.open = x] =
        [open |-> x, view |-> menu.view, root |-> menu.root, sub |-> menu.sub,
         player |-> menu.player, page |-> menu.page]
  BY DEF MenuType
<1>2. OpenMenu = [open |-> TRUE, view |-> menu.view, root |-> menu.root, sub |-> menu.sub,
                  player |-> menu.player, page |-> menu.page]
  BY <1>1, Zenon DEF OpenMenu
<1>3. /\ menu.view \in Views /\ menu.root \in 0 .. Len(Rows) - 1 /\ menu.sub \in Nat
      /\ menu.player \in Nat \cup {NoPlayer} /\ menu.page \in [Paged -> Nat]
  BY DEF MenuType
<1>4. OpenMenu \in MenuType
  BY <1>2, <1>3 DEF MenuType
<1> QED
  BY <1>2, <1>4 DEF RecentsOK, OnPage, Start

LEMMA TurnedFacts ==
  ASSUME ListsOK, menu \in MenuType, RecentsOK(menu), NEW d
  PROVE  /\ Turned(d) \in MenuType /\ SamePlace(Turned(d), OpenMenu) /\ RecentsOK(Turned(d))
         /\ ~Wants(d, "right") /\ ~Wants(d, "left") => Turned(d) = OpenMenu
<1> DEFINE q == PagedRight(OpenMenu, d)
<1>1. OpenMenu \in MenuType /\ RecentsOK(OpenMenu)
  BY OpenMenuFacts
<1>2. /\ q \in MenuType /\ SamePlace(q, OpenMenu) /\ RecentsOK(q)
      /\ ~Wants(d, "right") => q = OpenMenu
  BY <1>1, PagedRightFacts
<1>3. Turned(d) = IF TurnsLeft(q, d) THEN [q EXCEPT !.page[q.view] = @ - 1, !.sub = 0] ELSE q
  BY DEF Turned, OpenMenu
<1> HIDE DEF q
<1>4. CASE TurnsLeft(q, d)
  <2> DEFINE k == q.page[q.view] - 1
  <2>1. q.view \in Paged /\ q.page[q.view] > 0 /\ Wants(d, "left")
    BY <1>4 DEF TurnsLeft
  <2>2. q.page[q.view] \in Nat /\ PageCount(q.view) \in Nat
    BY <1>2, <2>1, OnPageFacts
  <2>3. Turned(d) = PageAt(q, k)
    BY <1>3, <1>4 DEF PageAt
  <2>4. k \in Nat
    BY <2>1, <2>2
  <2>5. q.view = "recents" => k < PageCount(q.view)
    BY <1>2, <2>2 DEF RecentsOK
  <2> HIDE DEF k
  <2>6. PageAt(q, k) \in MenuType /\ SamePlace(PageAt(q, k), q) /\ RecentsOK(PageAt(q, k))
    BY <1>2, <2>1, <2>4, <2>5, PageAtFacts
  <2> QED
    BY <1>2, <2>1, <2>3, <2>6 DEF SamePlace
<1>5. CASE ~TurnsLeft(q, d)
  BY <1>2, <1>3, <1>5
<1> QED
  BY <1>4, <1>5

ServersPage(m, k) == [m EXCEPT !.page["servers"] = k]

LEMMA ClampedFacts ==
  ASSUME ListsOK, NEW m \in MenuType, RecentsOK(m)
  PROVE  /\ Clamped(m) \in MenuType /\ SamePlace(Clamped(m), m) /\ RecentsOK(Clamped(m))
         /\ Clamped(m).sub = m.sub
         /\ m.view = "servers" => Clamped(m).page["servers"] < PageCount("servers")
         /\ m.view # "servers" \/ m.page["servers"] < PageCount("servers")
              => Clamped(m).page = m.page
<1>1. CASE m.view = "servers"
  <2> DEFINE k == Least(m.page["servers"], PageCount("servers") - 1)
             t == ServersPage(m, k)
             f == [m.page EXCEPT !["servers"] = k]
  <2>1. m.page["servers"] \in Nat /\ PageCount("servers") \in Nat \ {0}
    BY OnPageFacts, ViewsApart
  <2>2. k \in Nat /\ k < PageCount("servers")
        /\ (m.page["servers"] < PageCount("servers") => k = m.page["servers"])
    BY <2>1 DEF Least
  <2>3. Clamped(m) = t
    BY <1>1 DEF Clamped, ServersPage
  <2>4. /\ m.open \in BOOLEAN /\ m.view \in Views /\ m.root \in 0 .. Len(Rows) - 1
        /\ m.player \in Nat \cup {NoPlayer} /\ m.page \in [Paged -> Nat] /\ m.sub \in Nat
    BY DEF MenuType
  <2> HIDE DEF k
  <2>5. /\ f \in [Paged -> Nat] /\ f["servers"] = k /\ f["recents"] = m.page["recents"]
        /\ k = m.page["servers"] => f = m.page
    BY <2>2, <2>4, ViewsApart
  <2>6. t = [m EXCEPT !.page = f]
    BY DEF ServersPage
  <2> HIDE DEF t, f
  <2>7. t = [open |-> m.open, view |-> m.view, root |-> m.root, sub |-> m.sub,
             player |-> m.player, page |-> f]
    BY <2>6 DEF MenuType
  <2>8. t \in MenuType
    BY <2>4, <2>5, <2>7 DEF MenuType
  <2>9. SamePlace(t, m) /\ t.sub = m.sub /\ t.page = f
    BY <2>7 DEF SamePlace
  <2>10. RecentsOK(t)
    BY <1>1, <2>5, <2>9, ViewsApart DEF RecentsOK, SamePlace
  <2> QED
    BY <1>1, <2>2, <2>3, <2>5, <2>8, <2>9, <2>10
<1>2. CASE m.view # "servers"
  BY <1>2 DEF Clamped, SamePlace
<1> QED
  BY <1>1, <1>2

\* The selection is at a row, of the n players where it is among players.
RowOK(m, n) ==
  /\ m.view = "servers" => /\ m.page["servers"] < PageCount("servers")
                           /\ Count("servers") > 0 => m.sub < OnPage(m, "servers")
  /\ m.view = "recents" /\ Count("recents") > 0 => m.sub < OnPage(m, "recents")
  /\ m.view \notin Paged /\ Selectable(m, n) > 0 => m.sub < Selectable(m, n)

\* A page is begun at its first row.
LEMMA FirstRowOK ==
  ASSUME ListsOK, NEW m \in MenuType, NEW n \in Nat, m.sub = 0,
         m.view \in Paged => m.page[m.view] < PageCount(m.view)
  PROVE  RowOK(m, n)
<1>1. m.view \in Paged => OnPage(m, m.view) \in Nat
                          /\ (Count(m.view) > 0 => OnPage(m, m.view) > 0)
  BY OnPageFacts
<1>2. Selectable(m, n) \in Nat
  BY SelectableFacts
<1> QED
  BY <1>1, <1>2, ViewsApart DEF RowOK

LEMMA ActivatedFacts ==
  ASSUME ListsOK, NEW m \in MenuType, RecentsOK(m)
  PROVE  /\ Activated(m) \in MenuType /\ RecentsOK(Activated(m))
         /\ Activated(m).player = m.player
         /\ Activated(m).open => m.open /\ \A n \in Nat : RowOK(Activated(m), n)
         /\ Activated(m).view = m.view \/ Activated(m).sub = 0
<1> DEFINE v == Rows[m.root + 1]
<1>0. /\ m.open \in BOOLEAN /\ m.view \in Views /\ m.root \in 0 .. Len(Rows) - 1
      /\ m.player \in Nat \cup {NoPlayer} /\ m.page \in [Paged -> Nat] /\ m.sub \in Nat
  BY DEF MenuType
<1>1. CASE v = "exit"
  <2>1. Activated(m) = [m EXCEPT !.open = FALSE]
    BY <1>1 DEF Activated
  <2> DEFINE t == [m EXCEPT !.open = FALSE]
  <2>2. \A x \in BOOLEAN : [m EXCEPT !.open = x] =
          [open |-> x, view |-> m.view, root |-> m.root, sub |-> m.sub,
           player |-> m.player, page |-> m.page]
    BY DEF MenuType
  <2>3. t = [open |-> FALSE, view |-> m.view, root |-> m.root, sub |-> m.sub,
             player |-> m.player, page |-> m.page]
    BY <2>2, Zenon
  <2> HIDE DEF t
  <2>4. t \in MenuType /\ t.open = FALSE /\ t.player = m.player /\ t.view = m.view
        /\ t.sub = m.sub /\ t.page = m.page
    BY <1>0, <2>3 DEF MenuType
  <2>5. RecentsOK(t)
    BY <2>4 DEF RecentsOK, OnPage, Start
  <2> QED
    BY <2>1, <2>4, <2>5 DEF t
<1>2. CASE v # "exit"
  <2> DEFINE f == [p \in Paged |-> IF p = v THEN 0 ELSE m.page[p]]
             t == [m EXCEPT !.view = v, !.sub = 0, !.page = f]
  <2>1. Activated(m) = t
    BY <1>2 DEF Activated
  <2>2. v \in Views
    <3>1. m.root + 1 \in 1 .. Len(Rows)
      BY <1>0, RowsAssumption
    <3> QED
      BY <3>1 DEF Views
  <2>3. f \in [Paged -> Nat] /\ (v \in Paged => f[v] = 0)
        /\ f["recents"] = IF v = "recents" THEN 0 ELSE m.page["recents"]
    BY <1>0, ViewsApart
  <2> HIDE DEF f, v
  <2>4. t = [open |-> m.open, view |-> v, root |-> m.root, sub |-> 0,
             player |-> m.player, page |-> f]
    <3>1. t = WithPage(WithSub(WithView(m, v), 0), f)
      BY DEF WithPage, WithSub, WithView
    <3> HIDE DEF t
    <3>2. WithView(m, v) = MenuOf(m.open, v, m.root, m.sub, m.player, m.page)
      BY IsMenuOf, ChangedMenu
    <3>3. WithSub(WithView(m, v), 0) = MenuOf(m.open, v, m.root, 0, m.player, m.page)
      BY <3>2, ChangedMenu
    <3>4. t = MenuOf(m.open, v, m.root, 0, m.player, f)
      BY <3>1, <3>3, ChangedMenu
    <3> QED
      BY <3>4 DEF MenuOf
  <2> HIDE DEF t
  <2>5. t \in MenuType
    BY <1>0, <2>2, <2>3, <2>4 DEF MenuType
  <2>6. t.open = m.open /\ t.view = v /\ t.sub = 0 /\ t.player = m.player /\ t.page = f
    BY <2>4
  <2>7. \A w \in Paged : PageCount(w) \in Nat \ {0}
    BY OnPageFacts
  <2>8. RecentsOK(t)
    <3>1. PageCount("recents") \in Nat \ {0}
      BY <2>7, ViewsApart
    <3> QED
      BY <2>3, <2>6, <3>1 DEF RecentsOK
  <2>9. t.view \in Paged => t.page[t.view] < PageCount(t.view)
    BY <2>3, <2>6, <2>7
  <2>10. \A n \in Nat : RowOK(t, n)
    BY <2>5, <2>6, <2>9, FirstRowOK
  <2> QED
    BY <2>1, <2>5, <2>6, <2>8, <2>10
<1> QED
  BY <1>1, <1>2

OfPlayer(m, i) == [m EXCEPT !.player = i, !.sub = 0]

LEMMA OfPlayerFacts ==
  ASSUME NEW m \in MenuType, NEW i \in Nat \cup {NoPlayer}
  PROVE  /\ OfPlayer(m, i) \in MenuType /\ OfPlayer(m, i).player = i /\ OfPlayer(m, i).sub = 0
         /\ OfPlayer(m, i).open = m.open /\ OfPlayer(m, i).view = m.view
         /\ OfPlayer(m, i).page = m.page /\ OfPlayer(m, i).root = m.root
<1>1. OfPlayer(m, i) = [open |-> m.open, view |-> m.view, root |-> m.root, sub |-> 0,
                        player |-> i, page |-> m.page]
  <2>1. OfPlayer(m, i) = WithSub(WithPlayer(m, i), 0)
    BY DEF OfPlayer, WithSub, WithPlayer
  <2>2. WithPlayer(m, i) = MenuOf(m.open, m.view, m.root, m.sub, i, m.page)
    BY IsMenuOf, ChangedMenu
  <2>3. OfPlayer(m, i) = MenuOf(m.open, m.view, m.root, 0, i, m.page)
    BY <2>1, <2>2, ChangedMenu
  <2> QED
    BY <2>3 DEF MenuOf
<1>2. /\ m.open \in BOOLEAN /\ m.view \in Views /\ m.root \in 0 .. Len(Rows) - 1
      /\ m.page \in [Paged -> Nat]
  BY DEF MenuType
<1> QED
  BY <1>1, <1>2 DEF MenuType

\* What is chosen, wherever the selection is.
LEMMA ChosenFacts ==
  ASSUME ListsOK, NEW m \in MenuType, RecentsOK(m)
  PROVE  /\ Chosen(m) \in MenuType /\ RecentsOK(Chosen(m))
         /\ Chosen(m).open => m.open
         /\ m.view = Root => Chosen(m) = Activated(m)
         /\ m.view = "clients" /\ m.player = NoPlayer => Chosen(m) = OfPlayer(m, m.sub)
         /\ m.view # Root /\ ~(m.view = "clients" /\ m.player = NoPlayer) => Chosen(m) = m
<1>1. CASE m.view = Root
  <2>1. Chosen(m) = Activated(m)
    BY <1>1, ViewsApart DEF Chosen
  <2> QED
    BY <1>1, <2>1, ActivatedFacts, ViewsApart
<1>2. CASE m.view = "clients" /\ m.player = NoPlayer
  <2>1. Chosen(m) = OfPlayer(m, m.sub)
    BY <1>2, ViewsApart DEF Chosen, OfPlayer
  <2>2. m.sub \in Nat
    BY DEF MenuType
  <2>3. RecentsOK(OfPlayer(m, m.sub))
    <3>1. /\ OfPlayer(m, m.sub).page = m.page /\ OfPlayer(m, m.sub).view = m.view
      BY <2>2, OfPlayerFacts
    <3> QED
      BY <1>2, <3>1, ViewsApart DEF RecentsOK
  <2> QED
    BY <1>2, <2>1, <2>2, <2>3, OfPlayerFacts, ViewsApart
<1>3. CASE m.view # Root /\ ~(m.view = "clients" /\ m.player = NoPlayer)
  <2>1. Chosen(m) = m
    BY <1>3 DEF Chosen
  <2> QED
    BY <1>3, <2>1
<1> QED
  BY <1>1, <1>2, <1>3

LEMMA BackedFacts ==
  ASSUME ListsOK, NEW m \in MenuType, RecentsOK(m)
  PROVE  /\ Backed(m) \in MenuType /\ RecentsOK(Backed(m))
         /\ Backed(m).open = m.open /\ Backed(m).player = NoPlayer
         /\ \A n \in Nat : RowOK(Backed(m), n)
         /\ Backed(m).view \in {Root, "clients"} /\ Backed(m).sub = 0
<1>1. CASE m.view = "clients" /\ m.player >= 0
  <2> DEFINE t == OfPlayer(m, NoPlayer)
  <2>1. Backed(m) = t
    BY <1>1 DEF Backed, OfPlayer
  <2>2. t \in MenuType /\ t.player = NoPlayer /\ t.sub = 0 /\ t.open = m.open
        /\ t.view = "clients" /\ t.page = m.page
    BY <1>1, OfPlayerFacts
  <2> HIDE DEF t
  <2>3. RecentsOK(t)
    BY <2>2, ViewsApart DEF RecentsOK
  <2>4. \A n \in Nat : RowOK(t, n)
    BY <2>2, FirstRowOK, ViewsApart
  <2> QED
    BY <2>1, <2>2, <2>3, <2>4
<1>2. CASE ~(m.view = "clients" /\ m.player >= 0)
  <2> DEFINE f == [m.page EXCEPT !["recents"] = 0]
             t == [m EXCEPT !.view = Root, !.sub = 0, !.player = NoPlayer, !.page = f]
  <2>1. Backed(m) = t
    BY <1>2 DEF Backed
  <2>2. /\ m.open \in BOOLEAN /\ m.root \in 0 .. Len(Rows) - 1 /\ m.page \in [Paged -> Nat]
    BY DEF MenuType
  <2>3. f \in [Paged -> Nat] /\ f["recents"] = 0
    BY <2>2, ViewsApart
  <2> HIDE DEF f
  <2>4. t = [open |-> m.open, view |-> Root, root |-> m.root, sub |-> 0, player |-> NoPlayer,
             page |-> f]
    <3>1. t = WithPage(WithPlayer(WithSub(WithView(m, Root), 0), NoPlayer), f)
      BY DEF WithPage, WithPlayer, WithSub, WithView
    <3> HIDE DEF t
    <3>2. WithView(m, Root) = MenuOf(m.open, Root, m.root, m.sub, m.player, m.page)
      BY IsMenuOf, ChangedMenu
    <3>3. WithSub(WithView(m, Root), 0)
            = MenuOf(m.open, Root, m.root, 0, m.player, m.page)
      BY <3>2, ChangedMenu
    <3>4. WithPlayer(WithSub(WithView(m, Root), 0), NoPlayer)
            = MenuOf(m.open, Root, m.root, 0, NoPlayer, m.page)
      BY <3>3, ChangedMenu
    <3>5. t = MenuOf(m.open, Root, m.root, 0, NoPlayer, f)
      BY <3>1, <3>4, ChangedMenu
    <3> QED
      BY <3>5 DEF MenuOf
  <2> HIDE DEF t
  <2>5. t \in MenuType
    BY <2>2, <2>3, <2>4 DEF MenuType, Views
  <2>6. t.open = m.open /\ t.view = Root /\ t.sub = 0 /\ t.player = NoPlayer /\ t.page = f
    BY <2>4
  <2>7. PageCount("recents") \in Nat \ {0}
    BY OnPageFacts, ViewsApart
  <2>8. RecentsOK(t)
    BY <2>3, <2>6, <2>7, ViewsApart DEF RecentsOK
  <2>9. \A n \in Nat : RowOK(t, n)
    BY <2>5, <2>6, FirstRowOK, ViewsApart
  <2> QED
    BY <2>1, <2>5, <2>6, <2>8, <2>9
<1> QED
  BY <1>1, <1>2

\* Up and down stay among the rows.
LEMMA MovedFacts ==
  ASSUME NEW n \in Nat \ {0}, NEW i \in 0 .. n - 1, NEW d
  PROVE  /\ Moved(i, n, d) \in 0 .. n - 1
         /\ ~Wants(d, "up") /\ ~Wants(d, "down") => Moved(i, n, d) = i
<1>1. \A a \in Int : a % n \in 0 .. n - 1
  BY Euclid
<1> DEFINE u == IF Wants(d, "up") THEN (i - 1 + n) % n ELSE i
<1>2. u \in 0 .. n - 1
  <2>1. i - 1 + n \in Int
    OBVIOUS
  <2> QED
    BY <1>1, <2>1
<1>3. Moved(i, n, d) = IF Wants(d, "down") THEN (u + 1) % n ELSE u
  BY DEF Moved
<1>4. ~Wants(d, "up") => u = i
  OBVIOUS
<1> HIDE DEF u
<1>5. (u + 1) % n \in 0 .. n - 1
  <2>1. u + 1 \in Int
    BY <1>2
  <2> QED
    BY <1>1, <2>1
<1> QED
  BY <1>2, <1>3, <1>4, <1>5

-----------------------------------------------------------------------------
(* What is reached and what is drawn.                                       *)

LEMMA PlayerTarget ==
  ASSUME NEW ps \in FoundType, NEW i \in Nat, i < Len(ps.list)
  PROVE  {<<"player", ps.list[i + 1]>>} \in SUBSET Targets
<1>1. ps.list \in Seq(Players) /\ i + 1 \in 1 .. Len(ps.list)
  BY DEF FoundType
<1>2. ps.list[i + 1] \in Players
  BY <1>1, ElementOfSeq
<1>3. <<"player", ps.list[i + 1]>> \in {"player"} \X Players
  BY <1>2
<1> QED
  BY <1>3 DEF Targets

LEMMA ServerTarget ==
  ASSUME ListsOK, NEW m \in MenuType
  PROVE  ServerAt(m) \in SUBSET Targets
<1> DEFINE i == Start(m, "servers") + m.sub
<1>1. i \in Nat
  <2>1. Start(m, "servers") \in Nat
    BY OnPageFacts, ViewsApart
  <2>2. m.sub \in Nat
    BY DEF MenuType
  <2> QED
    BY <2>1, <2>2
<1>2. ServerAt(m) = IF i < Len(servers) THEN {<<"server", servers[i + 1]>>} ELSE {}
  BY DEF ServerAt
<1> HIDE DEF i
<1>3. ASSUME i < Len(servers) PROVE {<<"server", servers[i + 1]>>} \in SUBSET Targets
  <2>1. servers \in Seq(Hosts) /\ i + 1 \in 1 .. Len(servers)
    BY <1>1, <1>3 DEF ListsOK
  <2>2. servers[i + 1] \in Hosts
    BY <2>1, ElementOfSeq
  <2>3. <<"server", servers[i + 1]>> \in {"server"} \X Hosts
    BY <2>2
  <2> QED
    BY <2>3 DEF Targets
<1> QED
  BY <1>2, <1>3

LEMMA ItemTarget ==
  ASSUME NEW v \in DOMAIN Items, NEW i \in Nat, i < Items[v]
  PROVE  {<<v, i>>} \in SUBSET Targets
<1>1. i \in 0 .. Items[v] - 1
  BY SizeAssumption
<1>2. <<v, i>> \in {v} \X (0 .. Items[v] - 1)
  BY <1>1
<1> QED
  BY <1>2 DEF Targets

\* View by view.
LEMMA ReachesIs ==
  ASSUME NEW m \in MenuType, NEW ps
  PROVE  /\ m.view = "clients" =>
              Reaches(m, ps) = IF m.player >= 0 /\ m.sub = 0
                               THEN {<<"player", ps.list[m.player + 1]>>} ELSE {}
         /\ m.view = "servers" => Reaches(m, ps) = ServerAt(m)
         /\ m.view \in DOMAIN Items =>
              Reaches(m, ps) = IF m.sub < Items[m.view] THEN {<<m.view, m.sub>>} ELSE {}
         /\ m.view \notin {"clients", "servers"} \cup DOMAIN Items => Reaches(m, ps) = {}
<1>1. CASE m.view = "clients"
  BY <1>1, ViewsApart DEF Reaches
<1>2. CASE m.view = "servers"
  BY <1>2, ViewsApart DEF Reaches
<1>3. CASE m.view \in DOMAIN Items
  BY <1>3, ViewsApart DEF Reaches
<1>4. CASE m.view \notin {"clients", "servers"} \cup DOMAIN Items
  BY <1>4 DEF Reaches
<1> QED
  BY <1>1, <1>2, <1>3, <1>4

LEMMA DrawnIs ==
  ASSUME NEW m \in MenuType, NEW ps
  PROVE  /\ m.view = "clients" => Drawn(m, ps) = DrawnPlayer(m, ps)
         /\ m.view = "servers" => Drawn(m, ps) = DrawnServer(m)
         /\ m.view \in DOMAIN Items => Drawn(m, ps) = DrawnItem(m)
         /\ m.view \notin {"clients", "servers"} \cup DOMAIN Items => Drawn(m, ps) = {}
<1>1. CASE m.view = "clients"
  BY <1>1, ViewsApart DEF Drawn
<1>2. CASE m.view = "servers"
  BY <1>2, ViewsApart DEF Drawn
<1>3. CASE m.view \in DOMAIN Items
  BY <1>3, ViewsApart DEF Drawn
<1>4. CASE m.view \notin {"clients", "servers"} \cup DOMAIN Items
  BY <1>4 DEF Drawn
<1> QED
  BY <1>1, <1>2, <1>3, <1>4

LEMMA ReachesType ==
  ASSUME ListsOK, NEW m \in MenuType, NEW ps \in FoundType, m.player < Len(ps.list)
  PROVE  Reaches(m, ps) \in SUBSET Targets
<1>1. m.sub \in Nat /\ m.player \in Nat \cup {NoPlayer} /\ (m.player >= 0 => m.player \in Nat)
  BY DEF MenuType, NoPlayer
<1>2. CASE m.view = "clients"
  BY <1>1, <1>2, PlayerTarget, ReachesIs
<1>3. CASE m.view = "servers"
  BY <1>3, ServerTarget, ReachesIs
<1>4. CASE m.view \in DOMAIN Items
  BY <1>1, <1>4, ItemTarget, ReachesIs
<1>5. CASE m.view \notin {"clients", "servers"} \cup DOMAIN Items
  BY <1>5, ReachesIs
<1> QED
  BY <1>2, <1>3, <1>4, <1>5

LEMMA DrawnType ==
  ASSUME ListsOK, NEW m \in MenuType, NEW ps \in FoundType, ps.n <= Len(ps.list)
  PROVE  Drawn(m, ps) \in SUBSET Targets
<1>1. m.sub \in Nat /\ m.player \in Nat \cup {NoPlayer} /\ (m.player >= 0 => m.player \in Nat)
  BY DEF MenuType, NoPlayer
<1>2. CASE m.view = "clients"
  <2> DEFINE i == IF m.player >= 0 THEN m.player ELSE m.sub
  <2>1. i \in Nat
    BY <1>1
  <2>2. Drawn(m, ps) = IF i < ps.n THEN {<<"player", ps.list[i + 1]>>} ELSE {}
    BY <1>2, DrawnIs DEF DrawnPlayer
  <2>3. ps.n \in Nat /\ Len(ps.list) \in Nat
    BY DEF FoundType
  <2> HIDE DEF i
  <2>4. i < ps.n => i < Len(ps.list)
    BY <2>1, <2>3
  <2> QED
    BY <2>1, <2>2, <2>4, PlayerTarget
<1>3. CASE m.view = "servers"
  BY <1>3, ServerTarget, DrawnIs DEF DrawnServer
<1>4. CASE m.view \in DOMAIN Items
  BY <1>1, <1>4, ItemTarget, DrawnIs DEF DrawnItem
<1>5. CASE m.view \notin {"clients", "servers"} \cup DOMAIN Items
  BY <1>5, DrawnIs
<1> QED
  BY <1>2, <1>3, <1>4, <1>5

\* Choosing reaches what is drawn, if anything is.
LEMMA ReachesDrawn ==
  ASSUME NEW m \in MenuType, NEW ps
  PROVE  Drawn(m, ps) = {} \/ Reaches(m, ps) \subseteq Drawn(m, ps)
<1>1. CASE m.view = "clients"
  BY <1>1, ReachesIs, DrawnIs DEF DrawnPlayer
<1>2. CASE m.view = "servers"
  BY <1>2, ReachesIs, DrawnIs DEF DrawnServer
<1>3. CASE m.view \in DOMAIN Items
  BY <1>3, ReachesIs, DrawnIs DEF DrawnItem
<1>4. CASE m.view \notin {"clients", "servers"} \cup DOMAIN Items
  BY <1>4, ReachesIs
<1> QED
  BY <1>1, <1>2, <1>3, <1>4

-----------------------------------------------------------------------------
(* The menu through a frame.                                                *)

PlayersOK == /\ players \in FoundType /\ players.n <= Len(players.list)
             /\ menu.player < Len(players.list)

MenuInv ==
  /\ TypeOK /\ menu.player < Len(players.list) /\ RecentsOK(menu)
  /\ pc = "gate" /\ menu.open => RowOK(menu, players.n)

\* How handle_input leaves the menu, and what it has reached: no more than was drawn if
\* no arrow has moved the selection.
Still(d) == ~Wants(d, "up") /\ ~Wants(d, "down") /\ ~Wants(d, "left") /\ ~Wants(d, "right")
Handled(d, m, r) ==
  /\ Handles(d, m, r) /\ m \in MenuType /\ r \in SUBSET Targets
  /\ players' \in FoundType /\ players'.n <= Len(players'.list) /\ m.player < Len(players'.list)
  /\ RecentsOK(m) /\ (m.open => RowOK(m, players'.n))
  /\ Still(d) => Drawn(menu, players) = {} \/ r \subseteq Drawn(menu, players)

\* How the body leaves it.
BodyDone(m, ps, r) ==
  /\ Draws(m, ps, r) /\ m \in MenuType /\ r \in SUBSET Targets
  /\ ps \in FoundType /\ ps.n <= Len(ps.list) /\ m.player < Len(ps.list)
  /\ RecentsOK(m) /\ (m.open => menu.open)
  /\ Drawn(m, ps) = {} \/ r \subseteq Drawn(m, ps)

LEMMA MenuParts ==
  ASSUME MenuInv
  PROVE  ListsOK /\ PlayersOK /\ menu \in MenuType /\ RecentsOK(menu) /\ menu.open \in BOOLEAN
<1>1. TypeOK /\ RecentsOK(menu) /\ menu.player < Len(players.list)
  BY DEF MenuInv
<1>2. menu \in MenuType
  BY <1>1 DEF TypeOK, MenuType, Views
<1>3. players \in FoundType /\ players.n <= Len(players.list)
  BY <1>1 DEF TypeOK, FoundType
<1>4. servers \in Seq(Hosts)
  BY <1>1, ListsType, SizeAssumption DEF TypeOK
<1>5. recents \in 0 .. MaxRecents
  BY <1>1 DEF TypeOK
<1>6. menu.open \in BOOLEAN
  BY <1>2 DEF MenuType
<1> QED
  BY <1>1, <1>2, <1>3, <1>4, <1>5, <1>6 DEF ListsOK, PlayersOK

LEMMA ClosedHandled ==
  ASSUME MenuInv, NEW d \in Inputs, InputClosed(d)
  PROVE  \E m, r : Handled(d, m, r)
<1> DEFINE m == [menu EXCEPT !.open = FALSE]
<1>1. \A x \in BOOLEAN : [menu EXCEPT !.open = x] =
        [open |-> x, view |-> menu.view, root |-> menu.root, sub |-> menu.sub,
         player |-> menu.player, page |-> menu.page]
  BY MenuParts DEF MenuType
<1>2. m = [open |-> FALSE, view |-> menu.view, root |-> menu.root, sub |-> menu.sub,
           player |-> menu.player, page |-> menu.page]
  BY <1>1, Zenon
<1>3. /\ menu.view \in Views /\ menu.root \in 0 .. Len(Rows) - 1 /\ menu.sub \in Nat
      /\ menu.player \in Nat \cup {NoPlayer} /\ menu.page \in [Paged -> Nat]
  BY MenuParts DEF MenuType
<1>4. Handles(d, m, {}) /\ players' = players
  BY DEF InputClosed
<1> HIDE DEF m
<1>5. m \in MenuType
  BY <1>2, <1>3 DEF MenuType
<1>6. m.open = FALSE /\ m.view = menu.view /\ m.sub = menu.sub /\ m.player = menu.player
      /\ m.page = menu.page
  BY <1>2
<1>7. RecentsOK(m)
  BY <1>6, MenuParts DEF RecentsOK, OnPage, Start
<1>8. players' \in FoundType /\ players'.n <= Len(players'.list) /\ m.player < Len(players'.list)
  BY <1>4, <1>6, MenuParts DEF PlayersOK
<1>9. Handled(d, m, {})
  BY <1>4, <1>5, <1>6, <1>7, <1>8 DEF Handled
<1> QED
  BY <1>9

RootMenu(x, i) == [menu EXCEPT !.open = x, !.root = i]

LEMMA RootHandled ==
  ASSUME MenuInv, NEW d \in Inputs, InputRoot(d)
  PROVE  \E m, r : Handled(d, m, r)
<1> DEFINE i == IF Wants(d, "left") THEN menu.root ELSE Moved(menu.root, Len(Rows), d)
           m == RootMenu(~Wants(d, "left"), i)
           t == IF m.open /\ Wants(d, "enter") THEN Chosen(m) ELSE m
<1>0. /\ menu.view = Root /\ menu.root \in 0 .. Len(Rows) - 1 /\ menu.sub \in Nat
      /\ menu.player \in Nat \cup {NoPlayer} /\ menu.page \in [Paged -> Nat]
      /\ menu.view \in Views
  BY MenuParts DEF MenuType, InputRoot
<1>1. Handles(d, t, {}) /\ players' = players
  BY DEF InputRoot, RootMenu
<1>2. i \in 0 .. Len(Rows) - 1
  <2>1. Len(Rows) \in Nat \ {0}
    BY RowsAssumption
  <2> QED
    BY <1>0, <2>1, MovedFacts
<1> HIDE DEF i
<1>3. \A x \in BOOLEAN : RootMenu(x, i) =
        [open |-> x, view |-> menu.view, root |-> i, sub |-> menu.sub,
         player |-> menu.player, page |-> menu.page]
  <2> TAKE x \in BOOLEAN
  <2>1. RootMenu(x, i) = [[menu EXCEPT !.open = x] EXCEPT !.root = i]
    BY DEF RootMenu
  <2>2. [menu EXCEPT !.open = x] = [open |-> x, view |-> menu.view, root |-> menu.root,
         sub |-> menu.sub, player |-> menu.player, page |-> menu.page]
    BY MenuParts DEF MenuType
  <2> QED
    BY <2>1, <2>2
<1>4. m = [open |-> ~Wants(d, "left"), view |-> menu.view, root |-> i, sub |-> menu.sub,
           player |-> menu.player, page |-> menu.page]
  <2>1. (~Wants(d, "left")) \in BOOLEAN
    BY Zenon DEF Wants
  <2> QED
    BY <1>3, <2>1, Zenon
<1>5. \A x \in BOOLEAN : [open |-> x, view |-> menu.view, root |-> i, sub |-> menu.sub,
         player |-> menu.player, page |-> menu.page] \in MenuType
  BY <1>0, <1>2 DEF MenuType
<1>6. m \in MenuType
  <2>1. (~Wants(d, "left")) \in BOOLEAN
    BY Zenon DEF Wants
  <2> QED
    BY <1>4, <1>5, <2>1, Zenon
<1>7. m.view = Root /\ m.sub = menu.sub /\ m.player = menu.player /\ m.page = menu.page
  BY <1>0, <1>4
<1> HIDE DEF m
<1>8. RecentsOK(m)
  BY <1>0, <1>7, MenuParts, ViewsApart DEF RecentsOK
<1>9. \A n \in Nat : RowOK(m, n)
  <2>1. \A n \in Nat : Selectable(m, n) = 0
    BY <1>6, <1>7, MenuParts, SelectableFacts, ViewsApart
  <2> QED
    BY <1>7, <2>1, ViewsApart DEF RowOK
<1>10. t \in MenuType /\ RecentsOK(t) /\ t.player = m.player
       /\ (t.open => \A n \in Nat : RowOK(t, n))
  <2>1. CASE m.open /\ Wants(d, "enter")
    <3>1. t = Activated(m)
      BY <1>6, <1>7, <1>8, <2>1, MenuParts, ChosenFacts
    <3> QED
      BY <1>6, <1>8, <3>1, MenuParts, ActivatedFacts
  <2>2. CASE ~(m.open /\ Wants(d, "enter"))
    BY <1>6, <1>8, <1>9, <2>2
  <2> QED
    BY <2>1, <2>2
<1> HIDE DEF t
<1>11. players' \in FoundType /\ players'.n <= Len(players'.list) /\ t.player < Len(players'.list)
       /\ players'.n \in Nat
  BY <1>1, <1>7, <1>10, MenuParts DEF PlayersOK, FoundType
<1>12. Handled(d, t, {})
  BY <1>1, <1>10, <1>11 DEF Handled
<1> QED
  BY <1>12

\* J joins in the list of servers only.
LEMMA JoinedFacts ==
  ASSUME MenuInv, NEW d
  PROVE  /\ Joined(Turned(d), d) \in SUBSET Targets
         /\ Still(d) => Drawn(menu, players) = {}
                        \/ Joined(Turned(d), d) \subseteq Drawn(menu, players)
<1>1. Turned(d) \in MenuType /\ (Still(d) => Turned(d) = OpenMenu)
  BY MenuParts, TurnedFacts DEF Still
<1>2. Joined(Turned(d), d) \in SUBSET Targets
  BY <1>1, MenuParts, ServerTarget DEF Joined
<1>3. Wants(d, "join") => menu.view = "servers"
  <2> SUFFICES ASSUME NEW b \in Reacts(d), b[2] = "join" PROVE menu.view = "servers"
    BY DEF Wants
  <2>1. b \in Polled(d)
    BY DEF Reacts
  <2>2. b \notin {Insert} \cup ({"key", "pad"} \X Wishes)
    BY DEF Insert, Wishes
  <2> QED
    BY <2>1, <2>2 DEF Polled
<1>4. ServerAt(OpenMenu) = ServerAt(menu)
  <2>1. OpenMenu.page = menu.page /\ OpenMenu.sub = menu.sub
    BY MenuParts, OpenMenuFacts
  <2> QED
    BY <2>1 DEF ServerAt, Start
<1>5. menu.view = "servers" => Drawn(menu, players) = DrawnServer(menu)
  BY MenuParts, DrawnIs
<1> QED
  BY <1>1, <1>2, <1>3, <1>4, <1>5 DEF Joined, DrawnServer

LEMMA BackHandled ==
  ASSUME MenuInv, NEW d \in Inputs, InputBack(d)
  PROVE  \E m, r : Handled(d, m, r)
<1> DEFINE m == Backed(Turned(d))
<1>1. Handles(d, m, Joined(Turned(d), d)) /\ players' = players
  BY DEF InputBack
<1>2. Turned(d) \in MenuType /\ RecentsOK(Turned(d))
  BY MenuParts, TurnedFacts
<1>3. m \in MenuType /\ RecentsOK(m) /\ m.player = NoPlayer /\ \A n \in Nat : RowOK(m, n)
  BY <1>2, MenuParts, BackedFacts
<1> HIDE DEF m
<1>4. players' \in FoundType /\ players'.n <= Len(players'.list) /\ players'.n \in Nat
  BY <1>1, MenuParts DEF PlayersOK, FoundType
<1>5. m.player < Len(players'.list)
  BY <1>3, <1>4 DEF NoPlayer, FoundType
<1>6. Handled(d, m, Joined(Turned(d), d))
  BY <1>1, <1>3, <1>4, <1>5, JoinedFacts DEF Handled
<1> QED
  BY <1>6

\* What the lists come to depends on the page only.
LEMMA SamePage ==
  ASSUME NEW m, NEW t, t.page = m.page
  PROVE  \A v \in Paged : OnPage(t, v) = OnPage(m, v) /\ Start(t, v) = Start(m, v)
  BY DEF OnPage, Start

LEMMA ListHandled ==
  ASSUME MenuInv, NEW d \in Inputs, InputList(d)
  PROVE  \E m, r : Handled(d, m, r)
<1>0. menu.view # Root /\ ListsOK /\ PlayersOK /\ menu \in MenuType /\ RecentsOK(menu)
  BY MenuParts DEF InputList
<1> DEFINE t == Turned(d)
           m == Clamped(t)
           n(ps) == Selectable(m, ps.n)
           i(ps) == IF n(ps) = 0 THEN m.sub ELSE Moved(Least(m.sub, n(ps) - 1), n(ps), d)
           s(ps) == WithSub(m, i(ps))
           e(ps) == Wants(d, "enter") /\ n(ps) > 0
           z(ps) == IF e(ps) THEN Chosen(s(ps)) ELSE s(ps)
           r(ps) == Joined(t, d) \cup (IF e(ps) THEN Reaches(s(ps), ps) ELSE {})
<1>1. PICK ps \in Knows(menu) : Handles(d, z(ps), r(ps)) /\ players' = ps
  BY DEF InputList, WithSub
<1>2. /\ ps \in FoundType /\ ps.n <= Len(ps.list) /\ Len(players.list) <= Len(ps.list)
      /\ menu.view = "clients" /\ menu.player # NoPlayer => ps = players
      /\ ps.n \in Nat
  <2>1. players \in FoundType /\ players.n <= Len(players.list) /\ Len(players.list) \in Nat
    BY <1>0 DEF PlayersOK, FoundType
  <2>2. CASE menu.view = "clients" /\ menu.player = NoPlayer
    <3>1. PICK lobby \in Lists(Players) : ps = Gathered(lobby)
      BY <2>2 DEF Knows
    <3>2. ps \in FoundType
      BY <2>1, <3>1, GatheredType
    <3> QED
      BY <2>1, <2>2, <3>1, <3>2, GatheredType DEF FoundType
  <2>3. CASE ~(menu.view = "clients" /\ menu.player = NoPlayer)
    <3>1. ps = players
      BY <2>3 DEF Knows
    <3> QED
      BY <2>1, <3>1 DEF FoundType
  <2> QED
    BY <2>2, <2>3
<1>3. t \in MenuType /\ SamePlace(t, OpenMenu) /\ RecentsOK(t) /\ (Still(d) => t = OpenMenu)
  BY <1>0, TurnedFacts DEF Still
<1> HIDE DEF t
<1>4. /\ m \in MenuType /\ SamePlace(m, t) /\ RecentsOK(m)
      /\ m.view = "servers" => m.page["servers"] < PageCount("servers")
      /\ t.view # "servers" \/ t.page["servers"] < PageCount("servers") => m.page = t.page
      /\ m.sub = t.sub
  BY <1>0, <1>3, ClampedFacts DEF SamePlace
<1> HIDE DEF m
<1>5. m.view = menu.view /\ m.player = menu.player /\ m.sub \in Nat
  BY <1>0, <1>3, <1>4, OpenMenuFacts DEF SamePlace, MenuType
<1>6. n(ps) \in Nat /\ i(ps) \in Nat /\ (n(ps) > 0 => i(ps) < n(ps))
      /\ (n(ps) > 0 /\ Still(d) /\ m.sub < n(ps) => i(ps) = m.sub)
  <2> DEFINE k == n(ps)
             j == Least(m.sub, k - 1)
  <2>1. k \in Nat
    BY <1>0, <1>2, <1>4, SelectableFacts
  <2> HIDE DEF k
  <2>2. k > 0 => k \in Nat \ {0} /\ j \in 0 .. k - 1 /\ (m.sub < k => j = m.sub)
    BY <1>5, <2>1 DEF Least
  <2> HIDE DEF j
  <2>3. k > 0 => Moved(j, k, d) \in 0 .. k - 1 /\ (Still(d) => Moved(j, k, d) = j)
    BY <2>2, MovedFacts DEF Still
  <2>4. i(ps) = IF k = 0 THEN m.sub ELSE Moved(j, k, d)
    BY DEF k, j
  <2> HIDE DEF i
  <2>5. i(ps) \in Nat /\ (k > 0 => i(ps) < k) /\ (k > 0 /\ Still(d) /\ m.sub < k => i(ps) = m.sub)
    BY <1>5, <2>1, <2>2, <2>3, <2>4
  <2> QED
    BY <2>1, <2>5 DEF k
<1>7. s(ps) \in MenuType /\ SamePlace(s(ps), m) /\ s(ps).sub = i(ps) /\ s(ps).page = m.page
  <2>1. i(ps) \in Nat
    BY <1>6
  <2> HIDE DEF i
  <2>2. s(ps) = RowAt(m, i(ps))
    BY DEF WithSub, RowAt
  <2> QED
    BY <1>4, <2>1, <2>2, RowAtFacts
<1>8. \A v \in Paged : OnPage(s(ps), v) = OnPage(m, v) /\ Start(s(ps), v) = Start(m, v)
  BY <1>7, SamePage
<1> HIDE DEF i, s
<1>9. s(ps).view = menu.view /\ s(ps).player = menu.player
  BY <1>5, <1>7 DEF SamePlace
<1>10. \A v \in Paged : menu.view = v => n(ps) = OnPage(m, v)
  BY <1>0, <1>2, <1>4, <1>5, SelectableFacts
<1>11. RecentsOK(s(ps))
  <2>1. s(ps).page["recents"] < PageCount("recents")
    BY <1>4, <1>7 DEF RecentsOK
  <2>2. menu.view = "recents" => s(ps).sub = 0 \/ s(ps).sub < OnPage(s(ps), "recents")
    <3> SUFFICES ASSUME menu.view = "recents"
                 PROVE  s(ps).sub = 0 \/ s(ps).sub < OnPage(m, "recents")
      BY <1>8, ViewsApart
    <3>1. n(ps) = OnPage(m, "recents")
      BY <1>10, ViewsApart
    <3>2. CASE n(ps) > 0
      BY <1>6, <1>7, <3>1, <3>2
    <3>3. CASE n(ps) = 0
      <4>1. s(ps).sub = m.sub
        BY <1>7, <3>3 DEF i
      <4> QED
        BY <1>4, <1>5, <1>8, <3>1, <4>1 DEF RecentsOK
    <3> QED
      BY <1>6, <3>2, <3>3
  <2> QED
    BY <1>9, <2>1, <2>2 DEF RecentsOK
<1>12. RowOK(s(ps), ps.n)
  <2>1. \A v \in Paged : menu.view = v /\ Count(v) > 0 => s(ps).sub < OnPage(s(ps), v)
    <3> SUFFICES ASSUME NEW v \in Paged, menu.view = v, Count(v) > 0
                 PROVE  s(ps).sub < OnPage(m, v)
      BY <1>8
    <3>1. m.page[v] < PageCount(v)
      BY <1>4, <1>5 DEF Paged, RecentsOK
    <3>2. OnPage(m, v) > 0
      BY <1>0, <1>4, <3>1, OnPageFacts
    <3> QED
      BY <1>6, <1>7, <1>10, <3>2
  <2>2. menu.view \notin Paged => Selectable(s(ps), ps.n) = n(ps)
    BY <1>5, <1>9 DEF Selectable
  <2>3. menu.view = "servers" => s(ps).page["servers"] < PageCount("servers")
    BY <1>4, <1>5, <1>7
  <2> QED
    BY <1>6, <1>7, <1>9, <2>1, <2>2, <2>3, ViewsApart DEF RowOK
<1>13. menu.player < Len(ps.list)
  <2>1. menu.player \in Int /\ Len(players.list) \in Nat /\ Len(ps.list) \in Nat
        /\ menu.player < Len(players.list)
    BY <1>0, <1>2 DEF PlayersOK, MenuType, FoundType, NoPlayer
  <2> QED
    BY <1>2, <2>1
<1>14. /\ z(ps) \in MenuType /\ RecentsOK(z(ps)) /\ z(ps).player < Len(ps.list)
       /\ RowOK(z(ps), ps.n)
  <2>1. CASE e(ps) /\ menu.view = "clients" /\ menu.player = NoPlayer
    <3>1. z(ps) = OfPlayer(s(ps), s(ps).sub)
      BY <1>0, <1>7, <1>9, <1>11, <2>1, ChosenFacts
    <3>2. s(ps).sub \in Nat /\ s(ps).sub < Len(ps.list)
      <4>1. n(ps) = ps.n
        <5>1. m.view = "clients" /\ ~(m.player >= 0)
          BY <1>5, <2>1 DEF NoPlayer
        <5>2. Selectable(m, ps.n) = IF m.player >= 0 THEN 1 ELSE ps.n
          BY <1>0, <1>2, <1>4, <5>1, SelectableFacts
        <5> QED
          BY <5>1, <5>2
      <4>2. i(ps) < ps.n
        BY <1>6, <2>1, <4>1
      <4> QED
        BY <1>2, <1>6, <1>7, <4>2 DEF FoundType
    <3>3. z(ps) \in MenuType /\ z(ps).player = s(ps).sub /\ z(ps).sub = 0 /\ z(ps).view = "clients"
      <4> DEFINE k == s(ps).sub
                 q == s(ps)
      <4>1. k \in Nat /\ q \in MenuType /\ q.view = "clients" /\ z(ps) = OfPlayer(q, k)
        BY <1>7, <1>9, <2>1, <3>1, <3>2
      <4> HIDE DEF k, q, z
      <4>2. z(ps) \in MenuType /\ z(ps).player = k /\ z(ps).sub = 0 /\ z(ps).view = "clients"
        BY <4>1, OfPlayerFacts
      <4> QED
        BY <4>2 DEF k
    <3>4. RecentsOK(z(ps))
      BY <1>0, <1>7, <1>11, <2>1, ChosenFacts
    <3>5. RowOK(z(ps), ps.n)
      BY <1>0, <1>2, <3>3, FirstRowOK, ViewsApart
    <3> QED
      BY <3>2, <3>3, <3>4, <3>5
  <2>2. CASE ~(e(ps) /\ menu.view = "clients" /\ menu.player = NoPlayer)
    <3>1. z(ps) = s(ps)
      BY <1>0, <1>7, <1>9, <1>11, <2>2, ChosenFacts
    <3> QED
      BY <1>7, <1>9, <1>11, <1>12, <1>13, <3>1
  <2> QED
    BY <2>1, <2>2
<1>15. Joined(t, d) \in SUBSET Targets
       /\ (Still(d) => Drawn(menu, players) = {} \/ Joined(t, d) \subseteq Drawn(menu, players))
  BY JoinedFacts DEF t
<1>16. Reaches(s(ps), ps) \in SUBSET Targets
  BY <1>0, <1>2, <1>7, <1>9, <1>13, ReachesType
<1>17. Still(d) /\ n(ps) > 0 => Drawn(menu, players) = {}
                                \/ Reaches(s(ps), ps) \subseteq Drawn(menu, players)
  <2> SUFFICES ASSUME Still(d), n(ps) > 0, Drawn(menu, players) # {}
               PROVE  Reaches(s(ps), ps) \subseteq Drawn(menu, players)
    OBVIOUS
  <2>1. t = OpenMenu /\ t.page = menu.page /\ t.sub = menu.sub /\ t.view = menu.view
    BY <1>0, <1>3, OpenMenuFacts
  <2>2. CASE menu.view = "clients"
    <3>1. menu.player >= 0 => ps = players
      BY <1>2, <2>2 DEF NoPlayer
    <3> QED
      BY <1>0, <1>7, <1>9, <2>2, <3>1, ReachesIs, DrawnIs DEF DrawnPlayer
  <2>3. CASE menu.view = "servers"
    <3>1. Drawn(menu, players) = ServerAt(menu) /\ menu.sub < OnPage(menu, "servers")
      BY <1>0, <2>3, DrawnIs DEF DrawnServer
    <3>2. menu.page["servers"] < PageCount("servers")
      <4>1. OnPage(menu, "servers") \in Nat /\ menu.sub \in Nat /\ Count("servers") \in Nat
            /\ Start(menu, "servers") \in Nat
        BY <1>0, OnPageFacts, ViewsApart DEF MenuType
      <4>2. Start(menu, "servers") < Count("servers")
        BY <3>1, <4>1 DEF OnPage
      <4> QED
        BY <1>0, <4>2, OnPageFacts, ViewsApart
    <3>3. m.page = menu.page /\ m.sub = menu.sub
      BY <1>4, <2>1, <3>2
    <3>4. OnPage(m, "servers") = OnPage(menu, "servers")
      BY <3>3, SamePage, ViewsApart
    <3>5. s(ps).sub = menu.sub
      BY <1>6, <1>7, <1>10, <2>3, <3>1, <3>3, <3>4, ViewsApart
    <3>6. ServerAt(s(ps)) = ServerAt(menu)
      BY <1>7, <3>3, <3>5 DEF ServerAt, Start
    <3> QED
      BY <1>7, <1>9, <2>3, <3>1, <3>6, ReachesIs
  <2>4. CASE menu.view \in DOMAIN Items
    <3>1. Drawn(menu, players) = {<<menu.view, menu.sub>>} /\ menu.sub < Items[menu.view]
      BY <1>0, <2>4, DrawnIs DEF DrawnItem
    <3>2. n(ps) = Items[menu.view]
      BY <1>0, <1>2, <1>4, <1>5, <2>4, SelectableFacts
    <3>3. s(ps).sub = menu.sub
      BY <1>4, <1>6, <1>7, <2>1, <3>1, <3>2
    <3> QED
      BY <1>7, <1>9, <2>4, <3>1, <3>3, ReachesIs
  <2>5. CASE menu.view \notin {"clients", "servers"} \cup DOMAIN Items
    BY <1>7, <1>9, <2>5, ReachesIs
  <2> QED
    BY <2>2, <2>3, <2>4, <2>5
<1>18. r(ps) \in SUBSET Targets
       /\ (Still(d) => Drawn(menu, players) = {} \/ r(ps) \subseteq Drawn(menu, players))
  BY <1>15, <1>16, <1>17
<1> HIDE DEF z, r
<1>19. Handled(d, z(ps), r(ps))
  BY <1>1, <1>2, <1>14, <1>18 DEF Handled
<1> QED
  BY <1>19

LEMMA InputHandled ==
  ASSUME MenuInv, Input
  PROVE  \E d \in Inputs : \E m, r : Handled(d, m, r)
  BY ClosedHandled, RootHandled, BackHandled, ListHandled DEF Input

RootAt(m, i) == [m EXCEPT !.root = i]

LEMMA RootAtFacts ==
  ASSUME NEW m \in MenuType, NEW i \in 0 .. Len(Rows) - 1
  PROVE  /\ RootAt(m, i) \in MenuType /\ RootAt(m, i).open = m.open /\ RootAt(m, i).view = m.view
         /\ RootAt(m, i).sub = m.sub /\ RootAt(m, i).player = m.player /\ RootAt(m, i).page = m.page
<1>1. RootAt(m, i) = [open |-> m.open, view |-> m.view, root |-> i, sub |-> m.sub,
                      player |-> m.player, page |-> m.page]
  BY DEF RootAt, MenuType
<1>2. /\ m.open \in BOOLEAN /\ m.view \in Views /\ m.sub \in Nat
      /\ m.player \in Nat \cup {NoPlayer} /\ m.page \in [Paged -> Nat]
  BY DEF MenuType
<1> QED
  BY <1>1, <1>2 DEF MenuType

\* The pointer selects the row it is on, or leaves the menu alone.
Pointed(m, i) ==
  \/ m = menu /\ ~Clicks
  \/ menu.view = Root /\ m = RootAt(menu, i)
  \/ menu.view # Root /\ m = RowAt(menu, i)

LEMMA PointedFacts ==
  ASSUME MenuInv, NEW n \in Nat, NEW i \in 0 .. Hoverable(menu, n) - 1, NEW m, Pointed(m, i)
  PROVE  /\ m \in MenuType /\ m.open = menu.open /\ m.view = menu.view
         /\ m.player = menu.player /\ m.page = menu.page /\ RecentsOK(m)
         /\ menu.view = "clients" /\ menu.player = NoPlayer /\ Clicks => m.sub < n
<1>0. ListsOK /\ menu \in MenuType /\ RecentsOK(menu)
  BY MenuParts
<1>1. Hoverable(menu, n) \in Nat /\ i \in Nat /\ i < Hoverable(menu, n)
  <2>1. Hoverable(menu, n) \in Nat
    BY <1>0, SelectableFacts
  <2> QED
    BY <2>1
<1>2. CASE m = menu /\ ~Clicks
  BY <1>0, <1>2
<1>3. CASE menu.view = Root /\ m = RootAt(menu, i)
  <2>1. Hoverable(menu, n) = Len(Rows)
    BY <1>0, <1>3, SelectableFacts
  <2>2. i \in 0 .. Len(Rows) - 1
    BY <2>1
  <2>3. /\ m \in MenuType /\ m.open = menu.open /\ m.view = menu.view /\ m.sub = menu.sub
        /\ m.player = menu.player /\ m.page = menu.page
    BY <1>0, <1>3, <2>2, RootAtFacts
  <2>4. RecentsOK(m)
    BY <1>0, <1>3, <2>3, ViewsApart DEF RecentsOK
  <2> QED
    BY <1>3, <2>3, <2>4, ViewsApart
<1>4. CASE menu.view # Root /\ m = RowAt(menu, i)
  <2>1. m \in MenuType /\ SamePlace(m, menu) /\ m.sub = i /\ m.page = menu.page
    BY <1>0, <1>1, <1>4, RowAtFacts
  <2>2. menu.view = "recents" => i < OnPage(m, "recents")
    <3> SUFFICES ASSUME menu.view = "recents" PROVE i < OnPage(m, "recents")
      OBVIOUS
    <3>1. Hoverable(menu, n) = OnPage(menu, "recents")
      BY <1>0, SelectableFacts, ViewsApart
    <3>2. OnPage(m, "recents") = OnPage(menu, "recents")
      BY <2>1, SamePage, ViewsApart
    <3> QED
      BY <1>1, <3>1, <3>2
  <2>3. RecentsOK(m)
    BY <1>0, <2>1, <2>2 DEF RecentsOK, SamePlace
  <2>4. menu.view = "clients" /\ menu.player = NoPlayer => i < n
    <3> SUFFICES ASSUME menu.view = "clients", menu.player = NoPlayer PROVE i < n
      OBVIOUS
    <3>1. menu.player < 0
      BY DEF NoPlayer
    <3>2. Hoverable(menu, n) <= n
      BY <1>0, <3>1, SelectableFacts
    <3> QED
      BY <1>1, <3>2
  <2> QED
    BY <2>1, <2>3, <2>4 DEF SamePlace
<1> QED
  BY <1>2, <1>3, <1>4 DEF Pointed

\* What a click makes of the menu.
LEMMA ClickDone ==
  ASSUME MenuInv, NEW ps \in FoundType, ps.n <= Len(ps.list), Len(players.list) <= Len(ps.list),
         Clicks, NEW i \in 0 .. Hoverable(menu, ps.n) - 1, NEW m, Pointed(m, i),
         Draws(Chosen(m), ps, Reaches(m, ps))
  PROVE  BodyDone(Chosen(m), ps, Reaches(m, ps))
<1>0. ListsOK /\ menu \in MenuType /\ menu.player < Len(players.list)
  BY MenuParts DEF PlayersOK
<1>1. ps.n \in Nat /\ Len(ps.list) \in Nat /\ Len(players.list) \in Nat
  BY MenuParts DEF FoundType, PlayersOK
<1>2. /\ m \in MenuType /\ m.open = menu.open /\ m.view = menu.view
      /\ m.player = menu.player /\ RecentsOK(m)
      /\ menu.view = "clients" /\ menu.player = NoPlayer => m.sub < ps.n
  BY <1>1, PointedFacts
<1>3. menu.player < Len(ps.list)
  <2>1. menu.player \in Int
    BY <1>0 DEF MenuType, NoPlayer
  <2> QED
    BY <1>0, <1>1, <2>1
<1>4. Reaches(m, ps) \in SUBSET Targets
  BY <1>0, <1>2, <1>3, ReachesType
<1>5. Chosen(m) \in MenuType /\ RecentsOK(Chosen(m)) /\ (Chosen(m).open => menu.open)
  BY <1>0, <1>2, ChosenFacts
<1>6. Chosen(m).player < Len(ps.list)
      /\ (Drawn(Chosen(m), ps) = {} \/ Reaches(m, ps) \subseteq Drawn(Chosen(m), ps))
  <2>1. CASE m.view = Root
    <3>1. Chosen(m).player = m.player
      BY <1>0, <1>2, <2>1, ChosenFacts, ActivatedFacts
    <3>2. Reaches(m, ps) = {}
      BY <1>2, <2>1, ReachesIs, ViewsApart
    <3> QED
      BY <1>2, <1>3, <3>1, <3>2
  <2>2. CASE m.view = "clients" /\ m.player = NoPlayer
    <3>1. m.sub \in Nat /\ m.sub < Len(ps.list)
      <4>1. m.sub \in Nat /\ m.sub < ps.n
        BY <1>2, <2>2 DEF MenuType
      <4> QED
        BY <1>1, <4>1
    <3>2. Chosen(m) = OfPlayer(m, m.sub)
      BY <1>0, <1>2, <2>2, ChosenFacts
    <3>3. OfPlayer(m, m.sub).player = m.sub
      BY <1>2, <3>1, OfPlayerFacts
    <3>4. ~(m.player >= 0)
      BY <2>2 DEF NoPlayer
    <3>5. Reaches(m, ps) = {}
      BY <1>2, <2>2, <3>4, ReachesIs
    <3> QED
      BY <3>1, <3>2, <3>3, <3>5
  <2>3. CASE m.view # Root /\ ~(m.view = "clients" /\ m.player = NoPlayer)
    <3>1. Chosen(m) = m
      BY <1>0, <1>2, <2>3, ChosenFacts
    <3> QED
      BY <1>2, <1>3, <3>1, ReachesDrawn
  <2> QED
    BY <2>1, <2>2, <2>3
<1> QED
  BY <1>4, <1>5, <1>6 DEF BodyDone

LEMMA BodyLeaves ==
  ASSUME MenuInv, Body
  PROVE  \E lobby \in Lists(Players) : \E m, r : BodyDone(m, Gathered(lobby), r)
<1>0. ListsOK /\ menu \in MenuType /\ RecentsOK(menu) /\ menu.player < Len(players.list)
      /\ players \in FoundType
  BY MenuParts DEF PlayersOK
<1>1. PICK lobby \in Lists(Players) :
        BodyOff(Gathered(lobby)) \/ BodyRow(Gathered(lobby)) \/ BodyBack(Gathered(lobby))
  BY DEF Body
<1> DEFINE ps == Gathered(lobby)
<1>2. /\ ps \in FoundType /\ ps.n <= Len(ps.list) /\ Len(players.list) <= Len(ps.list)
  BY <1>0, GatheredType
<1>3. BodyOff(ps) \/ BodyRow(ps) \/ BodyBack(ps)
  BY <1>1
<1> SUFFICES \E m, r : BodyDone(m, ps, r)
  OBVIOUS
<1> HIDE DEF ps
<1>4. ps.n \in Nat /\ menu.player < Len(ps.list) /\ NoPlayer < Len(ps.list)
  <2>1. ps.n \in Nat /\ menu.player \in Int /\ Len(ps.list) \in Nat /\ Len(players.list) \in Nat
    BY <1>0, <1>2 DEF MenuType, FoundType, NoPlayer
  <2> QED
    BY <1>0, <1>2, <2>1 DEF NoPlayer
<1>5. ASSUME NEW m, Draws(m, ps, {}), m \in MenuType, RecentsOK(m), m.open => menu.open,
             m.player < Len(ps.list)
      PROVE  BodyDone(m, ps, {})
  BY <1>2, <1>5 DEF BodyDone
<1>6. CASE BodyOff(ps)
  <2>1. Draws(menu, ps, {})
    BY <1>6 DEF BodyOff
  <2> QED
    BY <1>0, <1>4, <1>5, <2>1
<1>7. CASE BodyRow(ps)
  <2>1. PICK i \in 0 .. Hoverable(menu, ps.n) - 1 : \E m :
          /\ Pointed(m, i)
          /\ IF Clicks THEN Draws(Chosen(m), ps, Reaches(m, ps)) ELSE Draws(m, ps, {})
    BY <1>7 DEF BodyRow, Pointed, RootAt, RowAt
  <2>2. PICK m : Pointed(m, i)
                 /\ IF Clicks THEN Draws(Chosen(m), ps, Reaches(m, ps)) ELSE Draws(m, ps, {})
    BY <2>1
  <2>3. CASE Clicks
    BY <1>2, <2>2, <2>3, ClickDone
  <2>4. CASE ~Clicks
    <3>1. /\ m \in MenuType /\ m.open = menu.open /\ m.player = menu.player /\ RecentsOK(m)
      BY <1>4, <2>2, PointedFacts
    <3> QED
      BY <1>4, <1>5, <2>2, <2>4, <3>1
  <2> QED
    BY <2>3, <2>4
<1>8. CASE BodyBack(ps)
  <2> DEFINE m == IF Clicks THEN Backed(menu) ELSE menu
  <2>1. Draws(m, ps, {})
    BY <1>8 DEF BodyBack
  <2>2. m \in MenuType /\ RecentsOK(m) /\ (m.open => menu.open) /\ m.player < Len(ps.list)
    BY <1>0, <1>4, BackedFacts
  <2> QED
    BY <1>5, <2>1, <2>2
<1> QED
  BY <1>3, <1>6, <1>7, <1>8

-----------------------------------------------------------------------------
(* The menu's invariant.                                                    *)

\* A step that leaves the menu, the players and the lists as they are.
LEMMA RecentsStay ==
  ASSUME NEW m, RecentsOK(m), servers' = servers, recents' = recents, menu' = m
  PROVE  RecentsOK(menu)'
  BY DEF RecentsOK, OnPage, Start, PageCount, Count

LEMMA RowStays ==
  ASSUME NEW m, NEW n, RowOK(m, n), servers' = servers, recents' = recents, menu' = m,
         players'.n = n
  PROVE  RowOK(menu, players.n)'
  BY DEF RowOK, Selectable, OnPage, Start, PageCount, Count

LEMMA MenuInitially == Init => MenuInv
<1> SUFFICES ASSUME Init PROVE MenuInv
  OBVIOUS
<1>1. /\ menu = [open |-> FALSE, view |-> Root, root |-> 0, sub |-> 0, player |-> NoPlayer,
                 page |-> [v \in Paged |-> 0]]
      /\ players = [list |-> <<>>, n |-> 0] /\ servers = <<>> /\ recents \in 0 .. MaxRecents
      /\ pc = "input"
  BY DEF Init
<1>2. menu \in MenuType
  <2>1. 0 \in 0 .. Len(Rows) - 1
    BY RowsAssumption
  <2>2. [v \in Paged |-> 0] \in [Paged -> Nat]
    OBVIOUS
  <2> QED
    BY <1>1, <2>1, <2>2 DEF MenuType, Views
<1>3. players \in FoundType /\ players.n <= Len(players.list) /\ Len(players.list) = 0
  BY <1>1 DEF FoundType
<1>4. servers \in Lists(Hosts)
  <2>1. Cardinality(Hosts) \in Nat
    BY SizeAssumption, FS_CardinalityType
  <2>2. 0 \in 0 .. Cardinality(Hosts) /\ 1 .. 0 = {}
    BY <2>1
  <2>3. servers \in [1 .. 0 -> Hosts] /\ \A i, j \in 1 .. 0 : i # j => servers[i] # servers[j]
    BY <1>1, <2>2
  <2> QED
    BY <2>2, <2>3 DEF Lists
<1>5. TypeOK
  BY <1>2, <1>3, <1>4 DEF Init, TypeOK, MenuType, Views, FoundType
<1>6. ListsOK
  BY <1>1 DEF ListsOK
<1>7. RecentsOK(menu)
  <2>1. PageCount("recents") \in Nat \ {0}
    BY <1>2, <1>6, OnPageFacts, ViewsApart
  <2>2. menu.page["recents"] = 0 /\ menu.sub = 0
    BY <1>1, ViewsApart
  <2> QED
    BY <2>1, <2>2 DEF RecentsOK
<1> QED
  BY <1>1, <1>3, <1>5, <1>7 DEF MenuInv, NoPlayer

LEMMA MenuOnInput ==
  ASSUME MenuInv, NEW d \in Inputs, NEW m, NEW r, Handled(d, m, r)
  PROVE  MenuInv'
<1>1. /\ pc' = "gate" /\ menu' = m /\ latch' = Latched(d) /\ down' = d /\ fired' = Reacts(d)
      /\ used' = (used \cap d) \cup Reacts(d) /\ reached' = r
      /\ UNCHANGED <<lists, gate, shown>>
  BY DEF Handled, Handles
<1>2. /\ m \in MenuType /\ r \in SUBSET Targets /\ players' \in FoundType
      /\ players'.n <= Len(players'.list) /\ m.player < Len(players'.list) /\ RecentsOK(m)
      /\ m.open => RowOK(m, players'.n)
  BY DEF Handled
<1>3. TypeOK
  BY DEF MenuInv
<1>4. servers' = servers /\ recents' = recents /\ shown' = shown /\ wasOpen' = wasOpen
      /\ held' = held /\ event' = event /\ seenOpen' = seenOpen /\ excused' = excused
  BY <1>1 DEF lists, gate
<1>5. /\ latch' \subseteq Buttons /\ down' \subseteq Buttons
      /\ used' \subseteq Buttons /\ fired' \subseteq Buttons
  <2>1. d \subseteq Buttons /\ latch \subseteq Buttons /\ used \subseteq Buttons
    BY <1>3, InputsAssumption DEF TypeOK
  <2> QED
    BY <1>1, <2>1 DEF Latched, Reacts, Edges
<1>6. menu' \in MenuType
  BY <1>1, <1>2
<1>7. TypeOK'
  BY <1>1, <1>2, <1>3, <1>4, <1>5, <1>6 DEF TypeOK, MenuType, Views, FoundType
<1>8. RecentsOK(menu)'
  BY <1>1, <1>2, <1>4, RecentsStay
<1>9. menu'.open => RowOK(menu, players.n)'
  BY <1>1, <1>2, <1>4, RowStays
<1> QED
  BY <1>1, <1>2, <1>7, <1>8, <1>9 DEF MenuInv

LEMMA MenuOnBody ==
  ASSUME MenuInv, NEW m, NEW ps, NEW r, BodyDone(m, ps, r)
  PROVE  MenuInv'
<1>1. /\ pc' = "input" /\ menu' = m /\ players' = ps /\ shown' = Drawn(m, ps) /\ reached' = r
      /\ latch' = (latch \ {Mouse}) \cup (down \cap {Mouse})
      /\ used' = used \cup (IF Clicks THEN {Mouse} ELSE {}) /\ down' = {}
      /\ UNCHANGED <<lists, gate, fired>>
  BY DEF BodyDone, Draws
<1>2. /\ m \in MenuType /\ r \in SUBSET Targets /\ ps \in FoundType
      /\ ps.n <= Len(ps.list) /\ m.player < Len(ps.list) /\ RecentsOK(m)
  BY DEF BodyDone
<1>3. TypeOK
  BY DEF MenuInv
<1>4. servers' = servers /\ recents' = recents /\ fired' = fired /\ wasOpen' = wasOpen
      /\ held' = held /\ event' = event /\ seenOpen' = seenOpen /\ excused' = excused
  BY <1>1 DEF lists, gate
<1>5. /\ latch' \subseteq Buttons /\ down' \subseteq Buttons
      /\ used' \subseteq Buttons /\ fired' \subseteq Buttons
  <2>1. down \subseteq Buttons /\ latch \subseteq Buttons /\ used \subseteq Buttons
        /\ fired \subseteq Buttons
    BY <1>3 DEF TypeOK
  <2>2. Mouse \in Buttons
    BY DEF Buttons
  <2> QED
    BY <1>1, <1>4, <2>1, <2>2
<1>6. Drawn(m, ps) \in SUBSET Targets
  BY <1>2, MenuParts, DrawnType
<1>7. menu' \in MenuType
  BY <1>1, <1>2
<1>8. TypeOK'
  BY <1>1, <1>2, <1>3, <1>4, <1>5, <1>6, <1>7 DEF TypeOK, MenuType, Views, FoundType
<1>9. RecentsOK(menu)'
  BY <1>1, <1>2, <1>4, RecentsStay
<1> QED
  BY <1>1, <1>2, <1>8, <1>9 DEF MenuInv

LEMMA MenuOnGate ==
  ASSUME MenuInv, BlockGameInput
  PROVE  MenuInv'
<1>1. /\ pc' = "tick" /\ menu' = menu /\ players' = players
      /\ servers' = servers /\ recents' = recents
  BY DEF BlockGameInput, lists
<1>2. TypeOK /\ RecentsOK(menu) /\ menu.player < Len(players.list)
  BY DEF MenuInv
<1>3. TypeOK'
  <2>1. menu.open \in BOOLEAN
    BY MenuParts
  <2>2. held' \subseteq GameKeys
    BY <1>2 DEF TypeOK, BlockGameInput
  <2>3. wasOpen' \in BOOLEAN /\ seenOpen' \in BOOLEAN
    BY <2>1, Zenon DEF BlockGameInput
  <2>4. /\ down' \subseteq Buttons /\ fired' = {} /\ reached' = {}
    BY <1>2 DEF TypeOK, BlockGameInput
  <2>5. latch' = latch /\ event' = event /\ excused' = excused /\ shown' = shown /\ used' = used
    BY DEF BlockGameInput
  <2> QED
    BY <1>1, <1>2, <2>2, <2>3, <2>4, <2>5 DEF TypeOK
<1>4. RecentsOK(menu)'
  BY <1>1, <1>2, RecentsStay
<1> QED
  BY <1>1, <1>2, <1>3, <1>4 DEF MenuInv

LEMMA MenuOnTick ==
  ASSUME MenuInv, Tick
  PROVE  MenuInv'
<1>1. /\ pc' \in {"body", "input"} /\ menu' = menu /\ players' = players /\ recents' = recents
      /\ servers' \in Lists(Hosts)
  BY DEF Tick
<1>2. TypeOK /\ RecentsOK(menu) /\ menu.player < Len(players.list)
  BY DEF MenuInv
<1>3. TypeOK'
  <2>1. down' \subseteq Buttons /\ shown' \subseteq Targets
    BY <1>2 DEF TypeOK, Tick
  <2>2. latch' = latch /\ fired' = fired /\ reached' = reached /\ used' = used
        /\ wasOpen' = wasOpen /\ held' = held /\ event' = event /\ seenOpen' = seenOpen
        /\ excused' = excused
    BY DEF Tick, gate
  <2> QED
    BY <1>1, <1>2, <2>1, <2>2 DEF TypeOK
<1>4. RecentsOK(menu)'
  BY <1>1, <1>2 DEF RecentsOK, OnPage, Start, PageCount, Count
<1> QED
  BY <1>1, <1>2, <1>3, <1>4 DEF MenuInv

\* More recently seen leave every page that existed, with as many rows at least.
LEMMA MenuOnGrowth ==
  ASSUME MenuInv, RecentsGrow
  PROVE  MenuInv'
<1>1. /\ recents < MaxRecents /\ recents' = recents + 1
      /\ pc' = pc /\ menu' = menu /\ players' = players /\ servers' = servers
      /\ UNCHANGED <<latch, gate, frame>>
  BY DEF RecentsGrow
<1>2. TypeOK /\ RecentsOK(menu) /\ menu.player < Len(players.list)
      /\ (pc = "gate" /\ menu.open => RowOK(menu, players.n))
  BY DEF MenuInv
<1>3. recents \in Nat /\ recents' \in 0 .. MaxRecents
  BY <1>1, <1>2, SizeAssumption DEF TypeOK
<1>4. TypeOK'
  BY <1>1, <1>2, <1>3 DEF TypeOK, gate, frame
<1> DEFINE c == recents
           w == PerPage["recents"]
           p == menu.page["recents"]
           k == c + 1
<1>5. c \in Nat /\ k \in Nat /\ k = c + 1 /\ w \in Nat \ {0} /\ p \in Nat /\ menu.sub \in Nat
  BY <1>3, MenuParts, PerPageAssumption, ViewsApart DEF MenuType
<1>6. p * w \in Nat
  BY <1>5
<1>7. /\ PageCount("recents") = IF c = 0 THEN 1 ELSE (c + w - 1) \div w
      /\ PageCount("recents")' = IF k = 0 THEN 1 ELSE (k + w - 1) \div w
      /\ OnPage(menu, "recents") = IF c > p * w THEN Least(c - p * w, w) ELSE 0
      /\ OnPage(menu, "recents")' = IF k > p * w THEN Least(k - p * w, w) ELSE 0
  <2>1. Count("recents") = c /\ Count("recents")' = k /\ menu' = menu
    BY <1>1 DEF Count
  <2>2. PageCount("recents") = IF c = 0 THEN 1 ELSE (c + w - 1) \div w
    BY <2>1 DEF PageCount
  <2>3. PageCount("recents")' = IF k = 0 THEN 1 ELSE (k + w - 1) \div w
    BY <2>1 DEF PageCount
  <2>4. OnPage(menu, "recents") = IF c > p * w THEN Least(c - p * w, w) ELSE 0
    BY <2>1 DEF OnPage, Start
  <2>5. OnPage(menu, "recents")' = IF k > p * w THEN Least(k - p * w, w) ELSE 0
    <3>1. Start(menu, "recents")' = p * w
      BY <2>1 DEF Start
    <3> HIDE DEF k, c, p, w
    <3> QED
      BY <2>1, <3>1 DEF OnPage, w
  <2> QED
    BY <2>2, <2>3, <2>4, <2>5
<1> HIDE DEF c, w, p, k
<1>8. p < PageCount("recents") <=> p = 0 \/ p * w < c
  BY <1>5, <1>7, PageExists
<1>9. p < PageCount("recents")' <=> p = 0 \/ p * w < k
  BY <1>5, <1>7, PageExists
<1>10. p < PageCount("recents")
  BY <1>2 DEF RecentsOK, p
<1>11. p < PageCount("recents")'
  BY <1>5, <1>6, <1>8, <1>9, <1>10
<1>12. \A j \in Nat : j < OnPage(menu, "recents") => j < OnPage(menu, "recents")'
  BY <1>5, <1>6, <1>7 DEF Least
<1>13. menu.view = "recents" => menu.sub = 0 \/ menu.sub < OnPage(menu, "recents")'
  BY <1>2, <1>5, <1>12 DEF RecentsOK
<1>14. RecentsOK(menu)'
  BY <1>1, <1>11, <1>13 DEF RecentsOK, p
<1>15. 0 < OnPage(menu, "recents")'
  <2>1. p = 0 => p * w = 0
    BY <1>5
  <2>2. p * w < k
    BY <1>5, <1>6, <1>9, <1>11, <2>1
  <2> QED
    BY <1>5, <1>6, <1>7, <2>2 DEF Least
<1>16. pc' = "gate" /\ menu'.open => RowOK(menu, players.n)'
  <2> SUFFICES ASSUME RowOK(menu, players.n) PROVE RowOK(menu, players.n)'
    BY <1>1, <1>2
  <2>1. menu.view = "recents" => menu.sub < OnPage(menu, "recents")'
    BY <1>13, <1>15
  <2>2. /\ PageCount("servers")' = PageCount("servers") /\ Count("servers")' = Count("servers")
        /\ OnPage(menu, "servers")' = OnPage(menu, "servers")
    BY <1>1, ViewsApart DEF PageCount, Count, OnPage, Start
  <2>3. menu.view \notin Paged => Selectable(menu, players.n)' = Selectable(menu, players.n)
    BY <1>1 DEF Selectable
  <2> QED
    BY <1>1, <2>1, <2>2, <2>3 DEF RowOK
<1> QED
  BY <1>1, <1>2, <1>4, <1>14, <1>16 DEF MenuInv

LEMMA MenuOnKeys ==
  ASSUME MenuInv, KeyLetThrough \/ KeyPassedOn \/ UNCHANGED vars
  PROVE  MenuInv'
<1>1. /\ menu' = menu /\ players' = players /\ pc' = pc
      /\ servers' = servers /\ recents' = recents
      /\ latch' = latch /\ down' = down /\ used' = used /\ fired' = fired
      /\ shown' = shown /\ reached' = reached /\ wasOpen' = wasOpen /\ seenOpen' = seenOpen
  BY DEF KeyLetThrough, KeyPassedOn, vars, lists, gate, frame
<1>2. TypeOK /\ RecentsOK(menu) /\ menu.player < Len(players.list)
      /\ (pc = "gate" /\ menu.open => RowOK(menu, players.n))
  BY DEF MenuInv
<1>3. /\ held' \subseteq GameKeys /\ excused' \subseteq GameKeys
      /\ event' \in [key : GameKeys, press : BOOLEAN] \cup {NoEvent}
  <2>0. /\ held \subseteq GameKeys /\ excused \subseteq GameKeys
        /\ event \in [key : GameKeys, press : BOOLEAN] \cup {NoEvent}
    BY <1>2 DEF TypeOK
  <2>1. CASE KeyLetThrough
    BY <2>0, <2>1 DEF KeyLetThrough
  <2>2. CASE KeyPassedOn
    <3>1. event.key \in GameKeys /\ event' = NoEvent
      BY <2>0, <2>2 DEF KeyPassedOn
    <3>2. held' \subseteq held \cup {event.key} /\ excused' \subseteq excused \cup {event.key}
      BY <2>2 DEF KeyPassedOn
    <3> QED
      BY <2>0, <3>1, <3>2
  <2>3. CASE UNCHANGED vars
    BY <2>0, <2>3 DEF vars, gate
  <2> QED
    BY <2>1, <2>2, <2>3
<1>4. TypeOK'
  BY <1>1, <1>2, <1>3 DEF TypeOK
<1>5. RecentsOK(menu)'
  BY <1>1, <1>2, RecentsStay
<1>6. RowOK(menu, players.n) => RowOK(menu, players.n)'
  BY <1>1, RowStays
<1> QED
  BY <1>1, <1>2, <1>4, <1>5, <1>6 DEF MenuInv

LEMMA MenuStep ==
  ASSUME MenuInv, [Next]_vars
  PROVE  MenuInv'
<1>1. CASE Input
  BY <1>1, InputHandled, MenuOnInput
<1>2. CASE Body
  BY <1>2, BodyLeaves, MenuOnBody
<1> QED
  BY <1>1, <1>2, MenuOnGate, MenuOnTick, MenuOnGrowth, MenuOnKeys DEF Next

\* Every variable has its type; above all, no choice reads an entry of g_players that
\* gather_players has not filled (fire_player_action).
THEOREM MenuTypeCorrect == Spec => []TypeOK
<1>1. MenuInv => TypeOK
  BY DEF MenuInv
<1> QED
  BY <1>1, MenuInitially, MenuStep, PTL DEF Spec

\* Once handle_input is through, an open menu is at a page that exists and at a row of it,
\* however its lists have shrunk; and players and recently seen never are not.
THEOREM AlwaysOnARow == Spec => []OnARow
<1>1. MenuInv => OnARow
  <2> SUFFICES ASSUME MenuInv PROVE OnARow
    OBVIOUS
  <2>1. menu.page["recents"] < PageCount("recents") /\ menu.player < Len(players.list)
    BY DEF MenuInv, RecentsOK
  <2>2. ASSUME pc = "gate", menu.open
        PROVE  CASE menu.view = "servers" ->
                      /\ menu.page["servers"] < PageCount("servers")
                      /\ Count("servers") > 0 => menu.sub < OnPage(menu, "servers")
                 [] menu.view = "recents" ->
                      Count("recents") > 0 => menu.sub < OnPage(menu, "recents")
                 [] OTHER -> LET n == Selectable(menu, players.n) IN n > 0 => menu.sub < n
    <3>1. RowOK(menu, players.n)
      BY <2>2 DEF MenuInv
    <3>2. CASE menu.view = "servers"
      BY <3>1, <3>2, ViewsApart DEF RowOK
    <3>3. CASE menu.view = "recents"
      BY <3>1, <3>3, ViewsApart DEF RowOK
    <3>4. CASE menu.view # "servers" /\ menu.view # "recents"
      <4>1. menu.view \notin Paged
        BY <3>4 DEF Paged
      <4> QED
        BY <3>1, <3>4, <4>1 DEF RowOK
    <3> QED
      BY <3>2, <3>3, <3>4
  <2> QED
    BY <2>1, <2>2 DEF OnARow
<1> QED
  BY <1>1, MenuInitially, MenuStep, PTL DEF Spec

\* A click reaches nothing but what the frame then goes on to show (the body of the
\* menu, which gathers the players before it tests the pointer).
THEOREM ClicksReachWhatIsShown == Spec => ClicksReachShown
<1> DEFINE A == pc = "body" /\ pc' = "input" /\ shown' # {} => reached' \subseteq shown'
<1>1. MenuInv /\ [Next]_vars => [A]_vars
  <2> SUFFICES ASSUME MenuInv, Next, pc = "body", pc' = "input" PROVE A
    OBVIOUS
  <2>1. ~Input /\ ~BlockGameInput /\ ~Tick /\ ~Elsewhere
    <3>1. Input => pc = "input"
      BY InputHandles DEF Handles
    <3> QED
      BY <3>1, ElsewhereKeeps DEF BlockGameInput, Tick
  <2>2. Body
    BY <2>1 DEF Next, Elsewhere
  <2>3. PICK lobby \in Lists(Players) : \E m, r : BodyDone(m, Gathered(lobby), r)
    BY <2>2, BodyLeaves
  <2> QED
    BY <2>3 DEF BodyDone, Draws
<1>2. Spec => [][A]_vars
  <2> HIDE DEF A
  <2> QED
    BY <1>1, MenuInitially, MenuStep, PTL DEF Spec
<1> QED
  BY <1>2 DEF ClicksReachShown

\* What was drawn last is what the menu is at when the next frame begins.
ShownInv == pc = "input" => shown = {} \/ shown = Drawn(menu, players)

LEMMA ShownStep ==
  ASSUME MenuInv, ShownInv, [Next]_vars
  PROVE  ShownInv'
<1>1. CASE Input
  <2>1. pc' = "gate"
    BY <1>1, InputHandles DEF Handles
  <2> QED
    BY <2>1 DEF ShownInv
<1>2. CASE BlockGameInput
  BY <1>2 DEF BlockGameInput, ShownInv
<1>3. CASE Tick
  <2>1. pc' = "input" => shown' = {}
    BY <1>3 DEF Tick
  <2> QED
    BY <2>1 DEF ShownInv
<1>4. CASE Body
  <2>1. PICK lobby \in Lists(Players) : \E m, r : Draws(m, Gathered(lobby), r)
    BY <1>4, BodyDraws
  <2>2. PICK m, r : Draws(m, Gathered(lobby), r)
    BY <2>1
  <2>3. menu' = m /\ players' = Gathered(lobby) /\ shown' = Drawn(m, Gathered(lobby))
        /\ servers' = servers /\ recents' = recents
    BY <2>2 DEF Draws, lists
  <2>4. Drawn(menu, players)' = Drawn(m, Gathered(lobby))
    <3> DEFINE g == Gathered(lobby)
    <3>1. menu' = m /\ players' = g
      BY <2>3
    <3> HIDE DEF g
    <3>2. Drawn(menu, players)' = Drawn(m, g)
      BY <2>3, <3>1 DEF Drawn, DrawnPlayer, DrawnServer, DrawnItem, ServerAt, OnPage, Start, Count
    <3> QED
      BY <3>2 DEF g
  <2> QED
    BY <2>3, <2>4 DEF ShownInv
<1>5. CASE Elsewhere
  <2>1. /\ menu' = menu /\ players' = players /\ servers' = servers /\ shown' = shown /\ pc' = pc
    BY <1>5, ElsewhereKeeps
  <2>2. Drawn(menu, players)' = Drawn(menu, players)
    BY <2>1, ViewsApart
       DEF Drawn, DrawnPlayer, DrawnServer, DrawnItem, ServerAt, OnPage, Start, Count
  <2> QED
    BY <2>1, <2>2 DEF ShownInv
<1> QED
  BY <1>1, <1>2, <1>3, <1>4, <1>5 DEF Next, Elsewhere

\* Enter and J reach nothing but what the last frame showed (handle_input, which runs
\* before anything that could move the lists).
THEOREM KeysReachWhatIsShown == Spec => KeysReachShown
<1>1. Init => ShownInv
  BY DEF Init, ShownInv
<1>2. MenuInv /\ ShownInv /\ [Next]_vars =>
        [/\ pc = "input" /\ pc' = "gate" /\ shown # {}
         /\ {b[2] : b \in fired'} \cap {"up", "down", "left", "right"} = {}
         => reached' \subseteq shown]_vars
  <2> SUFFICES ASSUME MenuInv, ShownInv, Next, pc = "input", pc' = "gate", shown # {},
                      {b[2] : b \in fired'} \cap {"up", "down", "left", "right"} = {}
               PROVE  reached' \subseteq shown
    OBVIOUS
  <2>1. ~BlockGameInput /\ ~Tick /\ ~Body /\ ~Elsewhere
    <3>1. Body => pc = "body"
      BY BodyDraws DEF Draws
    <3> QED
      BY <3>1, ElsewhereKeeps DEF BlockGameInput, Tick
  <2>2. Input
    BY <2>1 DEF Next, Elsewhere
  <2>3. PICK d \in Inputs : \E m, r : Handled(d, m, r)
    BY <2>2, InputHandled
  <2>4. PICK m, r : Handled(d, m, r)
    BY <2>3
  <2>5. fired' = Reacts(d) /\ reached' = r
    BY <2>4 DEF Handled, Handles
  <2>6. Still(d)
    BY <2>5 DEF Still, Wants
  <2> QED
    BY <2>4, <2>5, <2>6 DEF Handled, ShownInv
<1>3. MenuInv /\ ShownInv /\ [Next]_vars => ShownInv'
  BY ShownStep
<1> QED
  BY <1>1, <1>2, <1>3, MenuInitially, MenuStep, PTL DEF Spec, KeysReachShown

-----------------------------------------------------------------------------
(* Keys: nothing held.                                                      *)

\* What block_game_input remembers is what it saw last; the keys the game has been given
\* since it saw the menu open are excused, and all others it let go of then.
KeysInv ==
  /\ wasOpen = seenOpen
  /\ seenOpen => held \subseteq excused
  /\ menu.open /\ pc # "gate" => seenOpen

LEMMA KeysStep ==
  ASSUME MenuInv, KeysInv, [Next]_vars
  PROVE  KeysInv'
<1>1. CASE Input
  <2>1. pc' = "gate" /\ wasOpen' = wasOpen /\ seenOpen' = seenOpen /\ held' = held
        /\ excused' = excused
    BY <1>1, InputHandles DEF Handles, gate
  <2> QED
    BY <2>1 DEF KeysInv
<1>2. CASE BlockGameInput
  <2>1. /\ wasOpen' = menu.open /\ seenOpen' = menu.open /\ menu' = menu /\ excused' = excused
        /\ held' = IF menu.open /\ ~wasOpen THEN {} ELSE held
    BY <1>2 DEF BlockGameInput
  <2>2. wasOpen = seenOpen /\ (seenOpen => held \subseteq excused)
    BY DEF KeysInv
  <2>3. menu.open => held' \subseteq excused'
    BY <2>1, <2>2
  <2> QED
    BY <2>1, <2>3 DEF KeysInv
<1>3. CASE Tick
  <2>1. pc = "tick" /\ menu' = menu /\ wasOpen' = wasOpen /\ seenOpen' = seenOpen /\ held' = held
        /\ excused' = excused
    BY <1>3 DEF Tick, gate
  <2> QED
    BY <2>1 DEF KeysInv
<1>4. CASE Body
  <2>1. pc = "body" /\ (menu'.open => menu.open) /\ wasOpen' = wasOpen /\ seenOpen' = seenOpen
        /\ held' = held /\ excused' = excused
    BY <1>4, BodyLeaves DEF BodyDone, Draws, gate
  <2> QED
    BY <2>1 DEF KeysInv
<1>5. CASE KeyPassedOn
  <2>1. /\ menu' = menu /\ pc' = pc /\ wasOpen' = wasOpen /\ seenOpen' = seenOpen
        /\ held' = IF event.press THEN held \cup {event.key} ELSE held \ {event.key}
        /\ excused' = IF event.press /\ seenOpen THEN excused \cup {event.key}
                      ELSE excused \ {event.key}
    BY <1>5 DEF KeyPassedOn
  <2>2. seenOpen => held' \subseteq excused'
    BY <2>1 DEF KeysInv
  <2> QED
    BY <2>1, <2>2 DEF KeysInv
<1>6. CASE KeyLetThrough \/ RecentsGrow \/ UNCHANGED vars
  <2>1. /\ menu' = menu /\ pc' = pc /\ wasOpen' = wasOpen /\ seenOpen' = seenOpen
        /\ held' = held /\ excused' = excused
    BY <1>6 DEF KeyLetThrough, RecentsGrow, vars, gate
  <2> QED
    BY <2>1 DEF KeysInv
<1> QED
  BY <1>1, <1>2, <1>3, <1>4, <1>5, <1>6 DEF Next

\* While the menu is open the game holds no key down but such as were given to it late,
\* or between a click on "exit" and an Insert in the next frame (block_game_input and
\* hk_key_event).
THEOREM NothingStaysHeld == Spec => []NothingHeld
<1>1. Init => KeysInv
  <2> SUFFICES ASSUME Init PROVE KeysInv
    OBVIOUS
  <2>1. wasOpen = FALSE /\ seenOpen = FALSE
    BY DEF Init
  <2>2. ~menu.open
    BY DEF Init
  <2> QED
    BY <2>1, <2>2, Zenon DEF KeysInv
<1>2. KeysInv => NothingHeld
  BY DEF KeysInv, NothingHeld
<1>3. MenuInv /\ KeysInv /\ [Next]_vars => KeysInv'
  BY KeysStep
<1> QED
  BY <1>1, <1>2, <1>3, MenuInitially, MenuStep, PTL DEF Spec
=============================================================================
