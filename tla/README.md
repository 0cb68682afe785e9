# A verification project for t7-release

t7-release is a DLL that Black Ops III loads in place of `d3d11.dll`. It hooks
functions of the running game: guards that look at incoming data before the game
does, an overlay with a menu drawn from the hooked `Present`, a server browser, a
record of players seen, and some quality-of-life patches. This directory holds
TLA+ models of the parts that keep state and share it between threads, the
configurations that check them with TLC, and theorems about them that TLAPS checks.

Paths below are relative to `src/src/` of the repository.

## 1. The system

### Threads

| Thread | What it runs |
| --- | --- |
| main thread | `dllmain.cpp`: waits for the game, calls every `initialize`, then loops every 16 ms over `tick`s (recents, banners, ...) |
| render thread | the game's; `hk_present` and `hk_resize_buffers` in `features/overlay`, and under it `menu::tick` and `serverlist::tick` |
| network thread | the game's; the hooks in `patches/` on packets, lobby messages and server commands |
| search service | the game's matchmaking task, which writes the search results into our buffer |

### Components, their state, operations and interactions

| Component | State | Operations | Talks to |
| --- | --- | --- | --- |
| server browser (`features/serverlist`) | `g_results` (rows of the search), `g_entries` under `g_lock`, `auto_probe`, `g_active` | `tick` (search, merge, prune, sort, `probe_all`), `dispatch_probe`, `join_steam_lobby`, `wants`, `set_players`, `send_member_info` | menu (calls it every frame), lobby message hook (answers), search service (shared buffer) |
| lobby message guard (`patches/lobbymsg`) | array counters, print depth | one hook that accepts or drops a message by its type | server browser, overlay (notices) |
| recently seen (`features/recents`) | `entries`, `dirty`, two time stamps, a file | `tick` (scan, evict, sort, save), `load` | game lobby, menu (reads without a lock) |
| overlay (`features/overlay`) | `g_toasts` under `g_mutex`, device, `g_rtv` | `notify`, `render`, `hk_resize_buffers`, `initialize` | every guard posts notices; draws the menu |
| menu (`menu`) | open/closed, page, selections, page numbers, key latches | `tick`: input, navigation, dispatch, drawing, hit tests | settings of every component, server browser, recents |
| hosting (`patches/matchmaking`) | time of the last advertisement | advertise, join request, member info, session creation | menu (settings), game lobby |
| hook engine (`utils/hook`) | up to 64 hook records, code bytes | `attach`, `detach` | everything that hooks |
| start-up (`dllmain.cpp`) | - | order of `initialize` calls, main loop | everything |
| server command guard (`patches/servercmd`) | rate window of `D` commands; the game's ring, config strings | sequence window, reassembly limit, index checks | overlay |
| net channel guard (`patches/netchan`) | the game's sequence numbers | packet filters, clamp of the reliable acknowledgement | overlay |
| other guards (`demonware`, `oob`, `p2p`, `infoleak`, `presence`, `markup`, `callvote`, `clientcmd`) | little or none | decisions on one datum | overlay |
| movement (`patches/movement`) | left-over frame time | quantise frame time to 8 ms ticks | game |
| patches of one condition (`lod`, `perf`, `video`, `hotkeys`, ...) | flags | one write or one early return | menu |
| logging, exceptions (`utils`) | log file, a lock | append, rotate, write a dump | everything |
| banners (`features/logo`, `menulogo`) | decoded frames, their views, the image that shows them | `tick` (find the image, upload, next frame), release | the game's images, overlay (device) |
| renderer, font (`overlay/renderer`, `font`) | Direct3D resources | draw | overlay |
| test harness (`features/send`) | none | send one packet | menu |

### What is hard in it, and what makes each part correct

- **Server browser.** Three threads and a service that shares a buffer without any
  lock. `probe_all` decides under the lock and acts with an index after releasing
  it; the network thread asks `wants`, releases the lock and later stores a roster;
  rows are sorted and erased once a second. It is correct when no host is listed
  twice, the page is sorted and free of empty servers whenever it can be read, a row
  shows its own roster and lobby and no other's, probes go to the servers they name,
  what a round of probing decided still holds when it acts on it, every dedicated
  server with room is probed again and again, and nothing known of a server is lost
  while it is listed.
- **Recently seen.** A list of bounded size that is scanned from a lobby the game
  changes, and a file that is truncated before it is written, with crashes anywhere.
  It is correct when nobody is listed twice, a scan never evicts whom it has just
  seen, the one evicted is the one seen longest ago, no address is forgotten before
  the history is full, a list that is not dirty is on disk, and what stays listed
  gets there. The code tests whether the file opens and nothing after that, so that a
  write that fails must be told from one that did not.
- **Overlay.** Notices come from any thread; a frame reads the clock before it takes
  the mutex; buffers are resized between frames and, at start-up, between the two
  hooks. It is correct when a notice is up once at most, is shown, and goes away, and
  no frame is drawn on a target of released buffers.
- **Menu.** Indices and page numbers into lists that change between a frame and the
  next, latches that are only looked at in some frames, keys kept from the game. It is
  correct when what is chosen is what was shown, a press counts once, and the game is
  left with no key down that is up.
- **Hosting.** A player is found only when four messages in a row get through and the
  host has kept advertising; the join request is answered by a full lobby too, the
  member info behind it is not. It is correct when nobody is taken in beyond the places,
  the service is not bothered more often than every three seconds, and a host that stays
  and has room is found again and again.
- **Guards.** Sequence numbers and the rings they index, buffers that fill piece by
  piece, a 32-bit clock, and counts that are kept per thread and outlive a message. They
  are correct when a command is read under its own number and no other, nothing outgrows
  its buffer, nothing is dropped that would have been in order, and one thread's or one
  array's count is never another's.
- **Hooks and start-up.** Code is patched while other threads run it, and components
  are initialised one after the other while hooks installed earlier already call
  them. They are correct when a call that comes to its end has run the function once and
  in order, and a detour never uses a pointer that is not set yet.
- **Banner.** A view is released while an image of the game may still point at it, and
  images come and go while frames are uploaded. It is correct when nothing drawn points
  at a released view.

## 2. Modules

| Module | What it is |
| --- | --- |
| `ServerList` | the server browser: all of search, merge, prune, sort, probe and answer, thread by thread |
| `ServerBrowser` | what the browser promises, host by host, without rows, order, locks or threads |
| `ServerListProofs` | theorems about `ServerList` |
| `MCServerList` | small instances of `ServerList` |
| `Recents` | recently seen players: scan, eviction, file, crashes |
| `PlayerLog` | what that record promises: how long ago each player was seen, in memory and on disk |
| `RecentsProofs` | theorems about `Recents` |
| `MCRecents` | small instances of `Recents` |
| `Overlay` | notices, frames, render target, the two hooks |
| `OverlayProofs` | theorems about `Overlay` |
| `MCOverlay` | a small instance of `Overlay` |
| `Menu` | a frame of the menu: buttons, latches, pages, selections, pointer, what is drawn; the game's key events |
| `MenuProofs` | theorems about `Menu` |
| `MCMenu` | a small instance of `Menu` |
| `Hosting` | advertising, joining, and the way of a probe from a browser to a host and back |
| `HostingProofs` | theorems about `Hosting` |
| `MCHosting` | a small instance of `Hosting` |
| `ServerCommands` | the rings of server commands at both ends, and what a client's hook lets through |
| `LobbyGuard` | lobby messages as threads read, write and print them |
| `Guards` | the two, composed |
| `GuardsProofs` | theorems about `ServerCommands` and `LobbyGuard`, as composed |
| `MCGuards` | a small instance of `Guards` |
| `HookEngine` | `attach`, step by step, against calls of the function it patches |
| `StartUp` | which pointers are set and functions hooked in which order, and what detours use |
| `Banner` | the banner of the front end, in a game that loads and frees images |
| `MainThread` | the three, composed |
| `MainThreadProofs` | theorems about `HookEngine` and `Banner`, as composed |
| `Counting` | what the proofs need about places in lists, sums and remainders |
| `MCMainThread` | a small instance of `MainThread` |

`ServerList` implements `ServerBrowser`, and `Recents` implements `PlayerLog`. `Hosting`
uses of a browser what `ServerBrowser` says of one host. The parts of `Guards`, and those of `MainThread`, share
no state in the code: a behaviour of the composition is one of one of the parts.

In every component module a definition marked "Mutant" is the definition that follows
it with a plausible mistake; no specification uses them. They show that the
properties are able to fail.

### ServerList

`rpc` is where the render thread is in `tick`: `frame` (input and between frames),
`merge` (the loop of `fetch_batch`, with `cur` the row), `prune` (erase and sort),
`probe` (`probe_all`, with `cur` the index), `dispatch` and `join` (its two calls).
`g_lock` is held exactly in `merge` and `prune`; the critical sections of
`dispatch_probe`, `join_steam_lobby`, `wants` and `set_players` are single actions,
enabled only when the lock is free. `pkt` is the packet the network thread is
handling, from `wants` until it is stored, answered or dropped. `SearchWrites`
rewrites one row of `g_results`; with `AtomicRows` FALSE it leaves any mixture of the
old and the new fields, which is what a reader may see while the service writes.
`sent` is what the last step handed to the engine, `probedNow` is a history variable.

Left out: the fields of the join message that no property tells apart, Steam lobby
chat, `last_state_ms` (the time behind the green dot), and the order in which
`std::sort` puts equal counts, which is any order. A host is named by its xuid, its
roster and its lobby by the host they belong to, and a contact stands for address,
security id and key together. The game is taken to keep handling packets one at a
time, and a lobby state to name the sender's own Steam lobby (`PacketsAssumption`).

### Recents

`pc` is where the main thread is in `tick`: `scan` (with `pos` the slot), `open` and
`write` (`save`, with `pos` the entry). `LobbyChanges` may come between any two slots
of a scan, `DiskChanges` between any two steps, `Restarts` at any point; it loads what
is in the file, whose last line may have been cut (`CutLines`). While the disk does not
take what is written (`writable` is FALSE) the file may fail to open (`SaveFails`) or open,
truncated, and fail at any line (`WriteFails`, which leaves any part of it); `cut` is the
stream's badbit, after which the operators that follow do nothing and `SaveCloses` counts
the list as saved all the same. Lines are buffered: one lost on its way from the buffer
counts as not written. `last_seen` is an age in
scan intervals; from `MaxAge` on, entries are not told apart by age but keep their order.
The wall clock is taken not to be set back, a scan to take less than a second, and a
restart to take more. `piped` says that a name contains the separator `|`.

`PlayerLog` forgets the list's order, the addresses and the walk through the lobby. It
has two logs, `seen` and `saved`, of how long ago each player was seen; `SeenIn` reads
one from a list of entries, and `ImplementsLog` says that what it reads from `mem` and
`file` behaves like them. `OldestLeaves` is a step of it (`MeetsInsteadOf`), and proved on its
own as well.

### Overlay

`posting` is the notice a thread waits for the mutex with, `frame` where `render` is:
`target` (`ensure_target` done), `clock` (`draw_toasts` has read the clock), `draw`
(the toasts are swept and copied). `unshown` and `due` are history: what no frame has shown
yet, and what was in time when the frame read the clock and has stayed up since without
being posted again. Times are ages relative to the present; `lag` is how
long ago the frame read the clock, so `now - spawn` is `age - lag`, which wraps around
when it is negative (`Expired`). `target` also says whether the buffer behind it is still
the game's. DXGI (external) refuses to resize buffers someone holds a reference on.

### Menu

`pc` is where `menu::tick` is: `input` (`handle_input`, and between frames), `gate`
(`block_game_input`), `tick` (`serverlist::tick`), `body` (hit tests and drawing). The
render thread alone has access to the menu's state, so each part is one step; between
the parts the game passes on key events and the main loop adds to the recently seen.
`Input` has one action for each way through `handle_input`: a closed menu, the root
list, back, and the rest. `Inputs` are the sets of buttons a frame may find down;
keyboard, pad and mouse have latches of their own (`latch` is the set of those set).
`Polled` says which buttons a frame looks at, since a latch that is not looked at
keeps its value.

`servers` is the list the browser keeps, by host: `Tick` leaves it any list, whatever it
was, as a fetch may. `gather_players` is given any lobby at all each time it is called
(`Gathered`); it reads a lobby that does not change under it, which the code takes for
granted. `recents` is the length of the list, which only grows (see `Recents`).
`shown` is whom or what the last frame drew details of or highlighted; `reached` is what
the last step handed to a setting, to the server browser or to `fire_player_action`.
What those do with it is theirs. The cursor flag and the hook on mouse moves, which only
look at `g_open`, are left out. `used`, `fired`, `seenOpen` and `excused` are history.

### Hosting

`session`, `places` and `clients` are the host's lobby; `SetMaxClients` is
`hk_lobby_session_set_max_clients`, the three disjuncts of `UpdateMatchmakingSession` the
ways through `hk_lobby_host_update_matchmaking_session`, `HandleJoinRequest` and
`HandleMemberInfo` the hooks of these names with their failures beside them. `ad` is what
the search service says of the session; what the game does with a session and what the
service does with an ad are external. A browser is what it knows of this host: `row`,
`dot` (a lobby state came in lately), `guarded` (`protection.lobby_messages`) and
`present` (`get_our_client`). `net` is a set of packets: one that has been handled may
stay in it, which is a packet that comes twice, and `Lose` takes any of them out. `quiet` is
history: the true time since the last update, beside `last`, which the code keeps.

### ServerCommands

`sent` is the server's ring with its sequence and what it takes as acknowledged, which a
client may claim anything about; `hk_write_reliable_commands` is
`WriteReliableCommands`, with the clamp in `Clamped`. `flight` holds messages, functions
from numbers to what was in their slots; it loses, repeats and reorders them. `received`
is the client's ring. A ring holds numbers: slot `n % Window` holds the number of the
command whose text is there, so that `answer.given = answer.asked` says the text is the
one asked for. `GetServerCommand` is `hk_get_server_command`, a disjunct for each way
through it; whether a disjunct is taken depends on the sort of command, of which each
behaviour has those in `texts`. `bcs` is the length of the big config string the game puts
together, `lengths` those of the config strings. The clock is `now`, which begins again
after `Turn`; `passed`, `age` and `verdict` are history.

### LobbyGuard

`job` is what each thread does with a message. `cap` is `array_cap()`: one count and one
limit per thread, which `hk_array_start` takes over for every array with a name and
`hk_array_element` compares with. `arrays` is how the arrays really nest; of those that
the properties speak about it keeps how many elements they gave. `depth` is
`lobby_print_depth`, `nested` how deep printing really is. `DropPacket`,
`ReadForBrowser` and `HandToGame` are the ways through `hk_handle_packet_internal`, by the
type of the packet and whether its fields are proper.

### HookEngine, StartUp, Banner

`HookEngine` has a row of instructions for each function, with lengths and kinds, and
`attach` in five steps: everything up to the trampoline (`Prepare`), the jump in two
copies (`CopySome`, `CopyRest`) and `*original` (`Finish`), or its giving up. A call runs
instruction by instruction in the function or the trampoline; an instruction that is
overwritten is the old one, the jump, or nonsense.

`StartUp` has the calls of every `initialize` in the order of `main_thread`, each as a row
of pointers set and functions hooked, and what each detour uses; pointers are named after
what they point to. `UseGiven` is a use behind a test, and `Tested` whether the test lets
it through.

In `Banner`, `slots` are the game's images and `srv` the view each shows: its own, a frame
of ours, or one that is released. The upload of frames is a step for each. `raced` is the
one case the code does not exclude (see the observations below).

## 3. What the runs check

| Run | Instance | Shows |
| --- | --- | --- |
| `server_list` | 2 hosts, 3 listings (one without players), 1 row, rows torn, 1 answer | `TypeOK`, `UniqueXuids`, `Presented`, `RosterAttribution`, `DecisionsHold`, `RoundCoverage` |
| `server_list_live` | 2 hosts, 2 rows, rows whole, 3 answers | `KeepsWhatIsKnown`, `ProbedAgain`, `EmptyLeaves`, `ImplementsBrowser` |
| `server_list_torn` | 2 hosts, 1 row, rows torn | `ProbeAddressed` fails (finding 1) |
| `recents_full` | 3 players, one with a `|` in the name, 2 slots, room for 2 | `OnceEach`, `ScannedStay`, `CleanMeansWritten`, `ImplementsLog` |
| `recents_disk` | 1 player, 3 addresses, history of 2 | `TypeOK`, `AddressesKept`, `CleanMeansWritten`, `ReachesDisk` |
| `recents_full_disk` | 1 player, 1 address | `CleanMeansSaved` fails (finding 2) |
| `overlay` | 2 threads, 3 notices, room for 2 | `DistinctTexts`, `DrawnInTime`, `LiveTarget`, `DueShown`, `Expires` |
| `overlay_lost` | the same | `NoticeShown` fails (finding 3) |
| `menu` | 4 pages, 2 servers, 2 recently seen, 2 players, 1 row a page, 2 keys of the game | `TypeOK`, `OnARow`, `NothingHeld`, `KeysReachShown`, `ClicksReachShown`, `OncePerPress` |
| `hosting` | 1 browser, 2 others, 2 places | `NeverOverfull`, `AdvertPace`, `HostIsFound` |
| `guards` | rings of 2 and 5 commands, 2 messages on their way, 2 config strings, 2 threads | `ReadsItsCommand`, `BuffersHold`, `FairRate`, `ElementsCapped`, `NestingHeld` |
| `main_thread` | 4 functions of different make, all of start-up, 3 slots, up to 3 frames | `CallsWhole`, `UsesSet`, `ShownAlive` |

### Bounds

- Server browser: two hosts are enough for one to be sorted past the other, to replace
  it at an index, or to be mixed with it in a torn row. One result row is enough for
  tearing, since successive fetches merge successive listings; two rows are there where
  a batch may hold a duplicate or name both hosts. Counts are 0 to 3, so that each side
  of "empty", "full" and "no limit" occurs. Nothing is capped: the loop indices are
  bounded by the row count and the length of the list. `server_list_live` has whole rows
  only because two torn ones are too many states for a run that checks liveness; the
  theorems on the safety properties among its own hold of torn rows as well.
- Recents: three players for two places make every scan evict; ages saturate at 2. The
  history is at its limit with three addresses for two places. `recents_full` has lists of
  two, so that a write may fail at the first line, the last, or after all of them. `MaxEntries >= Slots` is
  what the code has (200 and 36) and `ScannedStay` needs it.
- Overlay: three notices for two places; a lifetime of two ticks and a lag of at most
  one (`MaxLag`, in the guard of `TimePasses`) give ages on each side of every
  comparison and the wrap-around.

- Menu: one row a page makes two entries two pages, so that a list can shrink below the
  page it is at; the pointer reaches one of two players, as it reaches 12 of 18. Of the
  pages of settings there is one, the others differ in length only; `about` has no rows
  and is left out. Buttons come singly and in the pairs that compete. Servers,
  players and game keys are interchangeable, which the run uses as symmetry. Keys of the
  game are followed at the root and on one page only, with the lists empty and a player at
  most in the lobby (the constraint `MCKeysApart`): what a frame does with held keys does
  not depend on the page. Only safety is checked: what the menu does depends on the user
  alone.
- Hosting: two strangers can take both places while a probe is on its way, or leave one.
  The period is two units, so that there is a time before, at and after it. Several
  browsers do not affect one another but for the places, which the strangers take.
- Guards: a ring of two and five commands go round twice and a half. Two pieces fill
  the buffer of big config strings, two strings their pool, to the byte. The clock begins
  again after 8 units with a window of 3 (`2 * Span < Turn`, as in the code by far) and
  starts anywhere. Two threads and arrays two deep let one count be taken for another's.
  `MaxSequence`, `MaxFlight` and `MaxNest` are bounds in guards.
- Hooks: the functions are one that moves relative instructions and ends a byte before
  the jump does, one with a short jump, one that cannot be taken apart and one that is
  too long. One thread is enough: calls do not affect one another. A detour may be
  entered `MostDetours` times. Start-up is there in full. A banner of three frames has a
  first, a last and one between; three slots let an image move, and another take its place.

### Fairness

`ServerList!LiveSpec` assumes that frames keep being drawn (`tick` runs in each) and that
time passes. `Recents!LiveSpec` assumes that the main loop, which ends only with the
process, keeps running and that time passes. `Overlay!LiveSpec` assumes only that time
passes; that frames are drawn is a premise of `Expires`. `Hosting!LiveSpec` assumes that
time passes, that the game keeps calling the update of its session (it does so in every
frame), that fetches and rounds of probes keep coming, and strongly that a packet sent
again and again arrives whole and is answered in the end, and that the game does not for
ever drop a client before it has sent it a lobby state; that the host stays, advertises
and has room, and that the browser watches packets, are premises. Nothing is assumed of the user,
the network, the search service, the lobby or the disk: where a property needs them it
says so in its premise.

### Findings

1. `server_list_torn`: the search service writes rows without `g_lock`, and `fetch_batch`
   copies them at the same time. A server listed from a half written row has no contact or
   that of another host and keeps it as long as it is listed, since later rows only update
   its counts; every probe of it goes there.
2. `recents_full_disk`: `save` does not test the stream after opening it and clears `dirty`
   whatever became of the writes. On a full disk the file, truncated by the open, keeps a
   part of the list, and nothing is written again until somebody is met. What is left is the
   list's beginning, those seen last (`CleanMeansWritten`), and once the disk takes writes
   again the next save of a changed list is whole (`ReachesDisk`). With `Piped = {p1}` in
   `MCRecentsFullDisk.cfg` the property fails although every write succeeds: a name with a
   `|` is written unescaped and shifts the fields of its line, so that after a restart the
   player was last seen in 1970 and has no address.
3. `overlay_lost`: `draw_toasts` reads the clock before it takes the mutex. A notice
   posted in between, after the clock moved on, has a spawn time later than that clock;
   the unsigned difference wraps around and the toast is dropped unseen. A notice that was
   due when the clock was read is on the frame (`DueShown`), unless it is posted again,
   which gives it such a spawn time, or is pushed out by `max_toasts` newer ones.

### Observations

What the models had to make room for, and, but for the first, no document of the repository
denies:

- README line 83 says that the browser filters out full lobbies. `fetch_batch` filters out
  empty ones alone (`Prune`, `MergeAdds`); it is `probe_all` that skips full ones (`Joinable`).
- `g_lock` is initialised in `serverlist::initialize`, the last of all. The lobby message
  hook, which takes it for a join response or lobby state, and the first frame of the menu
  may come before that; so may calls of `signed_in` and `session_get` between the
  assignments of the pointers that `tick` tests and of these (`StartUp!Late`).
- A call that is in the first bytes of a function while `attach` writes them may be lost,
  and so may one that comes between the jump and `*original`: the detour then calls itself
  (`HookEngine!CallsWhole` speaks of calls begun afterwards, and of those that end).
- The main thread finds the image of the banner and writes to it later; an image the game
  loads into that slot in between is given the banner and keeps it (`Banner!raced`). An
  image loaded again into the slot it had before is taken to have the banner still, and is
  left without.
- The hook of the BG-cache checksum (`patches/servercmd/servercmd.cpp:243`) is commented
  out, though line 37 of the README lists it.
- A fault in the dump of a stack of less than four frames, taken by an `__except` further
  out, leaves `dump_lock` held (`utils/exceptions/exceptions.cpp:269`).

## 4. What is proved

The runs of section 3 look at small instances; the theorems hold for every value of the
constants that the modules' assumptions admit. They state every invariant and action
property of the passing runs, and both refinements, and beside them the types of `Overlay` and
`Hosting`, `OldestLeaves`, and when `NoticeShown` holds; liveness stays with TLC (see the end of
this section).

`Counting` has what several of the proofs need about places in a list, remainders and
sums, and states no property of the program. It gets by without induction over operators: a
sum is a recursive function, and where two of them would differ there is a least
place at which they do, because `<` on `Nat` is well-founded.

### Server browser

`ServerListProofs`, for every set of hosts and contacts, number of rows and set of
listings and packets:

| Theorem | States |
| --- | --- |
| `TypeCorrect` | `Spec => []TypeOK` |
| `NoHostListedTwice` | `Spec => []UniqueXuids` |
| `RostersAreTheirOwn` | `Spec => []RosterAttribution` |
| `AlwaysPresented` | `Spec => []Presented` |
| `DecisionsAlwaysHold` | `Spec => []DecisionsHold` |
| `RoundsCover` | `Spec => []RoundCoverage` |
| `NothingKnownIsLost` | `Spec => KeepsWhatIsKnown` |
| `ListImplementsBrowser` | `Spec => ImplementsBrowser` |

`TypeOK` is inductive, because it says that `cur` is a row while rows are merged. The
lemmas before it say what the operators the actions are built from return: a torn row is
a row (`MixesType`), an update of an entry leaves a list of entries (`UpdateType`), and
so does rearranging entries along a bijection (`ArrangedType`).

`UniqueXuids` and `RosterAttribution` are inductive given `TypeOK`. The argument goes
through the four ways in which the list can change at all (`ListSteps`): it stays as it
is, one entry is updated in place with its xuid kept (`UpdatesInPlace`), an entry of a
host that was not listed is appended (`AddsAtTheEnd`), or the entries of some indices
are rearranged (`PrunePermutes`). Each of the four keeps xuids apart, and each entry
that is new or updated gets the roster and lobby of the host it belongs to; the latter
uses `PacketsAssumption`.

`Presented`, `DecisionsHold` and `RoundCoverage` are inductive one upon the other. What
carries them is that the only step which touches the list while a round is on its way is
`SetPlayers`, and that it changes neither an entry's place nor whether it is joinable, and
never takes its lobby away (`SetPlayersEffect`, `SetPlayersKeepsJoinable`). `RoundCoverage` is one
set that grows with the index (`ProbedOneMore`).

The refinement maps an entry to the record `ServerBrowser` has of its host. A list without
duplicates gives each host one (`KnownAt`), and each step is then shown to be a step of the
browser or none: a row added (`AppearsStep`), erased (`LeavesStep`), filled in
(`AnswersStep`), sent a probe or joined (`SendsStep`), or a host that answered a join is told
who we are (`IntroducesStep`); sorting, scanning and everything to do with the lock is a stutter.

### Recently seen

`RecentsProofs`, for any players, addresses, slots, size of the list and of histories:

| Theorem | States |
| --- | --- |
| `RecentsTypeCorrect` | `Spec => []TypeOK` |
| `EveryPlayerOnce` | `Spec => []OnceEach` |
| `LobbyIsListed` | `Spec => []ScannedStay` |
| `OldestMakesRoom` | `Spec => OldestLeaves` |
| `AddressesAreKept` | `Spec => []AddressesKept` |
| `CleanIsOnDisk` | `Spec => []CleanMeansWritten` |
| `RecentsImplementLog` | `Spec => ImplementsLog` |

All rest on `RecentsInv`. `ScannedStay` alone is not inductive: `upsert` evicts an entry
of greatest age, and that this is none the scan has seen needs two facts (`ScanOK`). The
entries seen just now are exactly those the scan has seen, for time has passed since the
scan before; and the scan has seen fewer than there are slots, so that a full list
(`MaxEntries >= Slots`) holds an older one. `SaveOK` says that the file, wherever a
crash ended it, is the beginning of a list sorted by age, which reading and sorting it again
leaves as it is (`SortedFixed`). `KnownOK` says of each history that it holds the addresses
used and is complete while they are few enough: a full history, and one address more,
are too many (`FullHistory`).

`SaveOK` also says what is on disk while a save is on its way: the list up to `pos` while no
write has failed, and its beginning, the last line of it perhaps cut short, afterwards
(`LeftBegins`). `CleanMeansWritten` follows when the save ends, and is inductive (`WrittenNext`)
once a clean list is known to be in order, since a scan that meets nobody sorts it all the
same. That it stays true as time passes needs that ageing a line and loading it can change
places (`OlderWritten`), and after a restart that loading what was loaded changes nothing more
(`LoadedFound`). It asks nothing of the names: a `|` shifts fields when a line is read, and
`FoundAgain` compares what would be read.

The refinement reads a log from a list without caring where entries stand: whatever has
the age of each listed player and of nobody else is that log (`SeenIs`), so sorting is a
stutter (`SortedSeen`). A list knows as many players as it has entries, along a bijection
(`KnownInLog`), which is why the log is full when the list is. Then each operation on lists
is one on logs: growing older (`OlderSeen`), a line more (`AppendedSeen`), making room, which
gives up one of those seen longest ago (`RoomedSeen`), and load (`LoadedSeen`), which makes
mistakes only about players with a `|` in their names; for that `NamesOK` is needed, that
nobody else's line is marked so. A crash half way through a line leaves the log of the
file, or that with one more player (`LeftOK`).

### Overlay and notices

`OverlayProofs`, for any threads, notices, limits and lags:

| Theorem | States |
| --- | --- |
| `OverlayTypeCorrect` | `Spec => []TypeOK` |
| `NoticesAreUpOnce` | `Spec => []DistinctTexts` |
| `FramesDrawInTime` | `Spec => []DrawnInTime` |
| `TargetsAreLive` | `Spec => []LiveTarget` |
| `DueNoticesShow` | `Spec => DueShown` |

`OverlayInv` adds to `TypeOK`, `DistinctTexts` and `DrawnInTime` what `LiveTarget` lacks to
be inductive (`TargetHeld`): a target that exists is one of the buffers the game has now,
and holds a reference on them: with it, a resize that is not hooked yet fails instead of
leaving the target behind. The sweep is
shown to keep the entries it should, each at one place (`KeptOK`, `KeptStay`). `DueShown` needs
of every notice that is due that it is up, once, with an age of at least the lag, so that
`age - lag` does not wrap around, and of less than the lifetime by the clock the frame read
(`DueInTime`). Time adds to age and lag alike; a thread that posts leaves every other
notice its place and age or pushes it out (`OthersStay`), and then it is not due any more.

### Menu

`MenuProofs`, for any pages, rows, players, servers and keys, and any buttons a frame
finds down:

| Theorem | States |
| --- | --- |
| `MenuTypeCorrect` | `Spec => []TypeOK` |
| `AlwaysOnARow` | `Spec => []OnARow` |
| `ClicksReachWhatIsShown` | `Spec => ClicksReachShown` |
| `KeysReachWhatIsShown` | `Spec => KeysReachShown` |
| `EachPressOnce` | `Spec => OncePerPress` |
| `NothingStaysHeld` | `Spec => []NothingHeld` |

`OnARow` speaks of an open menu between `handle_input` and the body. `MenuInv` adds what
holds at the other times, when the lists may have shrunk since: the recently seen players,
which only grow, are at a page that exists and a row of it (`RecentsOK`), and the player
selected is one of those gathered. What
`handle_input` does to the menu is shown function by function: `clamp` (`ClampedFacts`),
turning a page (`TurnedFacts`), moving (`MovedFacts`), going back (`BackedFacts`), a
choice (`ActivatedFacts`, `ChosenFacts`), and put together in `InputHandled` and
`BodyLeaves`. `ShownInv` says that what was drawn is what the menu is at
when the next frame begins, which `KeysReachShown` needs; `PressedInv` that whatever
has been reacted to is latched; `KeysInv` that an open menu has been seen open by
`block_game_input`, except just after `handle_input`, and that the keys held since are excused.

### Hosting

`HostingProofs`, for any number of places, browsers and strangers:

| Theorem | States |
| --- | --- |
| `HostingTypeCorrect` | `Spec => []TypeOK` |
| `PlacesSuffice` | `Spec => []NeverOverfull` |
| `AdvertsArePaced` | `Spec => AdvertPace` |

`NeverOverfull` alone is not inductive: `hk_handle_member_info` counts up to 18, whatever
the session's places are. `Room` adds that a session has as many places as that, which is
what `hk_lobby_session_set_max_clients` is for, and that nobody is in a session there is not.
`AdvertPace` follows from `Paced`: the time the hook keeps is never ahead of the time since
the last update of the ad, as it is set to zero by every update, and otherwise to zero.

### Guards

`GuardsProofs`, about behaviours of the composition, for rings of any size, any number of
commands, threads and config strings, any limits, and a network that loses, repeats and reorders:

| Theorem | States |
| --- | --- |
| `ReadsAreRight` | `Spec => []ReadsItsCommand` |
| `BuffersStayHeld` | `Spec => []BuffersHold` |
| `RateStaysFair` | `Spec => []FairRate` |
| `NestingStaysHeld` | `Spec => []NestingHeld` |
| `ElementsStayCapped` | `Spec => []ElementsCapped` |

The invariant `RingInv` says of each ring that every number less than a ring's length old
is in its slot (`Holds`), of each message that it is a row of successive commands under
their own numbers, and that it begins no later than behind what the client has or spans a
whole ring; and of what the server takes as acknowledged that the client has it or that it
is older than the ring. The clamp of `hk_write_reliable_commands` gives the last two
(`ClampType`), and they give the first at the client (`KeptHolds`). The arithmetic is one fact:
two numbers that share a slot are a ring apart (`Apart`).

`BuffersHold` is inductive with lengths that are lengths (`TextInv`): a new config string is
tested against what the others take, which is the pool without its own part (`PoolSplit`).

`FairRate` is about what passed in the last two spans, and is not inductive. `RateInv`
splits it at the age of the window: what has passed in the window is what was counted,
up to the limit, and what passed before it is at most one window's worth. The clock's own
difference is that age until it has gone round (`AgeOK`); after that the window may begin
anew or go on, which is why `FairRate` excuses a drop then. The sums
move with the time (`SumShifted`) and fall apart at the age (`SumJoined`).

`Printing` adds that nothing is nested outside of printing, so that the outermost call may
set the depth to nothing. `ArraysCounted` says that only a thread's innermost array can be
followed, and that the thread's count is then that array's.

### Hook engine and banner

`MainThreadProofs`, about behaviours of the composition, for any functions, whatever their
instructions, any threads, images and frames:

| Theorem | States |
| --- | --- |
| `CallsComeThrough` | `MainSpec => []CallsWhole` |
| `BannersAreAlive` | `MainSpec => []ShownAlive` |
| `PointersAreThere` | `MainSpec => []UsesSet` |

`HookInv` follows a call: what it has run is what stands before the instruction it is at
(`RunOK`), it is through a jump only where there is one (`PatchedOK`), and one begun after
`attach` was done has entered the detour once as soon as it is past what was moved
(`FreshOK`). That the jump fits into what was moved is a sum over instructions
(`OffsetFacts`, `MovedFirst`).

`BannerInv` says that there is one front-end image, that a view in an image that is drawn
is one of `g_views` and the image is the one that was given them, and that the image the
main thread holds while it works is still the front end's or has been taken out of
account (`raced`).

`UsesSet` has no parameters but a script of 173 steps, which is proved about
row by row. A row of steps gives pointers (`Gives`), hooks nothing that uses others'
(`HooksNone`), or hooks each of some functions only where what its detour uses has been given
(`ReadyFor`); `Joined` puts two rows together, `SetsRow`, `HooksRow` and `NamesRow` say so of
the rows the script is made of. Most components use what they have set before they hook
anything (`KeepsToItself`). The others are taken one by one: the lobby message hook
(`LobbyRow`), hosting (`MatchmakingRow`), the overlay whose detours run the menu
(`GoingToOverlay`), the browser (`ServerlistRow`) and the render thread's first frame
(`FirstFrameRow`); `ScriptRow` is the whole. `StartIInv` is small then: the render thread has
begun only if `Present` is hooked, and the list has hosts only if the menu is up and the
search is hooked.

### Assumptions

The proofs use the assumptions named in the component modules, which TLC evaluates on the
instances. Beside types and finiteness they are: limits that are constants in the code
and not nothing (`JumpBytes`, `MostDetours`, `BcsMax`, `PoolMax`); `MaxEntries >= Slots`
(200 and 36); a clock that takes long to go round (`2 * Span < Turn`); and pages of settings that are
none of the pages of lists (`Menu`). No theorem has a hypothesis beside these: rows may be
torn, names may hold a `|`, writes may fail, and a frame may wait for the mutex for any time.

### Only model-checked

- Liveness: `ProbedAgain` and `EmptyLeaves` of `ServerList`, `ReachesDisk` of `Recents`,
  `Expires` of `Overlay`, `HostIsFound` of `Hosting`. Fairness, which all of them rest on,
  speaks of ENABLED, and that is beyond the prover.
- What the three findings refute, by a counterexample each.

## 5. Not modelled, and the plan

What is left of the components that keep state is small: `hk_message_format` and the
hooks of single conditions beside the guards that are modelled, Steam lobby chat, and the
logo in the menu, which is written once.

Left out for good:

- decisions on one packet or string that keep nothing (`demonware`, `oob`, `p2p`,
  `infoleak`, `presence`, `clientcmd`, four hooks of `netchan`, and the patches of one
  condition): a model would repeat the condition. When they are hooked is in `StartUp`;
- text functions (`markup`, `callvote`): whether what they make of a string is safe is
  decided by the game's parser, which is not in this repository, so there is no reference
  to check them against;
- the movement tick: arithmetic on the time of one frame;
- drawing, fonts and the composition of frames (pixels and Direct3D resources), the length
  disassembler (a table), engine bindings (addresses and layouts), resource and memory
  wrappers, the packets of the test harness, logging and the writer of dumps. What a fault
  inside that writer leads to is decided by handlers of the game's and of Windows.

Not stated: that the compositions behave like their parts (`Guards` and `MainThread`, each
seen through the variables of one part). The theorems on a part are stated of the
composition instead. `Hosting` and `Overlay` have no abstract specification of their own:
what they promise is what their properties say.
