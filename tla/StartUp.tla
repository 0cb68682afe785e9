-------------------------------- MODULE StartUp --------------------------------
(***************************************************************************)
(* The order in which the program comes to life (dllmain and every         *)
(* initialize): pointers are set and functions hooked one by one, and from *)
(* the moment a function is hooked the game's threads run its detour,      *)
(* which uses pointers of its own and of other components.                 *)
(*                                                                         *)
(* A script is a row of steps that each set a pointer (or a lock) or hook  *)
(* a function; a pointer is named after the function. Hooking may fail,    *)
(* which only leaves out calls, and so is not modelled here; HookEngine is *)
(* about the hooking itself.                                               *)
(*                                                                         *)
(* Left out: initialize()s that neither set nor hook, and what the game    *)
(* itself provides, which is there from the beginning.                     *)
(***************************************************************************)
EXTENDS Integers, Sequences

VARIABLES
  done,    \* steps of the main thread's script that are done
  frames,  \* steps of the render thread's script that are done
  listed   \* the server browser has listed a host

startVars == <<done, frames, listed>>

Set(x)  == [op |-> "set", what |-> x]
Hook(f) == [op |-> "hook", what |-> f]

Sets(names) == [i \in 1 .. Len(names) |-> Set(names[i])]

\* The pointer to each function, and then its hook: what most components do.
Hooks(names) ==
  [i \in 1 .. 2 * Len(names) |-> IF i % 2 = 1 THEN Set(names[(i + 1) \div 2])
                                           ELSE Hook(names[i \div 2])]

\* Mutant: the entry is replaced before it is saved.
PatchedVtableHastily(f) == <<Hook(f), Set(f)>>

\* patch_vtable: an entry of a table of functions is saved, and then replaced.
PatchedVtable(f) == <<Set(f), Hook(f)>>

-----------------------------------------------------------------------------
(* The components, in the order of their files' initialize().               *)

Demonware == Hooks(<<"dispatch_demonware", "build_info_response">>)
Oob       == Sets(<<"cl_connectionless", "sv_connectionless">>)
               \o <<Hook("cl_connectionless"), Hook("sv_connectionless")>>
Mspreload == Hooks(<<"get_config_string">>)
Callvote  == Hooks(<<"vote_update">>)
Presence  == Hooks(<<"presence_serialize", "presence_pack">>)

Lobbymsg ==
  Sets(<<"prep_read", "lobby_state_package", "type_name", "package_int", "package_xuid">>)
    \o Hooks(<<"array_start", "array_element">>)
    \o Sets(<<"package_short", "package_uint", "package_uint64", "package_uchar", "package_bool",
              "package_string", "package_ushort", "package_data">>)
    \o Hooks(<<"handle_packet", "print_debug", "print_array", "print_message">>)

Matchmaking ==
  Sets(<<"join_package", "send_join_response", "global_channel", "host_lobby_state",
         "client_count", "add_joining_client", "package_glob", "fixed_client_info",
         "mutable_client_info">>)
    \o Hooks(<<"handle_join_request", "handle_member_info">>)
    \o Sets(<<"host_session", "qos_listener", "session_update", "create_session",
              "ffotd_version", "playlist_version">>)
    \o Hooks(<<"set_matchmaking_info", "update_matchmaking_session", "set_max_clients",
               "task_search", "can_host_server">>)
    \o Sets(<<"write_uint32">>) \o Hooks(<<"session_id_serialize">>)

Infoleak  == Hooks(<<"net_send_packet", "steam_gs_pump", "presence_friendadd", "presence_steamid">>)
Inventory == Hooks(<<"item_quantity", "extra_slots", "item_purchased">>)
Markup    == Hooks(<<"markup_parse_a", "markup_parse_b", "markup_interp">>)
Notetrack == Hooks(<<"notetrack_lookup">>)
Paragon   == Hooks(<<"paragon_icon_name">>)
P2p       == Hooks(<<"p2p_send", "p2p_dispatch", "p2p_accept">>)
Netchan   == Hooks(<<"parse_gamestate", "write_reliable_commands", "sv_packet_event",
                     "net_get_packet", "netchan_reassemble">>)
Steamqol  == Hooks(<<"dlc_installed", "app_installed", "friend_list_rebuild", "dlc_progress">>)
               \o Sets(<<"validate_auth">>)
Hotkeys   == Hooks(<<"frame_callback">>) \o Sets(<<"cbuf_add_text">>)
Workshop  == Hooks(<<"apply_game_state">>)
Servercmd == Hooks(<<"get_server_command", "message_format", "set_config_string">>)
               \o Sets(<<"bg_cache_checksum">>) \o Hooks(<<"match_bitmask">>)
Clientcmd == Sets(<<"cmd_argv">>) \o Hooks(<<"client_command", "client_mrp">>)
Video     == Hooks(<<"play_video">>) \o Sets(<<"cinematic_open">>)
Perf      == Hooks(<<"fps_cap">>)
Lod       == Hooks(<<"lod_params">>)
Texstream == Hooks(<<"stream_throttle">>)
Movement  == Hooks(<<"pmove">>)
Overlay   == PatchedVtable("present") \o PatchedVtable("resize_buffers")

Serverlist ==
  Sets(<<"g_lock", "allocate_structs", "search_session", "fetching_done", "signed_in",
         "session_get", "find_sessions", "send_join", "content_packs", "net_field_checksum",
         "register_sec", "common_to_netadr", "send_member_info", "netadr_to_common">>)
    \o <<Hook("find_sessions")>>

\* demonware::tick, in the main loop, once there is a table to patch.
DemonwareTick == PatchedVtable("dispatch_steam")

\* main_thread.
Script ==
  Demonware \o Oob \o Mspreload \o Callvote \o Presence \o Lobbymsg \o Matchmaking
    \o Infoleak \o Inventory \o Markup \o Notetrack \o Paragon \o P2p \o Netchan \o Steamqol
    \o Hotkeys \o Workshop \o Servercmd \o Clientcmd \o Video \o Perf \o Lod \o Texstream
    \o Movement \o Overlay \o Serverlist \o DemonwareTick

\* menu::initialize, in the first frame with the overlay, and send::initialize under it.
FirstFrame ==
  Sets(<<"key_event", "mouse_move">>) \o <<Hook("key_event"), Hook("mouse_move")>>
    \o Sets(<<"oob_print", "prep_write", "frame_send", "frame_send_addr", "channel_for",
              "package_float", "write_byte">>)

-----------------------------------------------------------------------------
(* What detours use.                                                        *)

Use(x) == [what |-> x, given |-> {}]

\* Used only where all of these have been found to be there: tests for null, and rows in
\* the list of the browser.
UseGiven(x, names) == [what |-> x, given |-> names]

All(names) == {Use(x) : x \in names}
AllGiven(names, given) == {UseGiven(x, given) : x \in names}

\* hk_handle_packet_internal, with what it calls in the browser. Of a host that is listed
\* it answers the join response.
OfHandlePacket ==
  All({"prep_read", "type_name", "package_int", "package_xuid", "package_uint",
       "package_uchar", "package_ushort", "package_data", "package_string", "package_uint64",
       "g_lock"})
    \cup AllGiven({"global_channel"}, {"listed", "send_member_info", "session_get"})

OfJoinRequest == All({"join_package", "global_channel", "send_join_response"})

OfMemberInfo ==
  All({"package_glob", "package_uint64", "package_int", "fixed_client_info",
       "mutable_client_info", "host_lobby_state", "client_count", "add_joining_client"})

OfMatchmakingInfo == All({"set_matchmaking_info", "ffotd_version", "playlist_version"})
OfUpdateSession   == OfMatchmakingInfo \cup All({"host_session", "qos_listener", "session_update"})

\* dispatch_probe of a listed host.
OfProbe ==
  AllGiven({"register_sec", "common_to_netadr", "global_channel", "playlist_version",
            "ffotd_version", "net_field_checksum", "content_packs"}, {"listed", "send_join"})

\* The menu, every frame: serverlist::tick, the page of servers, the rows that send and
\* that create a session.
OfMenu ==
  AllGiven({"signed_in", "session_get", "g_lock"}, {"search_session", "fetching_done"})
    \cup OfProbe \cup All({"g_lock"}) \cup AllGiven({"create_session"}, {"host_session"})
    \cup All({"oob_print", "prep_write", "frame_send", "frame_send_addr", "channel_for",
              "package_float", "write_byte", "package_int", "package_xuid", "package_short",
              "package_uint", "package_uint64", "package_uchar", "package_bool",
              "package_string", "array_start", "array_element"})

\* What a detour uses besides calling the function it stands for.
Uses(f) ==
  All({f} \ {"menu"}) \cup
  CASE f = "handle_packet"              -> OfHandlePacket
    [] f = "handle_join_request"        -> OfJoinRequest
    [] f = "handle_member_info"         -> OfMemberInfo
    [] f = "set_matchmaking_info"       -> OfMatchmakingInfo
    [] f = "update_matchmaking_session" -> OfUpdateSession
    [] f = "session_id_serialize"       -> All({"write_uint32"})
    [] f \in {"client_command", "client_mrp"} -> All({"cmd_argv"})
    [] f = "menu"                       -> OfMenu
    [] OTHER                            -> {}

-----------------------------------------------------------------------------
StartTypeOK == done \in 0 .. Len(Script) /\ frames \in 0 .. Len(FirstFrame) /\ listed \in BOOLEAN

StartInit == done = 0 /\ frames = 0 /\ listed = FALSE

Performed == {Script[i] : i \in 1 .. done} \cup {FirstFrame[i] : i \in 1 .. frames}
Hooked    == {step.what : step \in {s \in Performed : s.op = "hook"}}
Present   == {step.what : step \in {s \in Performed : s.op = "set"}}

\* Detours that threads may be in. The rest of a frame comes after the first frame's
\* script, on the same thread.
Running == Hooked \cup (IF frames = Len(FirstFrame) THEN {"menu"} ELSE {})

\* What a use tests for is there.
Tested(use) == use.given \ {"listed"} \subseteq Present /\ ("listed" \in use.given => listed)

MainStep ==
  /\ done < Len(Script)
  /\ done' = done + 1
  /\ UNCHANGED <<frames, listed>>

RenderStep ==
  /\ "present" \in Hooked /\ frames < Len(FirstFrame)
  /\ frames' = frames + 1
  /\ UNCHANGED <<done, listed>>

\* A search has put a host into g_results, which hk_find_sessions is needed for, and a
\* fetch has found it there.
Lists ==
  /\ ~listed
  /\ "menu" \in Running /\ {"search_session", "fetching_done"} \subseteq Present
  /\ "find_sessions" \in Hooked
  /\ listed' = TRUE
  /\ UNCHANGED <<done, frames>>

Started == done = Len(Script) /\ frames = Len(FirstFrame)

StartNext == MainStep \/ RenderStep \/ Lists

-----------------------------------------------------------------------------
(* Properties.                                                              *)

\* What comes too late: the browser's lock, for packets and the menu, which are there
\* before it; and two pointers that serverlist::tick calls without a test, for as long as
\* initialize takes from those it tests to these.
Late == {<<"handle_packet", "g_lock">>, <<"menu", "g_lock">>,
         <<"menu", "signed_in">>, <<"menu", "session_get">>}

\* Whatever thread runs through a hook at any time during start-up, everything the detour
\* uses without testing for it has been set, but for the four that come too late: for 26
\* components, two threads and what they use of one another the order in main_thread is
\* one that works.
UsesSet ==
  \A f \in Running : \A u \in Uses(f) :
    Tested(u) => u.what \in Present \/ <<f, u.what>> \in Late
=============================================================================
