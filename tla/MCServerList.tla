---------------------------- MODULE MCServerList ----------------------------
(* Small instances of ServerList. *)
EXTENDS ServerList

CONSTANTS h1, h2,     \* two hosts
          c1, c2      \* a contact of each

Row(x, a, n, m, d) == [xuid |-> x, addr |-> a, num |-> n, max |-> m, ded |-> d]

\* Two servers for the run with torn rows: h1 full; h2 with room, fewer players or
\* none. Torn against a zeroed row they also have no type, no contact, ... They
\* share a contact, which no property of that run tells apart.
MCTornListings == {Row(h1, c1, 2, 2, TRUE), Row(h2, c1, 1, 0, TRUE),
                   Row(h2, c1, 0, 0, TRUE)}

\* For the run with whole rows: h1 dedicated, empty or with room; h2 listed with
\* more players and not dedicated.
MCWholeListings == {Row(h1, c1, 0, 3, TRUE), Row(h1, c1, 1, 3, TRUE),
                    Row(h2, c2, 2, 0, FALSE)}

Answer(x, a, k, l) == [from |-> x, kind |-> k, addr |-> a, lobby |-> l]

MCOnePacket == {Answer(h1, c1, "lobby_state", h1)}

MCPackets == {Answer(h2, c2, "join_response", NoHost),
              Answer(h1, c1, "lobby_state", NoHost),
              Answer(h1, c1, "lobby_state", h1)}
=============================================================================
