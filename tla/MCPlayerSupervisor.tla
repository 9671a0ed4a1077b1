------------------------ MODULE MCPlayerSupervisor --------------------------
(***************************************************************************)
(* Instances of PlayerSupervisor small enough for TLC: two rooms that can  *)
(* swap sound cards, and one room whose level is pressed, pushed and set   *)
(* live.                                                                   *)
(***************************************************************************)
EXTENDS PlayerSupervisor, TLC

CONSTANTS a, b, u, t1, t2

Conf(card, volume, muted) == [output |-> card, volume |-> volume, muted |-> muted, delay |-> 0]

Want(url, first, second) == [url |-> url, want |-> (1 :> first) @@ (2 :> second)]

\* Two rooms: both cards in use, the cards swapped, one room (louder than the
\* scale goes).
TwoRooms ==
  { Want(u, Conf(a, 0, FALSE), Conf(b, 1, FALSE)),
    Want(u, Conf(b, 1, FALSE), Conf(a, 1, FALSE)),
    Want(u, Conf(a, 2, FALSE), None) }

\* One room, asked for at two levels, muted at one of them; and no endpoint.
OneRoom ==
  { [url |-> u, want |-> 1 :> Conf(a, 3, FALSE)],
    [url |-> u, want |-> 1 :> Conf(a, 1, TRUE)],
    [url |-> None, want |-> 1 :> Conf(a, 1, TRUE)] }

Ask(client, intent, by) == [client |-> client, intent |-> intent, by |-> by]

NoPresses == {}
RemotePresses == { Ask(1, "step", 2), Ask(None, "step", -2), Ask(1, "set", 5) }

NoLive == {}
LiveMoves == { [volume |-> 0, muted |-> FALSE], [volume |-> 2, muted |-> TRUE] }
=============================================================================
