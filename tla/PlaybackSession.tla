--------------------------- MODULE PlaybackSession ---------------------------
(***************************************************************************)
(* What the playback of a record promises, without the protocol: three     *)
(* exchanges in their order, none skipped and none repeated, each with a   *)
(* socket of its own that is gone before the next is begun; media in the   *)
(* last one only; and that a playback is only taken for complete if its    *)
(* media came to their end, nothing of them was kept back, and no socket   *)
(* is left.                                                                *)
(***************************************************************************)
EXTENDS Naturals

VARIABLES
    phase,     \* where the playback is
    exchange,  \* how many exchanges it has begun
    held,      \* the exchanges whose sockets are not gone
    owed       \* media has come that was not given out

vars == <<phase, exchange, held, owed>>

Exchanges == 3

Over == {"off", "complete"}

Init ==
    /\ phase = "off"
    /\ exchange = 0
    /\ held = {}
    /\ owed = FALSE

\* A playback that is over is followed by a new one, which may end before it has
\* begun an exchange.
Begin ==
    /\ phase \in Over
    /\ held = {}
    /\ \/ phase' = "off" /\ exchange' = 0
       \/ phase' = "asking" /\ exchange' \in {0, 1}
    /\ held' = 1..exchange'
    /\ owed' = FALSE

\* The next exchange needs that the socket of the one before is gone.
Ask ==
    /\ phase = "asking"
    /\ exchange < Exchanges
    /\ held = {}
    /\ exchange' = exchange + 1
    /\ held' = {exchange'}
    /\ UNCHANGED <<phase, owed>>

\* Media comes in the last exchange, on its socket.
GoLive ==
    /\ phase = "asking"
    /\ exchange = Exchanges
    /\ held = {Exchanges}
    /\ phase' = "media"
    /\ UNCHANGED <<exchange, held, owed>>

Collect ==
    /\ phase = "media"
    /\ owed' \in BOOLEAN
    /\ UNCHANGED <<phase, exchange, held>>

\* The media has come to its end, and what was collected is given out.
MediaEnd ==
    /\ phase = "media"
    /\ phase' = "ending"
    /\ owed' = FALSE
    /\ UNCHANGED <<exchange, held>>

Complete ==
    /\ phase = "ending"
    /\ held = {}
    /\ phase' = "complete"
    /\ exchange' = 0
    /\ UNCHANGED <<held, owed>>

\* What is broken off never completes.
BreakOff ==
    /\ phase \in {"asking", "media", "ending"}
    /\ phase' = "leaving"
    /\ UNCHANGED <<exchange, held, owed>>

\* It is over at once if no media flows: a connect that fails closes its own socket, and
\* a closing socket need not be waited for.
GiveUp ==
    /\ phase \in {"asking", "ending", "leaving"}
    /\ phase' = "off"
    /\ exchange' = 0
    /\ held' \in {held, {}}
    /\ UNCHANGED owed

\* A closed socket goes away, never one that media flows on.
SocketGone ==
    /\ phase # "media"
    /\ held # {}
    /\ held' = {}
    /\ UNCHANGED <<phase, exchange, owed>>

Next ==
    \/ Begin \/ Ask \/ GoLive \/ Collect \/ MediaEnd \/ Complete
    \/ BreakOff \/ GiveUp \/ SocketGone

Spec == Init /\ [][Next]_vars
=============================================================================
