-------------------------- MODULE MCStreamConnection --------------------------
(***************************************************************************)
(* StreamConnection with two users, two buffers of two bytes and one, two  *)
(* fibers for each event, and a set of scenarios: each one allows a few    *)
(* things to happen, in every order.                                       *)
(***************************************************************************)
EXTENDS StreamConnection

CONSTANTS b1, b2

MCCallers == Users \cup ({"write"} \X Ids)
MCSize == [b \in Buffers |-> IF b = b1 THEN 2 ELSE 1]
MCLimits == 1..Infinity

Anything == {"Success", "WannaRead", "WannaWrite", "Error"}

Always(statuses) == [c \in {"user", "read", "write"} |-> statuses]

Calm == [arrivals |-> [read |-> 0, write |-> 0], pauses |-> 0,
         handshakes |-> Always({"Success"}), eager |-> FALSE, restarts |-> 0,
         quotas |-> {Infinity}, losses |-> {}, buffers |-> {}, stop |-> FALSE]

\* Writing, reading, shaking hands and being lost, each with what disturbs it.
MCScenarios ==
    {[Calm EXCEPT !.arrivals.write = 1, !.buffers = {b1, b2}],
     [Calm EXCEPT !.arrivals.write = 1, !.buffers = {b1}, !.quotas = {0, 1, Infinity},
                  !.pauses = 1],
     [Calm EXCEPT !.arrivals.read = 1, !.pauses = 1, !.stop = TRUE],
     [Calm EXCEPT !.arrivals.read = 2, !.pauses = 2],
     [Calm EXCEPT !.arrivals.read = 2, !.pauses = 2, !.restarts = 1],
     [Calm EXCEPT !.arrivals.read = 1, !.handshakes = Always(Anything), !.buffers = {b1}],
     [Calm EXCEPT !.arrivals.write = 1, !.handshakes = Always(Anything), !.buffers = {b1}],
     [Calm EXCEPT !.arrivals.read = 1, !.arrivals.write = 1,
                  !.handshakes = Always(Anything \ {"Error"})],
     [Calm EXCEPT !.arrivals.write = 1, !.buffers = {b1}, !.stop = TRUE],
     [Calm EXCEPT !.buffers = {b1, b2}, !.losses = {"closed"}],
     [Calm EXCEPT !.arrivals.write = 1, !.buffers = {b1}, !.losses = {"closed"}],
     [Calm EXCEPT !.arrivals.read = 1, !.losses = {"closed"}],
     [Calm EXCEPT !.buffers = {b1}, !.losses = {"failed"}, !.stop = TRUE],
     [Calm EXCEPT !.arrivals.read = 1, !.losses = {"error", "failed"}, !.stop = TRUE]}

\* A handshake that ends with a message that is sent, for which StartHandshaking
\* found no room: it succeeds in OnWritable, whether or not a writer is waiting.
EagerScenarios ==
    {[Calm EXCEPT !.arrivals.write = 1, !.buffers = {b1}, !.eager = TRUE,
                  !.handshakes = [user |-> {"WannaWrite"}, read |-> {}, write |-> {"Success"}]]}
=============================================================================
