-------------------------------- MODULE MCRpc --------------------------------
(* The instance of Rpc that is model-checked.                              *)
EXTENDS Rpc

CONSTANTS c1, c2, r1, r2, single

CallShards == <<{c1}, {c2, single}>>
Forwarding == r1 :> c1 @@ r2 :> c2

NoClient == [multiplexable |-> TRUE, calls |-> {}, timed |-> {}, replies |-> 0, strays |-> 0,
             mistyped |-> 0, cancels |-> 0, failures |-> 0, losses |-> 0, purges |-> 0, stops |-> 0]
NoServer == [relay |-> FALSE, requests |-> {}, accepts |-> 0, losses |-> 0, cleanups |-> 0,
             shutdowns |-> 0]
Two == [NoClient EXCEPT !.calls = {c1, c2}]
Exclusive == [Two EXCEPT !.multiplexable = FALSE, !.replies = 2]
Server == [NoServer EXCEPT !.requests = {r1, r2}, !.accepts = 2, !.shutdowns = 1]

\* Calls on shared gates.
Shared == {
    [Two EXCEPT !.timed = {c1}],
    [Two EXCEPT !.timed = {c1}, !.replies = 1, !.strays = 1],
    [NoClient EXCEPT !.calls = {c1}, !.timed = {c1}, !.losses = 1],
    [NoClient EXCEPT !.calls = {c1}, !.timed = {c1}, !.mistyped = 1],
    [Two EXCEPT !.replies = 1, !.losses = 1, !.failures = 1],
    [Two EXCEPT !.purges = 1],
    [Two EXCEPT !.timed = {c1}, !.replies = 1, !.stops = 1],
    [Two EXCEPT !.timed = {c1}, !.replies = 1, !.cancels = 1]}

\* Calls on gates of their own.
Exclusives == {
    [Exclusive EXCEPT !.timed = {c1}, !.stops = 1],
    [Exclusive EXCEPT !.timed = {c1, c2}, !.replies = 1],
    [Exclusive EXCEPT !.purges = 1],
    [Exclusive EXCEPT !.losses = 1],
    [Exclusive EXCEPT !.failures = 1]}

Servers == {
    Server,
    [Server EXCEPT !.losses = 1],
    [Server EXCEPT !.requests = {r1}, !.cleanups = 1]}

\* Requests that are forwarded.
Relays == {[client |-> [NoClient EXCEPT !.calls = {c1}, !.timed = {c1}, !.replies = 1, !.stops = 1],
            server |-> [Server EXCEPT !.relay = TRUE, !.requests = {r1}, !.accepts = 1]]}

AllWorlds == {[client |-> c, server |-> NoServer] : c \in Shared \cup Exclusives}
             \cup {[client |-> NoClient, server |-> s] : s \in Servers}
             \cup Relays

\* A call is under way when the pools are stopped.
JoinWorlds == {[client |-> [NoClient EXCEPT !.calls = {c1}, !.stops = 1], server |-> NoServer]}
===============================================================================
