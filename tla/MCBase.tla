------------------------------- MODULE MCBase -------------------------------
(***************************************************************************)
(* The instance of Base that TLC checks: four threads, of which a and b are  *)
(* readers, c a writer and pw a pool worker in some worlds; in others a is  *)
(* a worker or the owner of a JobQueue, b another pool worker, and c deletes*)
(* callbacks or is the main thread.                                         *)
(***************************************************************************)
EXTENDS Base, TLC

CONSTANTS a, b, pw   \* threads: see Base.cfg for what they are

MCTimers == {"reclaim", "flush", "tick"}
MCSlowTimers == {"reclaim", "flush"}

Of(m, n) == (a :> m) @@ (b :> n)

\* Nobody does anything.
Idle == [default |-> TRUE, keeps |-> Of(0, 0), objects |-> 0, workers |-> {}, deleters |-> {},
         timers |-> {}, killed |-> {}, pool |-> {pw}, dpcs |-> (a :> 0), terminates |-> FALSE]

MCWorlds ==
    {\* One reader keeps an object twice, with a cached entry.
     [Idle EXCEPT !.keeps = Of(2, 0), !.objects = 1],
     \* Two objects are retired while one reader keeps one, and the timer reclaims too.
     [Idle EXCEPT !.keeps = Of(1, 0), !.objects = 2, !.timers = {"reclaim"},
                  !.default = FALSE],
     \* Two readers compete for the entries of a domain without caches.
     [Idle EXCEPT !.keeps = Of(1, 1), !.objects = 1, !.default = FALSE],
     \* Callbacks are set and deleted while a worker calls them, again and again.
     [Idle EXCEPT !.workers = {a}, !.deleters = Deleters],
     \* One thread queues a call and exits while the runtime ends.
     [Idle EXCEPT !.dpcs = (a :> 1), !.terminates = TRUE],
     \* One queues two calls and exits while two pool workers flush its queue.
     [Idle EXCEPT !.dpcs = (a :> 2), !.pool = {b, pw}],
     \* One thread queues a call; a fast timer runs until it is killed.
     [Idle EXCEPT !.dpcs = (a :> 1), !.timers = {"tick"}, !.killed = {"tick"}],
     \* The timer of a domain is killed.
     [Idle EXCEPT !.timers = {"reclaim"}, !.killed = {"reclaim"}]}
=============================================================================
