--------------------------- MODULE MCServiceRuntime ---------------------------
(***************************************************************************)
(* A small instance of ServiceRuntime for TLC: three tasks, whose          *)
(* dependencies are a fork, a chain, a cycle, or name a task that is       *)
(* missing, with the signals of the operating system or two health checks. *)
(***************************************************************************)
EXTENDS ServiceRuntime

CONSTANTS db, cache, job, missing

On(c, j, d) == [t \in Tasks |-> CASE t = cache -> c [] t = job -> j [] t = db -> d]

Fork == On({db}, {db}, {})
Chain == On({db}, {cache}, {})
Cycle == On({db, job}, {cache}, {})
Missing == On({db}, {missing}, {})

Plain(g) == [deps |-> g, checked |-> TRUE, checks |-> <<>>, own |-> TRUE]
Alone == [t \in {db} |-> {}]

SixSetups ==
    {Plain(Fork), Plain(Cycle), Plain(Missing), [Plain(Chain) EXCEPT !.own = FALSE],
     [Plain(Alone) EXCEPT !.checks = <<"database", "disk">>],
     [Plain(Alone) EXCEPT !.checked = FALSE]}

==============================================================================
