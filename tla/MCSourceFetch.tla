--------------------------- MODULE MCSourceFetch ---------------------------
EXTENDS SourceFetch

\* The answers the transport tells apart.
answer(status, body) ==
    [status |-> status, body |-> body, target |-> FALSE, readable |-> TRUE, retry_after |-> "none"]

Answers ==
    {answer(200, "new"), [answer(200, "new") EXCEPT !.readable = FALSE], answer(304, "none"),
     [answer(301, "none") EXCEPT !.target = TRUE], answer(302, "none"), answer(403, "none"),
     answer(429, "none"), answer(503, "none"), [answer(503, "none") EXCEPT !.retry_after = "never"]}

\* For two executions of a monitor: a 304, and bodies equal to and different
\* from the capture of the earlier request.
Observations == {answer(200, "old"), answer(200, "new"), answer(304, "none")}

\* A pipeline in every cache mode, with all answers; the capture it starts
\* from may be damaged.
AnyMode ==
    [monitor |-> FALSE, modes |-> CacheModes, executions |-> 1, rows |-> 2,
     responses |-> Answers, damageable |-> {Base}]

\* One that conditionally fetches, with all its attempts: a result, a hop,
\* and errors that are retried with and without a wait.
Retried == {answer(200, "new"), [answer(301, "none") EXCEPT !.target = TRUE], answer(429, "none"),
            answer(503, "none")}

AllAttempts ==
    [AnyMode EXCEPT !.modes = {"conditional"}, !.rows = 3, !.responses = Retried, !.damageable = {}]

\* A monitor whose first execution is lost at any point and taken over.
TakenOver ==
    [monitor |-> TRUE, modes |-> {"conditional"}, executions |-> 2, rows |-> 1,
     responses |-> Observations, damageable |-> {}]

\* The same with a second attempt after a failed transfer.
TriedAgain == [TakenOver EXCEPT !.rows = 2, !.responses = {answer(200, "new")}]

\* The same with one attempt each, whose file may be damaged: before the
\* worker reads it back, or before the next execution replays it.
FileDamaged == [TakenOver EXCEPT !.responses = {answer(200, "new")}, !.damageable = {<<1, 1>>}]

Five ==
    [any |-> AnyMode, all |-> AllAttempts, monitor |-> TakenOver, again |-> TriedAgain,
     damaged |-> FileDamaged]
=============================================================================
