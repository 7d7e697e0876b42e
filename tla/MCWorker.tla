------------------------------ MODULE MCWorker ------------------------------
(* Small instances of Worker for TLC. *)
EXTENDS Worker

Usual == [transport |-> "cli", mode |-> "inspect", max |-> 2,
          git |-> TRUE, idle |-> TRUE, noplace |-> FALSE]

\* The combinations that take different paths: a read-only task that may be
\* retried, one that may not, one outside git, an API provider, and a model
\* without its placeholder.
Options == {Usual,
            [Usual EXCEPT !.mode = "implement"],
            [Usual EXCEPT !.git = FALSE, !.idle = FALSE],
            [Usual EXCEPT !.transport = "api"],
            [Usual EXCEPT !.noplace = TRUE]}

UsualOnly == {Usual}
=============================================================================
