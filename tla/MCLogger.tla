------------------------------ MODULE MCLogger ------------------------------
(* Small instances of Logger for TLC. *)
EXTENDS Logger, TLC

CONSTANTS w1, w2, w3

Decompress(policies, nulls, n) ==
  [policy : policies, command : {"decompress"}, devNull : nulls, threads : {n}]

\* Two threads that never really ask while they hold the output locks; one
\* thread with a terminal; the main thread alone with every policy.
SafeOptions ==
  Decompress({"AlwaysYes", "AlwaysNo"}, {FALSE}, 2) \cup Decompress({"Ask"}, {TRUE}, 2)
    \cup Decompress({"Ask"}, {FALSE}, 1)
    \cup [policy : {"Ask", "AlwaysYes", "AlwaysNo"}, command : {"inline"},
          devNull : {FALSE}, threads : {1}]

\* Two threads and a terminal.
AskOptions == Decompress({"Ask"}, {FALSE}, 2)
=============================================================================
