------------------------------ MODULE Requests ------------------------------
(***************************************************************************)
(* What the modules of the smaller files share: the requests that run.     *)
(* Each is a process of its own (index.cgi), and any number may run.       *)
(***************************************************************************)
CONSTANTS
    Procs,          \* requests
    None,           \* nobody: a lock is free, a request has no user yet
    Users           \* users, by their numbers
=============================================================================
