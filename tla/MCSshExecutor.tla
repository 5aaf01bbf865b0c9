---------------------------- MODULE MCSshExecutor ----------------------------
(***************************************************************************)
(* Two SSH jobs and two other tasks on one protocol thread more than a     *)
(* robot needs and one blocking thread.                                    *)
(***************************************************************************)
EXTENDS SshExecutor, TLC

CONSTANTS j1, j2

Step(timeout, retries, interval) ==
  [executable |-> {"script"}, safe |-> TRUE, mode |-> "wait", log |-> FALSE,
   timeout |-> timeout, retries |-> retries, interval |-> interval]

\* j1: a detached start whose retry_count a step does not use, a step, and a
\* check that is tried twice; its time is less than that of all its attempts.
\* j2: invalid, for it would start something detached as a check.
MCProfile ==
  (j1 :> [target |-> TRUE, timeout |-> 4,
          steps |-> <<[Step(2, 1, 1) EXCEPT !.mode = "detached", !.log = TRUE],
                      Step(2, 0, 0)>>,
          checks |-> <<Step(2, 1, 2)>>]) @@
  (j2 :> [target |-> TRUE, timeout |-> 2,
          steps |-> <<[Step(1, 0, 0) EXCEPT !.executable = {"command"}]>>,
          checks |-> <<[Step(1, 1, 0) EXCEPT !.mode = "detached", !.log = TRUE]>>])
=============================================================================
