-------------------------- MODULE MCTasksLifecycle --------------------------
(***************************************************************************)
(* Small instances of TasksLifecycle for TLC: one or two jobs.             *)
(***************************************************************************)
EXTENDS TasksLifecycle

CONSTANTS j1, j2

S(started, log1, log2, actors, n) ==
  [started |-> started, log |-> [j \in Jobs |-> IF j = j1 THEN log1 ELSE log2],
   actors |-> actors, crashes |-> n]

All  == Jobs
Done == <<"success">>
Run  == <<"running", "success">>
Fail == <<"unknown", "failure">>
Gone == <<"cancelled">>
Res  == <<"result">>

\* Playbooks and scripts that end well, badly, late or never; jobs that could not
\* be dispatched; requests, a repair, a crash and a withdrawn task in between.
TaskScenarios ==
  { S(All, Done, Fail, {}, 0),          S(All, Run, << >>, {"cancel"}, 0),
    S(All, Gone, << >>, {"cancel"}, 0), S({j1}, Run, << >>, {"destroy"}, 1),
    S(All, Res, Res, {}, 0),            S(All, Res, << >>, {"cancel"}, 0),
    S(All, Res, << >>, {"destroy"}, 1), S({j1}, Done, << >>, {"destroy", "repair"}, 0),
    S(All, Res, << >>, {"repair"}, 1),  S({}, << >>, << >>, {"repair"}, 0),
    S(All, Run, << >>, {"deactivate"}, 0) }
=============================================================================
