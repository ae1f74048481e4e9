--------------------------- MODULE MCWeeklyReports ---------------------------
(***************************************************************************)
(* A small instance of WeeklyReports for TLC: two users, one of two        *)
(* organisations that are served one after the other.                      *)
(***************************************************************************)
EXTENDS WeeklyReports, TLC

MCOrgsOf == "u1" :> {1} @@ "u2" :> {1, 2}
Subscribed(o) == [org |-> o, age |-> Never, autosub |-> FALSE, id |-> 0]
MCFirstSubs == {"u1" :> Subscribed(1) @@ "u2" :> Subscribed(1)}
=============================================================================
