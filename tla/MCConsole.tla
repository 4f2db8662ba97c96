----------------------------- MODULE MCConsole -----------------------------
(* Console on small instances. *)
EXTENDS Console

CONSTANTS o1, o2, d1, d2, f1, m1, m2, c1

(* The last hour before the 24 hours of day 1, its first ones, those on    *)
(* either side of where a day five hours off begins, and its last.         *)
EdgeTimes == {24, 29, 43, 47, 48}

(* New York, Greenwich, Karachi. *)
EdgeZones == {-5, 0, 5}

(* Only the logs page knows of zones. *)
ZoneMatters == zone = 0 \/ page = "logs"

OneClient == [m \in Mailboxes |-> c1]

=============================================================================
