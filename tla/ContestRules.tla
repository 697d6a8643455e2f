---------------------------- MODULE ContestRules ----------------------------
(***************************************************************************)
(* The pure rules about a contest row that several services share: the     *)
(* status derived from its window and the clock, the access check, and the *)
(* validity of a window.  A contest is a record [start, end, vip].         *)
(***************************************************************************)
EXTENDS Naturals

Contest(times) == [start : times, end : times, vip : BOOLEAN]

\* The window bounds are inclusive on both sides.
deriveContestStatus(c, now) ==
    IF now < c.start THEN "UPCOMING"
    ELSE IF now > c.end THEN "ENDED"
    ELSE "ACTIVE"

\* A VIP contest admits VIP users and administrators.
hasAccess(c, role) == c.vip => role \in {"VIP", "ADMIN"}

validWindow(c) == c.start < c.end
=============================================================================
