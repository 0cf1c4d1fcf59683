--------------------------- MODULE MCLeaderboard ---------------------------
(* Values for Leaderboard's constants: a Codex session with two files, two *)
(* Claude sessions, of which one has a turn and one row is shown, a row of *)
(* the usage log and one of the fleet, in two projects.  Seconds are 2     *)
(* long.  Seen from 6 a clock was put forward in the week before, seen from*)
(* 9 back; the task is dated in a zone 2 ahead of UTC.                     *)
EXTENDS Leaderboard, TLC

CONSTANTS a, b, c, d, t, g, k, claude1, claude2

MCKind == [l \in {a, b, c, d} |-> "usage"] @@ (t :> "turn")
MCSessionOf == (1 :> 1) @@ (2 :> 1)
MCSessionOfLine == [l \in {a, b} |-> 1]
MCFileOf == (c :> claude1) @@ [l \in {d, t} |-> claude2]
MCProjectOf == [h \in {1, 2, claude2, g} |-> 1] @@ [h \in {claude1, k} |-> 2]
MCPrice == [h \in {1, 2, claude2, k} |-> 1] @@ (claude1 :> 3) @@ (g :> 0)
MCMidnight == (4 :> 2) @@ (6 :> 6) @@ (9 :> 8)
MCUTCMidnight == (4 :> 4) @@ (6 :> 4) @@ (9 :> 8)
MCWeekAgo == (4 :> 0) @@ (6 :> 5) @@ (9 :> 4)
MCMonthAgo == [m \in Moments |-> m - Month]
MCTruncated == (4 :> 4) @@ (6 :> 6) @@ (9 :> 8)
MCAhead == (k :> 2)
MCSymmetry == Permutations({a, b})
============================================================================
