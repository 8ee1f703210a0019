--------------------------- MODULE MCAdminControl ---------------------------
(* The admin API with two admins and a store that others share, for TLC.   *)
EXTENDS AdminControl, TLC

CONSTANTS a1, a2, i1, i2, l1, l2

Off == [enabled |-> FALSE, rpm |-> 9, delay |-> 5, slots |-> 5]
On == [enabled |-> TRUE, rpm |-> 9, delay |-> 0, slots |-> 5]
MCConfigured == l1 :> Off @@ l2 :> On

Throttle(l, n, d) ==
    [action |-> "throttle", limiter |-> l, maxRPM |-> n, delay |-> d, slots |-> d]
Block == [action |-> "block", limiter |-> l1, maxRPM |-> 0, delay |-> 0, slots |-> 0]

Command(c, id, rule) ==
    [admitted |-> TRUE, host |-> TRUE, command |-> c, id |-> id, rule |-> rule, duration |-> 1]

\* Two rules for one limiter, one for another, a rule that is not wired, the
\* removals, and requests refused for each reason.
MCCommands ==
    {Command("set-rule", i1, Throttle(l1, 1, 0)), Command("set-rule", i2, Throttle(l1, 2, 1)),
     Command("set-rule", i2, [Throttle(l2, 1, 1) EXCEPT !.slots = -1]), Command("set-rule", i2, Block),
     Command("remove-rule", i1, Block), Command("remove-all", i1, Block),
     Command("unknown", i1, Block),
     Command("set-rule", i1, Throttle(l1, 0, 0)),
     [Command("set-rule", i1, Throttle(l1, 3, 0)) EXCEPT !.admitted = FALSE]}

\* One with time left, one that expires early, one that is unusable, and one
\* without a cap for a limiter that is on.
MCPersisted ==
    <<[id |-> i1, rule |-> Throttle(l1, 4, 0), sound |-> TRUE, expiresAt |-> 4],
      [id |-> i2, rule |-> [Block EXCEPT !.action = "other"], sound |-> TRUE, expiresAt |-> 2],
      [id |-> i2, rule |-> Throttle(l2, 5, 0), sound |-> FALSE, expiresAt |-> 9],
      [id |-> i2, rule |-> Throttle(l2, 0, 0), sound |-> TRUE, expiresAt |-> 4]>>

\* A rule of another instance, for the limiter that is off here.
MCShared == {[id |-> i1, rule |-> Throttle(l1, 6, 0), expiresAt |-> 3]}

Symmetry == Permutations(Admins)
=============================================================================
