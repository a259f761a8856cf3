----------------------------- MODULE MCSchedules -----------------------------
(* Schedules on small instances: two slots a day, two zones, four cadences. *)
EXTENDS Schedules

CONSTANTS here, there, r1, r2
MCOffset == [z \in Zones |-> IF z = here THEN 0 ELSE 1]
Cad(repeat, clock, days, date, zone) ==
    [repeat |-> repeat, clock |-> clock, days |-> days, date |-> date, zone |-> zone]
MCCadences == {Cad("weekly", 0, {3}, 0, here), Cad("weekdays", 1, {}, 0, here),
               Cad("daily", 1, {}, 0, there), Cad("once", 0, {}, 18, here)}
MCStarts == 28..41
=============================================================================
