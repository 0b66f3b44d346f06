----------------------------- MODULE MCScheduler -----------------------------
EXTENDS Scheduler

CONSTANTS motor, meteo, protocol

MCTasks == {motor, meteo, protocol}
\* One unit is 500 us; the delays are shorter than the real ones.
MCSteps == [t \in MCTasks |->
    CASE t = motor -> <<[prio |-> 0, expected |-> 0, takes |-> 0, delays |-> {2, 4}]>>
      [] t = meteo -> <<[prio |-> 3, expected |-> 1, takes |-> 1, delays |-> {3}],
                        [prio |-> 0, expected |-> 0, takes |-> 0, delays |-> {2}],
                        [prio |-> 0, expected |-> 1, takes |-> 1, delays |-> {5}]>>
      [] t = protocol -> <<[prio |-> 100, expected |-> 0, takes |-> 1, delays |-> {1}]>>]
=============================================================================
