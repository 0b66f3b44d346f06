------------------------------ MODULE Scheduler ------------------------------
(***************************************************************************)
(* The cooperative scheduler.  One task of priority 0, the one that is due *)
(* first, is waited for; another task that is late runs if it is expected  *)
(* to end before that.  Begin is a pass of the loop up to the call of      *)
(* tick, End is the tick and the rest of the pass.  No time passes between *)
(* the choice of a task and the wait.                                      *)
(***************************************************************************)
EXTENDS UTime, Sequences

CONSTANTS Tasks,    \* the tasks
          Steps,    \* Steps[t]: what its ticks do, in turn (see Step)
          Movers,   \* the tasks that count from the time they were due, and stop
          Starters, \* the tasks whose tick may start a mover
          Immediate,\* 1000 us, which is also the delay of a mover that starts
          None

\* The priority (0: must not be late; of the others the least goes first),
\* how long a tick is expected to last, how long it may last, and the delays
\* to the next one.
Step == [prio : Nat, expected : Nat, takes : Nat, delays : SUBSET (1 .. UsRange - 1)]

ASSUME SchedulerAssumption ==
    /\ Steps \in [Tasks -> Seq(Step)] /\ \A t \in Tasks : Steps[t] # <<>>
    /\ Movers \subseteq Tasks /\ Starters \subseteq Tasks /\ None \notin Tasks
    /\ Immediate \in 1 .. UsRange - 1

VARIABLES now,      \* UTime::now()
          task,     \* task[t]: nextTick, whether it isNever, and the step
          current   \* the task in its tick, or None

loopVars == <<now, task, current>>

LoopTypeOK ==
    /\ now \in UTimes
    /\ task \in [Tasks -> [next : UTimes, never : BOOLEAN, step : Nat]]
    /\ \A t \in Tasks : task[t].step \in DOMAIN Steps[t]
    /\ current \in Tasks \cup {None}

-----------------------------------------------------------------------------
next(t) == task[t].next
step(t) == Steps[t][task[t].step]
Active == {t \in Tasks : ~task[t].never}

(* The choice of a task.                                                   *)

\* Those that are due first (the code takes the first one in its list; here
\* no three tasks are further apart than half a turn of the count).
FirstDue(S) == {t \in S : \A u \in S : ~Greater(next(t), next(u))}

Urgent == FirstDue({t \in Active : step(t).prio = 0})

\* Variant: a task that is late does not care for the urgent one.
Fits_Always(t, urgent) == TRUE

\* t is expected to end before the urgent task is due.
Fits(t, urgent) == \A u \in urgent : Greater(next(u), Plus(now, step(t).expected))

Late(urgent) == {t \in Active : step(t).prio > 0 /\ AtMost(next(t), now) /\ Fits(t, urgent)}

\* Variant: nothing that is late runs without an urgent task.
Chosen_Urgent(urgent, late) ==
    IF late = {} \/ urgent = {} THEN urgent
    ELSE FirstDue({t \in late : \A u \in late : step(t).prio <= step(u).prio})

\* The tasks that may be chosen, from the sets above.
Chosen(urgent, late) ==
    IF late = {} THEN urgent
    ELSE FirstDue({t \in late : \A u \in late : step(t).prio <= step(u).prio})

\* Variant: a task that is due soon runs at once.
Wait_No(t) == 0

\* The wait of waitSigEndIfImmediate.
Wait(t) == IF Minus(next(t), now) > 0 THEN Minus(next(t), now) ELSE 0

-----------------------------------------------------------------------------
LoopInit == /\ now = [us |-> 0, n |-> 0]
        /\ task = [t \in Tasks |-> [next |-> now, never |-> t \in Movers, step |-> 1]]
        /\ current = None

Begin(t) ==
    /\ Minus(next(t), now) < Immediate
    /\ now' = Plus(now, Wait(t))
    /\ current' = t
    /\ UNCHANGED task

\* The pass runs nothing.
Skip == now' = Plus(now, 1) /\ UNCHANGED <<task, current>>

Pass ==
    /\ current = None
    /\ \E urgent \in {Urgent} : \E late \in {Late(urgent)} :
          \E chosen \in {Chosen(urgent, late)} :
              \/ \E t \in chosen : Begin(t)
              \/ (\A t \in chosen : Minus(next(t), now) >= Immediate) /\ Skip

\* What the task t becomes when its tick ends: its next tick is not in the past.
Again(t) ==
    LET later(d) == IF t \in Movers THEN Plus(next(t), d) ELSE Plus(now', d)
        max(a) == IF Less(a, now') THEN now' ELSE a
        following == (task[t].step % Len(Steps[t])) + 1
    IN  {[next |-> max(later(d)), never |-> FALSE, step |-> following] : d \in step(t).delays}
        \cup {[task[t] EXCEPT !.never = TRUE] : m \in {t} \cap Movers}

\* The movers that the tick of t may start: one that has stopped, or one that
\* has arrived and whose last tick would come later.
Idle(t) ==
    IF t \notin Starters THEN {}
    ELSE {m \in Movers : m \notin Active \/ Greater(next(m), Plus(now', Immediate))}

\* The tasks when those of S are started.
Started(S) == [t \in Tasks |-> IF t \in S
                               THEN [task[t] EXCEPT !.next = Plus(now', Immediate), !.never = FALSE]
                               ELSE task[t]]

End ==
    /\ current # None
    /\ \E d \in 0 .. step(current).takes : now' = Plus(now, d)
    /\ \E x \in Again(current), S \in SUBSET Idle(current) :
          task' = [Started(S) EXCEPT ![current] = x]
    /\ current' = None

LoopNext == Pass \/ End

LoopSpec == LoopInit /\ [][LoopNext]_loopVars
\* The loop runs.
FairLoopSpec == LoopSpec /\ WF_loopVars(LoopNext)

-----------------------------------------------------------------------------
(* A task that ends within the time it announced makes no urgent task late *)
(* that was not (other than by its own order).                             *)
UrgentInTime ==
    [][\A t, u \in Tasks :
        (/\ current = t /\ current' = None
         /\ step(t).prio > 0 /\ Since(now', now) <= step(t).expected
         /\ u \in Active /\ step(u).prio = 0 /\ Since(next(u), now) > 0)
            => Since(next(u), now') > 0]_loopVars

(* No task runs before it is due, as long as the count of overflows has    *)
(* not wrapped between the two.                                            *)
NeverEarly ==
    \A t \in Tasks :
        (current = t /\ next(t).n >= now.n) => Since(now, next(t)) >= 0

\* A task waits when the count of overflows wraps.
LateAtWrap == now'.n < now.n /\ \E t \in Tasks : ~task'[t].never /\ task'[t].next.n # now'.n

Served == \A t \in Tasks :
            (t \in Active /\ Since(now, next(t)) >= 0) ~> (current = t \/ t \notin Active)

(* Every task runs in the end once it is due, whatever its priority, if    *)
(* the movers stop again and again, and if no task is late at the     *)
(* moment where the count of overflows wraps.                              *)
ServedInRange ==
    (<>[][~LateAtWrap]_loopVars /\ \A m \in Movers : []<>(m \notin Active)) => Served

(* The same without that last condition, as the comment of the wait says:  *)
(* a task whose time is over is not waited for.                            *)
ServedAlways == (\A m \in Movers : []<>(m \notin Active)) => Served
=============================================================================
