------------------------------ MODULE Schedule ------------------------------
(****************************************************************************)
(* When an automation is due next (internal/automation/schedule.go), and    *)
(* its slot from one due time to the next, however late the scheduler looks *)
(* (autorun/service.go, scheduler.go).                                      *)
(*                                                                          *)
(* Time is counted in fractions of a minute.  What the clock on the wall of *)
(* the automation's zone shows in each minute is a constant, changes to     *)
(* summer time included.  A cron field is given as the terms between its    *)
(* commas; BrokenFrom is From with a plausible bug.                         *)
(****************************************************************************)
EXTENDS Integers, FiniteSets

CONSTANTS
  WrittenTriggers,  \* what users write
  Ranges,           \* the least and the greatest value of each field
  Calendar,         \* minute -> what the clock shows
  Minute,           \* fractions of a minute in a minute
  MinInterval,      \* minInterval
  Horizon,          \* maxCronSearchDays, in minutes
  Backlog,          \* how many fires NextAfterNow goes through one by one
  MaxNow            \* bound of the clock

VARIABLES
  trigger,  \* the trigger of an enabled automation
  now,      \* the clock, as a caller reads it
  slot,     \* next_run: when it is due, or None
  last,     \* when it was computed, from which time on, and what intervals count from
  search    \* a call of NextAfterNow: who asks, from which time on, and how far it is
vars == <<trigger, now, slot, last, search>>

None == 0
Minutes == 0 .. MaxNow \div Minute + Horizon
Star == {}      \* a field that is just "*": no terms
Lawful ==
  /\ {Minute, MinInterval, Horizon, Backlog} \subseteq Nat \ {0} /\ MaxNow \in Nat
  /\ \A t \in WrittenTriggers : t.type \in {"manual", "interval", "cron"}
  /\ \A t \in WrittenTriggers : t.type = "interval" => t.every \in Nat

\* A term is a range with a step; a number is a range of one, and "*/n" one of all.
InRange(f, r) == \A t \in f : r.lo <= t.from /\ t.from <= t.to /\ t.to <= r.hi /\ t.step >= 1
parseCronField(f, r) ==
  IF f = Star THEN r.lo .. r.hi
  ELSE UNION {{v \in t.from .. t.to : (v - t.from) % t.step = 0} : t \in f}
\* The greatest day of the week is another name of the first.
parseCron(t) ==
  LET dow == parseCronField(t.dow, Ranges.dow)
      sunday == Ranges.dow.hi
  IN  [minute |-> parseCronField(t.minute, Ranges.minute),
       hour |-> parseCronField(t.hour, Ranges.hour),
       dom |-> parseCronField(t.dom, Ranges.dom),
       month |-> parseCronField(t.month, Ranges.month),
       dow |-> IF sunday \in dow THEN (dow \ {sunday}) \cup {Ranges.dow.lo} ELSE dow,
       domStar |-> t.dom = Star, dowStar |-> t.dow = Star]
validateTrigger(t) ==
  CASE t.type = "manual" -> TRUE
    [] t.type = "interval" -> t.every >= MinInterval
    [] t.type = "cron" -> /\ InRange(t.minute, Ranges.minute) /\ InRange(t.hour, Ranges.hour)
                          /\ InRange(t.dom, Ranges.dom) /\ InRange(t.month, Ranges.month)
                          /\ InRange(t.dow, Ranges.dow)

\* When both days are restricted, either will do.
matches(c, m) ==
  LET shows == Calendar[m]
      domOK == shows.dom \in c.dom
      dowOK == shows.dow \in c.dow
  IN  /\ shows.minute \in c.minute /\ shows.hour \in c.hour /\ shows.month \in c.month
      /\ IF ~c.domStar /\ ~c.dowStar THEN domOK \/ dowOK ELSE domOK /\ dowOK
\* cronSchedule.next: the first minute after t that matches, within the horizon.
NextMinute(c, t) ==
  LET first == t \div Minute + 1
      found == {m \in first .. first + Horizon - 1 : matches(c, m)}
  IN  IF found = {} THEN None ELSE Minute * (CHOOSE m \in found : \A k \in found : m <= k)
\* An interval jumps over what was missed.  The loop that follows in the code, in case
\* the division was rounded, has nothing left to do.
Jump(every, from, t) ==
  LET next == from + every
  IN  IF next > t THEN next ELSE next + every * ((t - next) \div every + 1)
-----------------------------------------------------------------------------
Idle == search.at = "idle"
Rest == [at |-> "idle", enabling |-> FALSE, since |-> 0, from |-> 0, tries |-> 0, origin |-> 0]
NextAfterNow(enabling, from, origin) ==
  /\ Idle
  /\ search' = [at |-> "search", enabling |-> enabling, since |-> from, from |-> from, tries |-> 0,
                origin |-> origin]
  /\ UNCHANGED <<trigger, now, slot, last>>
Return(next) ==
  /\ slot' = next /\ last' = [asked |-> now, since |-> search.since, origin |-> search.origin]
  /\ search' = Rest /\ UNCHANGED <<trigger, now>>
\* An automation that is not enabled, or enabled again, stays as it was; another loses its slot.
Error == IF search.enabling THEN search' = Rest /\ UNCHANGED <<trigger, now, slot, last>> ELSE Return(None)

BrokenFrom == now
\* From the slot that was due, so that the cadence does not drift; or from now.
From == IF slot = None \/ slot > now THEN now ELSE slot
\* The user enables it, for the first time or again.
Enable == NextAfterNow(TRUE, now, now)
\* tick asks when it is due, reconcile also when it has no slot.
Ask == slot <= now /\ NextAfterNow(FALSE, From, IF slot = None THEN now ELSE last.origin)
\* A trigger by hand is never due.
Manual == search.at = "search" /\ trigger.type = "manual" /\ Return(None)
Interval ==
  /\ search.at = "search" /\ trigger.type = "interval"
  /\ Return(Jump(trigger.every, search.from, now))
\* A cron expression goes on from fire to fire until one is in the future, but not for ever.
Cron ==
  /\ search.at = "search" /\ trigger.type = "cron"
  /\ LET next == NextMinute(parseCron(trigger), search.from)
         further == search.tries < Backlog /\ next # None
     IN  \/ further /\ next > now /\ Return(next)
         \/ /\ further /\ next <= now /\ next > search.from
            /\ search' = [search EXCEPT !.from = next, !.tries = @ + 1]
            /\ UNCHANGED <<trigger, now, slot, last>>
         \/ /\ ~ (further /\ (next > now \/ next > search.from))
            /\ Error
\* Nobody looks for a while, or the process is down.
Elapse == Idle /\ now' \in now + 1 .. MaxNow /\ UNCHANGED <<trigger, slot, last, search>>

Init ==
  /\ trigger \in {t \in WrittenTriggers : validateTrigger(t)}
  /\ now \in 1 .. MaxNow
  /\ slot = None /\ last = [asked |-> 0, since |-> 0, origin |-> 0] /\ search = Rest
Next == Enable \/ Ask \/ Manual \/ Interval \/ Cron \/ Elapse
Spec == Init /\ [][Next]_vars
-----------------------------------------------------------------------------
\* When the trigger fires: in the minutes that match, or at an interval since it was enabled.
Fires(origin, x) ==
  IF trigger.type = "cron" THEN x % Minute = 0 /\ matches(parseCron(trigger), x \div Minute)
  ELSE x > origin /\ (x - origin) % trigger.every = 0
Missed == {x \in last.since + 1 .. last.asked : Fires(last.origin, x)}
\* Somewhere on the way a whole horizon has no fire.
Rare == \E m \in last.since \div Minute + 1 .. last.asked \div Minute + 1 :
          \A k \in m .. m + Horizon - 1 : ~ matches(parseCron(trigger), k)

\* "It advances from a stored anchor until the result is in the future, so a long downtime
\* collapses to a single next fire" (schedule.go:55-59): the slot is the first fire after the
\* time at which somebody asked, none is left out and none returned that is past; intervals
\* keep the cadence of the time when they were last enabled, over any number of slots; and an
\* automation goes without a slot only if it is started by hand, if it hardly ever fires, or
\* if so many fires of a cron expression were missed that the search gives up.
SlotIsNext ==
  last.asked # 0 =>
    IF slot # None
    THEN /\ slot > last.asked /\ Fires(last.origin, slot)
         /\ \A x \in last.asked + 1 .. slot - 1 : ~ Fires(last.origin, x)
    ELSE \/ trigger.type = "manual"
         \/ trigger.type = "cron" /\ (Rare \/ Cardinality(Missed) >= Backlog)
-----------------------------------------------------------------------------
(* What keeps it so.                                                        *)

\* The trigger was validated, and times are counted from 1.
Searches == [at : {"idle", "search"}, enabling : BOOLEAN, since : Nat, from : Nat, tries : Nat, origin : Nat]
TypeOK ==
  /\ trigger \in WrittenTriggers /\ validateTrigger(trigger)
  /\ now \in 1 .. MaxNow /\ slot \in Nat
  /\ last \in [asked : Nat, since : Nat, origin : Nat] /\ search \in Searches
\* A search is not past the present; an interval sets out from one of its fires, and a cron
\* expression has counted no more fires than there were.
Tried == {x \in search.since + 1 .. search.from : Fires(search.origin, x)}
Searching ==
  search.at = "search" =>
    /\ search.since <= search.from /\ search.from <= now
    /\ trigger.type = "interval" =>
         search.from >= search.origin /\ (search.from - search.origin) % trigger.every = 0
    /\ trigger.type = "cron" => search.tries <= Cardinality(Tried)
\* A slot comes from a search.
Searched == slot # None => last.asked # 0
IInv == TypeOK /\ Searching /\ Searched /\ SlotIsNext
=============================================================================
