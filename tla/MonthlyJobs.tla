--------------------------- MODULE MonthlyJobs ---------------------------
(***************************************************************************)
(* What the panel does by the calendar: the traffic reset on one day of    *)
(* the month, guarded by a Redis key with a lifetime shorter than the day, *)
(* and the monthly partitions of traffic_logs, which a migration creates   *)
(* and CleanOrphanData drops.  What a reset does to a user is in module    *)
(* Subscription (CycleRestore, CyclePick, CycleReset).                     *)
(***************************************************************************)
EXTENDS Integers, FiniteSets, Functions, Sequences

CONSTANTS
    Replicas,       \* processes of the panel
    NoKey,
    MonthLengths,   \* the calendar: days of one month after the other
    HoursPerDay,    \* bound: checks a day, 24 in the code; the key lives one less
    MonthScenarios  \* bound: the configured day, faults of a behaviour and how many

Setbacks == {"unread", "redisError", "dbError", "crash"}

ASSUME MonthAssumption ==
    /\ MonthLengths \in Seq(28..31) /\ Len(MonthLengths) >= 2
    /\ HoursPerDay \in Nat \ {0, 1}
    /\ MonthScenarios \subseteq [ops : SUBSET Setbacks, faults : Nat, resetDay : Int]

VARIABLES
    hour,           \* hours since the start of the first month
    up,             \* running processes
    checked,        \* those that have made this hour's check
    resetting,      \* those that are inside ResetTrafficMonthly
    resetKey,       \* the last cron:traffic:reset:<date>, with the hour it was set in
    resets,         \* months with a completed reset, history only
    excused,        \* months on whose reset day a step failed, history only
    partitions,     \* months that have a partition
    prospect        \* what may still happen

monthVars == <<hour, up, checked, resetting, resetKey, resets, excused,
               partitions, prospect>>

Months == 1..Len(MonthLengths)
DaysBefore == [m \in 1..(Len(MonthLengths) + 1) |->
                  SumFunctionOnSet(MonthLengths, 1..(m - 1))]
Days == 0..(DaysBefore[Len(MonthLengths) + 1] - 1)
Month == [d \in Days |-> CHOOSE m \in Months : DaysBefore[m] <= d /\ d < DaysBefore[m + 1]]
DayOfMonth == [d \in Days |-> d - DaysBefore[Month[d]] + 1]
DayOf(h) == h \div HoursPerDay
Today == DayOf(hour)

MonthTypeOK ==
    /\ hour \in Nat /\ Today \in Days
    /\ up \subseteq Replicas /\ checked \subseteq up /\ resetting \subseteq up
    /\ resetKey \in [day : Days, at : Nat] \cup {NoKey}
    /\ resets \subseteq Months /\ excused \subseteq Months
    /\ partitions \subseteq Months
    /\ prospect \in [ops : SUBSET Setbacks, faults : Nat, resetDay : Int]

\* The migration has made the partitions of the running and of the next month.
MonthInit ==
    /\ hour = 0
    /\ up = Replicas /\ checked = {} /\ resetting = {}
    /\ resetKey = NoKey
    /\ resets = {} /\ excused = {}
    /\ partitions = {1, 2}
    /\ prospect \in MonthScenarios

Setback(op) ==
    /\ op \in prospect.ops
    /\ prospect.faults > 0
    /\ prospect' = [prospect EXCEPT !.faults = @ - 1]

-----------------------------------------------------------------------------
(* ResetTrafficMonthly, once an hour in every process                      *)

\* A month that is too short has its reset on the last day; a value that is not a day of
\* the month, like settings that cannot be read, counts as the 1st.
TargetAsIs(day, m) == IF day \in 1..31 THEN day ELSE 1
TargetDay(day, m) ==
    LET wanted == IF day \in 1..31 THEN day ELSE 1
    IN  IF wanted > MonthLengths[m] THEN MonthLengths[m] ELSE wanted
Due(day, d) == DayOfMonth[d] = TargetDay(day, Month[d])

Taken == resetKey # NoKey /\ resetKey.day = Today

resetVars == <<resets, excused>>

Excuse == IF Due(prospect.resetDay, Today) THEN excused \cup {Month[Today]} ELSE excused

\* The check of the hour; the settings may be unreadable, the day is then the 1st.
Check(r, day) ==
    /\ r \in up \ (checked \cup resetting)
    /\ checked' = checked \cup {r}
    /\ IF Due(day, Today) /\ ~Taken
         THEN /\ resetKey' = [day |-> Today, at |-> hour]
              /\ resetting' = resetting \cup {r}
         ELSE UNCHANGED <<resetKey, resetting>>

CheckDay(r) ==
    /\ Check(r, prospect.resetDay)
    /\ UNCHANGED <<hour, up, resetVars, partitions, prospect>>

CheckUnread(r) ==
    /\ Setback("unread")
    /\ Check(r, 1)
    /\ excused' = Excuse
    /\ UNCHANGED <<hour, up, resets, partitions>>

\* Without Redis the reset runs all the same, so that a month is not left out.
CheckUnguarded(r) ==
    /\ Setback("redisError")
    /\ r \in up \ (checked \cup resetting)
    /\ Due(prospect.resetDay, Today)
    /\ checked' = checked \cup {r}
    /\ resetting' = resetting \cup {r}
    /\ UNCHANGED <<hour, up, resetKey, resetVars, partitions>>

ResetDone(r) ==
    /\ r \in resetting
    /\ resetting' = resetting \ {r}
    /\ resets' = resets \cup {Month[Today]}
    /\ UNCHANGED <<hour, up, checked, resetKey, excused, partitions, prospect>>

\* The batch fails: it is logged, the key stays.
ResetFails(r) ==
    /\ Setback("dbError")
    /\ r \in resetting
    /\ resetting' = resetting \ {r}
    /\ excused' = Excuse
    /\ UNCHANGED <<hour, up, checked, resetKey, resets, partitions>>

\* What a process was doing goes with it.
ReplicaDies(r) ==
    /\ Setback("crash")
    /\ r \in up
    /\ up' = up \ {r}
    /\ checked' = checked \ {r}
    /\ resetting' = resetting \ {r}
    /\ excused' = IF r \in resetting THEN Excuse ELSE excused
    /\ UNCHANGED <<hour, resetKey, resets, partitions>>

\* main checks right after its start.
Restart(r) ==
    /\ r \notin up
    /\ up' = up \cup {r}
    /\ UNCHANGED <<hour, checked, resetting, resetKey, resetVars, partitions, prospect>>

-----------------------------------------------------------------------------
(* Time and Redis                                                          *)

\* The key's 23 hours: it is gone in that hour, before or after the check of that hour.
KeyDue == resetKey # NoKey /\ resetKey.at + HoursPerDay - 1 <= hour
KeyExpires ==
    /\ KeyDue
    /\ resetKey' = NoKey
    /\ UNCHANGED <<hour, up, checked, resetting, resetVars, partitions, prospect>>

\* Every process makes its check of the hour and finishes what it began.
HourPasses ==
    /\ up \subseteq checked /\ up # {} /\ resetting = {} /\ ~KeyDue
    /\ DayOf(hour + 1) \in Days
    /\ hour' = hour + 1
    /\ checked' = {}
    /\ UNCHANGED <<up, resetting, resetKey, resetVars, partitions, prospect>>

-----------------------------------------------------------------------------
(* The partitions of traffic_logs                                          *)

\* time.AddDate(0, -1, 0): a day the previous month does not have spills over into this.
MonthBeforeLast(d) == Month[d] - 2
MonthBefore(d) ==
    LET m == Month[d]
    IN  IF m > 1 /\ DayOfMonth[d] > MonthLengths[m - 1] THEN m ELSE m - 1

\* dropOldTrafficPartitions, every six hours and at the start: all but two go.
DropOldTrafficPartitions ==
    /\ partitions' = partitions \cap {Month[Today], MonthBefore(Today)}
    /\ partitions' # partitions
    /\ UNCHANGED <<hour, up, checked, resetting, resetKey, resetVars, prospect>>

MonthNext ==
    \/ \E r \in Replicas :
         \/ CheckDay(r) \/ CheckUnread(r) \/ CheckUnguarded(r)
         \/ ResetDone(r) \/ ResetFails(r) \/ ReplicaDies(r) \/ Restart(r)
    \/ KeyExpires \/ HourPasses \/ DropOldTrafficPartitions

MonthSpec == MonthInit /\ [][MonthNext]_monthVars

-----------------------------------------------------------------------------
(* Correctness                                                             *)

\* Every month has its reset: a month that is over, and in which no step of the reset day
\* failed, saw one, whatever its length and the configured day.
EveryMonthIsReset ==
    \A m \in Months : DaysBefore[m + 1] <= Today => m \in excused \cup resets

\* The logs of the running month stay, and until the 28th those of the month before; on the
\* 29th, 30th and 31st the previous month of AddDate may be the running one.
RecentLogsStay ==
    [][\A m \in partitions \ partitions' :
          m # Month[Today] /\ (DayOfMonth[Today] <= 28 => m # Month[Today] - 1)]_monthVars

\* The migration says there is always a partition to write to: PostgreSQL looks for the
\* partition of a row before it fires the trigger that would create it.
LogsAreWritten == Month[Today] \in partitions
=============================================================================
