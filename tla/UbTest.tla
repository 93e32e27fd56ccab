------------------------------- MODULE UbTest -------------------------------
(***************************************************************************)
(* assign_schedule of sched/ub_test.c (lab4 part2): sort the task list by  *)
(* period, then admit it if it passes the utilisation bound test.  One     *)
(* step per pass through a loop body.                                      *)
(*                                                                         *)
(* The doubles of the code are exact fractions here; their rounding (some  *)
(* 64 operations of relative error 2^-53) is far below the sixth decimal   *)
(* the bounds are given to.  What is kept of IEEE arithmetic is division   *)
(* by zero: a/0 is infinite, 0/0 is not a number, and any comparison with  *)
(* the latter is false.                                                    *)
(***************************************************************************)
EXTENDS Integers

CONSTANTS OS_AVAIL_TASKS,  \* task lists are shorter than this; config.h: 63
          TaskRec          \* descriptors: records with C, T and B

ASSUME AvailAssumption == OS_AVAIL_TASKS \in Nat \ {0}
ASSUME TaskAssumption  == TaskRec \subseteq [C : Nat, T : Nat, B : Nat]

VARIABLES
    given,      \* the list as the caller passed it (read by properties only)
    num_tasks,
    tasks,      \* the list, sorted in place
    i, j,       \* loop counters
    sum,        \* utilisation of tasks[0..i-1]
    pc          \* "sort", "test", or the result: "accepted", "rejected"
vars == <<given, num_tasks, tasks, i, j, sum, pc>>

Index == 0..(num_tasks - 1)

-----------------------------------------------------------------------------
\* Doubles: numerator and denominator, <<1, 0>> infinite, <<0, 0>> not a number.
Double == Nat \X Nat
Quotient(a, b) == IF b = 0 /\ a > 0 THEN <<1, 0>> ELSE <<a, b>>
IsNan(x) == x = <<0, 0>>
Plus(x, y) ==
    IF IsNan(x) \/ IsNan(y) THEN <<0, 0>>
    ELSE IF x[2] = 0 \/ y[2] = 0 THEN <<1, 0>>
    ELSE <<x[1] * y[2] + y[1] * x[2], x[2] * y[2]>>

\* ub_table, in millionths: num_tasks (2^(1/num_tasks) - 1) for 1 to 64 tasks.
ub_table == <<
    1000000, 828427, 779763, 756828, 743492, 734772, 728627, 724062,
    720538, 717735, 715452, 713557, 711959, 710593, 709412, 708381,
    707472, 706666, 705946, 705298, 704713, 704182, 703698, 703254,
    702846, 702469, 702121, 701798, 701497, 701217, 700954, 700709,
    700478, 700261, 700056, 699863, 699681, 699508, 699344, 699188,
    699040, 698898, 698764, 698636, 698513, 698396, 698284, 698176,
    698073, 697974, 697879, 697788, 697700, 697615, 697533, 697455,
    697379, 697306, 697235, 697166, 697100, 697036, 696974, 696914 >>
ub_min    == 693147
UB_NUMBER == 64

ub_line(k) == IF k < UB_NUMBER THEN ub_table[k + 1] ELSE ub_min

\* x > bound, false if x is not a number.
Exceeds(x, bound) == ~IsNan(x) /\ (x[2] = 0 \/ x[1] * 1000000 > bound * x[2])

-----------------------------------------------------------------------------
TypeOK ==
    /\ num_tasks \in 0..(OS_AVAIL_TASKS - 1)
    /\ given \in [Index -> TaskRec]
    /\ tasks \in [Index -> TaskRec]
    /\ i \in 0..num_tasks
    /\ j \in 1..(num_tasks + 1)
    /\ sum \in Double
    /\ pc \in {"sort", "test", "accepted", "rejected"}

\* task_create refuses such a list before it gets here.
TooMany(n) == n >= OS_AVAIL_TASKS

Init ==
    /\ num_tasks \in {n \in 0..OS_AVAIL_TASKS : ~TooMany(n)}
    /\ given \in [0..(num_tasks - 1) -> TaskRec]
    /\ tasks = given
    /\ i = 0 /\ j = 1
    /\ sum = <<0, 1>>
    /\ pc = "sort"

\* Mutated form of Exchange: the temporary is lost.
Exchange_lost(a, b) == [tasks EXCEPT ![a] = tasks[b]]

Exchange(a, b) == [tasks EXCEPT ![a] = tasks[b], ![b] = tasks[a]]

CompareExchange ==
    /\ pc = "sort" /\ i < num_tasks /\ j < num_tasks
    /\ tasks' = IF tasks[i].T > tasks[j].T THEN Exchange(i, j) ELSE tasks
    /\ j' = j + 1
    /\ UNCHANGED <<given, num_tasks, i, sum, pc>>

NextRow ==
    /\ pc = "sort" /\ i < num_tasks /\ j >= num_tasks
    /\ IF i + 1 < num_tasks
         THEN i' = i + 1 /\ j' = i + 2 /\ UNCHANGED pc
         ELSE i' = 0 /\ j' = 1 /\ pc' = "test"
    /\ UNCHANGED <<given, num_tasks, tasks, sum>>

\* Mutated form of Load: the blocking time is left out.
Load_unblocked(s, t) == s

\* The utilisation up to and including task t, and its blocking.
Load(s, t) == Plus(s, Quotient(t.B, t.T))

TestTask ==
    /\ pc = "test" /\ i < num_tasks
    /\ sum' = Plus(sum, Quotient(tasks[i].C, tasks[i].T))
    /\ IF Exceeds(Load(sum', tasks[i]), ub_line(i))
         THEN pc' = "rejected" /\ UNCHANGED i
         ELSE i' = i + 1 /\ UNCHANGED pc
    /\ UNCHANGED <<given, num_tasks, tasks, j>>

\* An empty list leaves both loops at once.
Accept ==
    /\ pc \in {"sort", "test"} /\ i = num_tasks
    /\ pc' = "accepted"
    /\ UNCHANGED <<given, num_tasks, tasks, i, j, sum>>

Next == CompareExchange \/ NextRow \/ TestTask \/ Accept

Spec == Init /\ [][Next]_vars

-----------------------------------------------------------------------------
\* Once the sort is over the list is the caller's, reordered, in order of
\* period: allocate_tasks gives the shortest period the highest priority
\* (ub_test.c:38-40, 50-61).
Reordered ==
    \E p \in [Index -> Index] :
        /\ \A a, b \in Index : p[a] = p[b] => a = b
        /\ tasks = [a \in Index |-> given[p[a]]]
SortedByPeriod ==
    Reordered /\ (pc # "sort" => \A a, b \in Index : a < b => tasks[a].T <= tasks[b].T)

\* The work that falls due by time t, at worst, before task k is done: its
\* blocking, its own job, and every job of a higher priority released by then
\* (for a period of zero there is no t to ask for).
Ceil(a, b) == (a + b - 1) \div b
Demand(k, t) ==
    LET jobs(m) == IF tasks[m].T = 0 THEN 0 ELSE Ceil(t, tasks[m].T)
        work[m \in 0..k] ==
            IF m = 0 THEN tasks[k].B + tasks[k].C
            ELSE work[m - 1] + jobs(m - 1) * tasks[m - 1].C
    IN  work[k]

\* Where a sum or a quotient that is not a number keeps a load from being weighed:
\* with a descriptor of no work and no period the sum is not a number from there on,
\* and with nothing but descriptors of neither period nor blocking the quotient B / T
\* is not, in any round, so that the infinite sum is never refused
\* (ub_test.c:69-72).
SumNotANumber     == \E k \in Index : tasks[k].C = 0 /\ tasks[k].T = 0
InfiniteUnweighed == \A k \in Index : tasks[k].T = 0 /\ tasks[k].B = 0

\* Every task of an accepted list meets its deadline, the end of its period,
\* under fixed priorities in list order, but for these two kinds of list: the exact
\* test (there is a time within the period by which all its work is done) confirms
\* the bound, and no other list with a period of zero is accepted
\* (ub_test.c:63-75).
AcceptedMeetsDeadlines ==
    pc = "accepted" /\ ~SumNotANumber /\ ~InfiniteUnweighed =>
        \A k \in Index : \E t \in 1..tasks[k].T : Demand(k, t) <= t
=============================================================================
