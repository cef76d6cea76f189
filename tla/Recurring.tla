------------------------------- MODULE Recurring -------------------------------
(***************************************************************************)
(* Recurring transactions (mero-accounting/services/recurring-             *)
(* transactions.service.ts): a job at midnight creates what is due and     *)
(* moves the schedule on, while users edit, pause and delete schedules.    *)
(* Creating the transaction and moving the schedule are two transactions,  *)
(* and the job saves the copies it listed at the beginning of its run.     *)
(***************************************************************************)
EXTENDS Server

CONSTANTS
  Schedule,   \* the recurring_transactions of the organization
  First,      \* the day of the first occurrence
  Gap,        \* what setDate, setMonth and setFullYear add to a date: 1 day, 7, or as many
              \* as the date's month or year has, so that the next one may be left out
  Ends,       \* the end_date of each schedule: a day, or 0 for none
  MaxDay,     \* bound: days that are modelled
  MaxLost     \* bound: no call begins, no night breaks, when a schedule was hurt so often

ASSUME ScheduleAssumption ==
  /\ First \in Nat /\ MaxDay \in Nat /\ MaxLost \in Nat
  /\ Gap \in [0..MaxDay -> Nat \ {0}]
  /\ Ends \in [Schedule -> Nat]
  /\ None \notin Schedule

VARIABLES
  day,      \* today
  plan,     \* the rows: status and next_run_date
  job,      \* the run of tonight: what it has listed and not done, and what it is at
  editing,  \* what each API call has read and is about to save
  ran,      \* history: how often each occurrence was created
  broken,   \* history: occurrences after whose creation the schedule was not moved on
  overwrote \* history: saves of a copy over a schedule that had changed

recurringVars == <<day, plan, job, editing, ran, broken, overwrote>>

Day == 0..MaxDay
Resting == [s |-> None, row |-> None, to |-> None]
AtNight == [listed |-> {}, s |-> None, row |-> None]

RecurringInit ==
  /\ day = 0
  /\ plan = [s \in Schedule |-> [status |-> "ACTIVE", next |-> First]]
  /\ job = AtNight
  /\ editing = [c \in Call |-> Resting]
  /\ ran = [s \in Schedule |-> [d \in Day |-> 0]]
  /\ broken = [s \in Schedule |-> 0] /\ overwrote = [s \in Schedule |-> 0]

-----------------------------------------------------------------------------
\* update and updateStatus read the row and save their copy, delete removes the row.
\* (An update that moves next_run_date begins another schedule, and is left out.)
ReadPlan(c, s, to) ==
  /\ editing[c] = Resting /\ plan[s].status # "deleted" /\ overwrote[s] < MaxLost
  /\ editing' = [editing EXCEPT ![c] = [s |-> s, row |-> plan[s], to |-> to]]
  /\ UNCHANGED <<day, plan, job, ran, broken, overwrote>>

\* A row that was deleted meanwhile is inserted again.
SavePlan(c) ==
  LET e == editing[c]
  IN  /\ e # Resting /\ e.to # "deleted"
      /\ plan' = [plan EXCEPT ![e.s] = [e.row EXCEPT !.status = IF e.to = "same" THEN @ ELSE e.to]]
      /\ overwrote' = [overwrote EXCEPT ![e.s] = @ + Lost(plan[e.s], e.row)]
      /\ editing' = [editing EXCEPT ![c] = Resting]
      /\ UNCHANGED <<day, job, ran, broken>>

Delete(c) ==
  LET e == editing[c]
  IN  /\ e # Resting /\ e.to = "deleted"
      /\ plan' = [plan EXCEPT ![e.s].status = "deleted"]
      /\ editing' = [editing EXCEPT ![c] = Resting]
      /\ UNCHANGED <<day, job, ran, broken, overwrote>>

EditRefused(c) ==
  /\ editing[c] # Resting
  /\ editing' = [editing EXCEPT ![c] = Resting]
  /\ UNCHANGED <<day, plan, job, ran, broken, overwrote>>

-----------------------------------------------------------------------------
Due == {s \in Schedule : plan[s].status = "ACTIVE" /\ plan[s].next <= day'}

\* Midnight: the run lists what is due, or the server is down and there is none.
Midnight ==
  /\ day < MaxDay /\ job = AtNight
  /\ day' = day + 1
  /\ \E up \in BOOLEAN :
       job' = [AtNight EXCEPT !.listed = IF up THEN {[s |-> s, row |-> plan[s]] : s \in Due} ELSE {}]
  /\ UNCHANGED <<plan, editing, ran, broken, overwrote>>

\* processTransaction creates the transaction from the template; an error is logged and
\* the run goes on with the next one.
CreateTransaction ==
  /\ job.s = None
  /\ \E l \in job.listed :
       \/ /\ job' = [listed |-> job.listed \ {l}, s |-> l.s, row |-> l.row]
          /\ ran' = [ran EXCEPT ![l.s][l.row.next] = @ + 1]
          /\ UNCHANGED broken
       \/ job' = [job EXCEPT !.listed = @ \ {l}] /\ UNCHANGED <<ran, broken>>
  /\ UNCHANGED <<day, plan, editing, overwrote>>

Completed(s, next) == Ends[s] # 0 /\ next > Ends[s]

\* Mutant: the schedule is moved on from today, not from the day it was due.
MovedFromToday(s, row) ==
  [status |-> IF Completed(s, day + Gap[day]) THEN "COMPLETED" ELSE row.status, next |-> day + Gap[day]]

\* The same day of the month after: 31 January leads to 3 March.
MovedOn(s, row) ==
  [status |-> IF Completed(s, row.next + Gap[row.next]) THEN "COMPLETED" ELSE row.status,
   next |-> row.next + Gap[row.next]]

\* Mutant: the copy is not saved.
MoveOnUnsaved ==
  /\ job.s # None
  /\ job' = [job EXCEPT !.s = None, !.row = None]
  /\ UNCHANGED <<day, plan, editing, ran, broken, overwrote>>

MoveOn ==
  /\ job.s # None
  /\ plan' = [plan EXCEPT ![job.s] = MovedOn(job.s, job.row)]
  /\ overwrote' = [overwrote EXCEPT ![job.s] = @ + Lost(plan[job.s], job.row)]
  /\ job' = [job EXCEPT !.s = None, !.row = None]
  /\ UNCHANGED <<day, editing, ran, broken>>

\* A restart ends the run, an error only what it is at.
NightBreaks ==
  /\ job # AtNight /\ \A s \in Schedule : broken[s] < MaxLost
  /\ job' \in {AtNight, [job EXCEPT !.s = None, !.row = None]}
  /\ broken' = IF job.s = None THEN broken ELSE [broken EXCEPT ![job.s] = @ + 1]
  /\ UNCHANGED <<day, plan, editing, ran, overwrote>>

RecurringNext ==
  \/ Midnight \/ CreateTransaction \/ MoveOn \/ NightBreaks
  \/ \E c \in Call :
       \/ \E s \in Schedule, to \in {"same", "ACTIVE", "PAUSED", "deleted"} : ReadPlan(c, s, to)
       \/ SavePlan(c) \/ Delete(c) \/ EditRefused(c)

RecurringSpec == RecurringInit /\ [][RecurringNext]_recurringVars

-----------------------------------------------------------------------------
(* Properties *)

\* The schedule gets to a day as its first one, or from an occurrence that was created.
Reached(s, d) == d = First \/ \E e \in Day : ran[s][e] >= 1 /\ e + Gap[e] = d

\* However often nights are missed or broken off and copies saved over each other, a
\* schedule never moves past an occurrence that was not created: the day it stands at, and
\* each it was run for, follows one that was created, back to the first. (Which days the
\* calendar gives is the code's: a month too short for the day is passed over.)
NoneSkipped ==
  \A s \in Schedule :
    /\ Reached(s, plan[s].next)
    /\ \A d \in Day : ran[s][d] >= 1 => Reached(s, d)

\* An occurrence is created once, and once more only for a night that broke between its
\* creation and the move, or for a save over a schedule that had changed.
CreatedOnce ==
  \A s \in Schedule : \A d \in Day : ran[s][d] <= 1 + broken[s] + overwrote[s]
=============================================================================
