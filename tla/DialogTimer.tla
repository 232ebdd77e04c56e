------------------------------ MODULE DialogTimer ------------------------------
(***************************************************************************)
(* The timer of a dialog of SweetAlert: the class Timer, and the static    *)
(* methods by which a page pauses, resumes, prolongs and reads it.  Time   *)
(* is counted in ticks; a timeout of the browser may be late, never early. *)
(* In SweetAlert a timer is only running or not.                           *)
(***************************************************************************)
EXTENDS Integers

CONSTANTS Delay,     \* the option "timer"
          Increases, \* what the page may add
          MaxGiven,  \* bound: what the timer is given altogether
          MaxClock   \* bound: the time that passes

VARIABLES remaining, \* of the timer
          running,
          started,   \* when it was started last
          alarm,     \* when the browser may call back, -1 when it will not
          closed,    \* the callback was called
          clock,     \* the time
          given,     \* history: the delay and all increases
          ran        \* history: the ticks for which the timer ran

timerVars == <<remaining, running, started, alarm, closed, clock, given, ran>>

ASSUME TimerAssumption ==
  MaxGiven \in Nat /\ MaxClock \in Nat /\ Delay \in 0..MaxGiven /\ Increases \subseteq Nat

TimerTypeOK ==
  /\ remaining \in Int /\ given \in 0..MaxGiven
  /\ running \in BOOLEAN /\ closed \in BOOLEAN
  /\ started \in 0..MaxClock /\ clock \in 0..MaxClock /\ ran \in 0..MaxClock
  /\ alarm \in Int

\* The constructor starts the timer.
InitTimer ==
  /\ remaining = Delay /\ given = Delay
  /\ running = TRUE
  /\ started = 0 /\ clock = 0 /\ ran = 0
  /\ alarm = Delay
  /\ closed = FALSE
--------------------------------------------------------------------------------
\* setTimeout takes a negative delay as 0.
Alarm(delay) == clock + (IF delay < 0 THEN 0 ELSE delay)

\* What is left when the timer stops.
Left == remaining - (clock - started)

Start ==
  /\ ~running
  /\ running' = TRUE
  /\ started' = clock
  /\ alarm' = Alarm(remaining)
  /\ UNCHANGED <<remaining, given>>

Stop ==
  /\ running
  /\ running' = FALSE
  /\ alarm' = -1
  /\ remaining' = Left
  /\ UNCHANGED <<started, given>>

RestartedLeft_Whole(n) == remaining + n \* mutant: what already ran is not subtracted

RestartedLeft(n) == Left + n

\* increase: a timer that runs is stopped and started again.
Increase(n) ==
  /\ given + n <= MaxGiven
  /\ given' = given + n
  /\ IF running
     THEN /\ remaining' = RestartedLeft(n)
          /\ started' = clock
          /\ alarm' = Alarm(remaining')
     ELSE remaining' = remaining + n /\ UNCHANGED <<started, alarm>>
  /\ UNCHANGED running

\* getTimerLeft stops a running timer and starts it again.
GetTimerLeft ==
  /\ running
  /\ remaining' = Left
  /\ started' = clock
  /\ alarm' = Alarm(Left)
  /\ UNCHANGED <<running, given>>

\* toggleTimer is Stop or Start.
PageUsesTimer ==
  /\ ~closed
  /\ Start \/ Stop \/ GetTimerLeft \/ \E n \in Increases : Increase(n)
  /\ UNCHANGED <<closed, clock, ran>>

Callback ==
  /\ ~closed
  /\ alarm # -1 /\ alarm <= clock
  /\ closed' = TRUE
  /\ alarm' = -1
  /\ UNCHANGED <<remaining, running, started, clock, given, ran>>

Tick ==
  /\ clock < MaxClock
  /\ ~closed
  /\ clock' = clock + 1
  /\ ran' = IF running THEN ran + 1 ELSE ran
  /\ UNCHANGED <<remaining, running, started, alarm, closed, given>>

NextTimer == PageUsesTimer \/ Callback \/ Tick
--------------------------------------------------------------------------------
\* However often the timer of a dialog is paused, resumed, prolonged and read, the time
\* it counts down is what it was given less what it ran, and the dialog is not closed early.
TimerIsExact ==
  /\ (IF running THEN Left ELSE remaining) = given - ran
  /\ closed => ran >= given
================================================================================
