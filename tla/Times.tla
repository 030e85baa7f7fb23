------------------------------- MODULE Times -------------------------------
(***************************************************************************)
(* Time conversion (src/time.rs).  On the wire a time is a signed number   *)
(* of seconds and a number of nanoseconds that counts forward from it,     *)
(* before the epoch as after it.  A SystemTime is here the number of       *)
(* nanoseconds from the epoch.  The widths are parameters: I64Max stands   *)
(* for i64::MAX and Second for the nanoseconds in a second.                *)
(***************************************************************************)
EXTENDS Integers

CONSTANTS I64Max, Second

ASSUME TimesAssumption == I64Max \in Nat \ {0} /\ Second \in Nat \ {0, 1}

I64Min == -I64Max - 1
I64 == I64Min .. I64Max
Timespec == I64 \X (0 .. Second - 1)

(* A Duration from the epoch, seconds and the rest: as_secs, subsec_nanos. *)
as_secs(d) == d \div Second
subsec_nanos(d) == d % Second

\* Mutant of time_from_system_time: nanoseconds before the epoch count back.
time_from_system_timeBack(t) ==
    IF t >= 0
    THEN IF as_secs(t) <= I64Max THEN <<as_secs(t), subsec_nanos(t)>>
         ELSE <<I64Max, Second - 1>>
    ELSE LET secs == as_secs(-t)
             nanos == subsec_nanos(-t)
         IN  IF secs >= I64Max + 1 THEN <<I64Min, 0>>
             ELSE <<-secs, nanos>>

time_from_system_time(t) ==
    IF t >= 0
    THEN IF as_secs(t) <= I64Max THEN <<as_secs(t), subsec_nanos(t)>>
         ELSE <<I64Max, Second - 1>>
    ELSE LET secs == as_secs(-t)
             nanos == subsec_nanos(-t)
         IN  IF secs >= I64Max + 1 THEN <<I64Min, 0>>
             ELSE IF nanos = 0 THEN <<-secs, 0>>
             ELSE <<-secs - 1, Second - nanos>>

system_time_from_time(secs, nsecs) ==
    LET n == IF nsecs < Second THEN nsecs ELSE Second - 1
    IN  IF secs >= 0 THEN secs * Second + n
        ELSE IF n = 0 THEN -((-secs) * Second)
        ELSE -((-secs - 1) * Second + (Second - n))

=============================================================================
