------------------------------ MODULE LogLevel ------------------------------
(***************************************************************************)
(* src/kernel.c: the log level, the functions that print a message if the  *)
(* level is high enough, and the two debug commands that move the level    *)
(* and announce it, each announcement by the function of its own level.    *)
(***************************************************************************)
EXTENDS Integers

VARIABLES
    kernel_log_level,
    announced           \* the level in the last announcement printed, or
                        \* None before the first

logVars == <<kernel_log_level, announced>>

NONE == 0
ERROR == 1
TRACE == 5
ALL == 6

None == -1

-----------------------------------------------------------------------------
\* Plausible fault of a definition below, for the mutation runs.

NeverClamped(level) == level

-----------------------------------------------------------------------------

\* Is a message of this severity printed?
Printed(severity, level) == ~(level < severity)

\* The level is moved first, announced next, and clamped last.
Clamped(level) ==
    IF level < NONE THEN NONE ELSE IF level > ALL THEN ALL ELSE level

\* What the two switches announce: ALL as a trace message, for whatever is
\* above TRACE, and nothing for NONE or below.
Announcement(level) ==
    LET severity == IF level > TRACE THEN TRACE ELSE level
        named == IF level > TRACE THEN ALL ELSE level
    IN  IF level >= ERROR /\ Printed(severity, level) THEN named ELSE announced

Moved(level) ==
    /\ kernel_log_level' = Clamped(level)
    /\ announced' = Announcement(level)

\* The debug commands '-' and '='.
lower == Moved(kernel_log_level - 1)
raise == Moved(kernel_log_level + 1)

\* kernel_init.
LogInit == kernel_log_level = TRACE /\ announced = None

=============================================================================
