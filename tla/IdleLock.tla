------------------------------ MODULE IdleLock -------------------------------
(***************************************************************************)
(* How long an unlocked session may stay idle (src-tauri/src: Session of   *)
(* state.rs, spawn_auto_lock of lib.rs).  Desktop has the same task but    *)
(* leaves the time open.  Time passes while the task sleeps.               *)
(***************************************************************************)
EXTENDS Naturals

CONSTANTS
    Limits,     \* values of Config.auto_lock_minutes, in ticks
    Period,     \* of the task (30 s)
    NoTime      \* last_use of a locked session

VARIABLES
    idle,       \* ticks since last_use, or NoTime
    opened,     \* whether there is a payload
    limit,      \* Config.auto_lock_minutes
    sleeps,     \* ticks until the task wakes
    decided,    \* the task has seen the session idle for too long
    granted     \* history: the limit when the task last left the session alone

ASSUME IdleAssumption ==
    /\ Limits \subseteq Nat \ {0} /\ Period \in Nat \ {0} /\ NoTime \notin Nat

idleVars == <<idle, opened, limit, sleeps, decided, granted>>

\* Session.payload and last_use come and go together.
IdleTypeOK ==
    /\ opened \in BOOLEAN /\ (opened <=> idle # NoTime)
    /\ idle \in Nat \cup {NoTime} /\ decided \in BOOLEAN
    /\ limit \in Limits /\ granted \in Limits /\ sleeps \in 0..Period

IdleInit ==
    /\ idle = NoTime /\ opened = FALSE
    /\ limit \in Limits /\ granted = limit
    /\ sleeps = Period /\ decided = FALSE

IdleTick ==
    /\ sleeps > 0
    /\ sleeps' = sleeps - 1
    /\ idle' = IF idle = NoTime THEN NoTime ELSE idle + 1
    /\ UNCHANGED <<opened, limit, decided, granted>>

\* Unlocking, also over an open session.
SessionOpens ==
    /\ opened' = TRUE /\ idle' = 0
    /\ UNCHANGED <<limit, sleeps, decided, granted>>

\* Mutant: a use is recorded whether or not there is a payload.
SessionTouchedLocked ==
    /\ idle' = 0
    /\ UNCHANGED <<opened, limit, sleeps, decided, granted>>

\* vault_set_secret and vault_delete_secret; no other command is a use.
SessionTouched ==
    /\ opened
    /\ idle' = 0
    /\ UNCHANGED <<opened, limit, sleeps, decided, granted>>

SessionLocks ==
    /\ opened' = FALSE /\ idle' = NoTime
    /\ UNCHANGED <<limit, sleeps, decided, granted>>

LimitSet ==
    /\ limit' \in Limits
    /\ UNCHANGED <<idle, opened, sleeps, decided, granted>>

\* Mutant: a session is locked when it has been idle for longer than the limit.
TooLongStrict(t) == t # NoTime /\ t > limit

TooLong(t) == t # NoTime /\ t >= limit

\* The idle time is read under one hold of the session, ...
AutoLockLooks ==
    /\ sleeps = 0 /\ ~decided
    /\ \/ TooLong(idle) /\ decided' = TRUE /\ UNCHANGED <<sleeps, granted>>
       \/ ~TooLong(idle) /\ sleeps' = Period /\ granted' = limit /\ UNCHANGED decided
    /\ UNCHANGED <<idle, opened, limit>>

\* ... and the session, whatever it is now, is locked under another.
AutoLockActs ==
    /\ decided
    /\ opened' = FALSE /\ idle' = NoTime
    /\ decided' = FALSE /\ sleeps' = Period
    /\ UNCHANGED <<limit, granted>>

IdleNext == \/ IdleTick \/ SessionOpens \/ SessionTouched \/ SessionLocks \/ LimitSet
            \/ AutoLockLooks \/ AutoLockActs

IdleSpec == IdleInit /\ [][IdleNext]_idleVars

-----------------------------------------------------------------------------
\* Whatever locks, unlocks and changes of the limit come between, an unlocked
\* session is never idle for longer than the limit the task last found it
\* within, and one period of the task.
\* (spawn_auto_lock, Session::open, lock)
LockedInTime == opened => idle < granted + Period
=============================================================================
