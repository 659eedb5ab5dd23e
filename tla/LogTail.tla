------------------------------- MODULE LogTail -------------------------------
(***************************************************************************)
(* The app's log (src-tauri/src: LogBuffer of state.rs, logs_tail and      *)
(* logs_clear of commands.rs) and the dashboard that follows it with a     *)
(* cursor, whose polls may overlap and be answered late (src/main.ts).     *)
(***************************************************************************)
EXTENDS Naturals, Sequences

CONSTANTS
    Polls,       \* polls that overlap
    LogCapacity, \* LOG_CAPACITY
    MaxLines     \* lines ever logged

VARIABLES
    lines,       \* the sequence numbers of the retained lines
    nextSeq,
    logSeq,      \* the dashboard's cursor
    seen,        \* lines the dashboard has shown, as <<label, number>>
    poll

ASSUME LogAssumption == LogCapacity \in Nat \ {0} /\ MaxLines \in Nat

logVars == <<lines, nextSeq, logSeq, seen, poll>>

LineNumbers == 0..(MaxLines - 1)
NoPoll == [step |-> "idle", since |-> 0, next |-> 0, lines |-> <<>>]

LogTypeOK ==
    /\ lines \in Seq(LineNumbers) /\ Len(lines) <= LogCapacity
    /\ nextSeq \in 0..MaxLines /\ logSeq \in 0..MaxLines
    /\ seen \subseteq LineNumbers \X LineNumbers
    /\ poll \in [Polls -> [step: {"idle", "asked", "answered"}, since: 0..MaxLines,
                           next: 0..MaxLines, lines: Seq(LineNumbers)]]

LogInit ==
    /\ lines = <<>> /\ nextSeq = 0
    /\ logSeq = 0 /\ seen = {} /\ poll = [p \in Polls |-> NoPoll]

\* Mutant: a full buffer loses the line before the last.
RetainLast(s) == IF Len(s) <= LogCapacity THEN s ELSE SubSeq(s, 1, LogCapacity - 1) \o <<s[Len(s)]>>

\* Mutant: one line more than the capacity is kept.
RetainOneMore(s) == IF Len(s) <= LogCapacity + 1 THEN s ELSE Tail(s)

Retain(s) == IF Len(s) <= LogCapacity THEN s ELSE Tail(s)

PushLine ==
    /\ nextSeq < MaxLines
    /\ lines' = Retain(Append(lines, nextSeq)) /\ nextSeq' = nextSeq + 1
    /\ UNCHANGED <<logSeq, seen, poll>>

\* Mutant: clearing starts the numbering again.
AfterClearZero == 0

AfterClear == nextSeq

\* logs_clear and what the dashboard then forgets; its cursor stays.
LogsClear ==
    /\ lines' = <<>> /\ nextSeq' = AfterClear
    /\ UNCHANGED <<logSeq, seen, poll>>

AskTail(p) ==
    /\ poll[p].step = "idle"
    /\ poll' = [poll EXCEPT ![p] = [NoPoll EXCEPT !.step = "asked", !.since = logSeq]]
    /\ UNCHANGED <<lines, nextSeq, logSeq, seen>>

\* The lines from a number on; they are in order, so these are the last ones.
Since(seq) ==
    LET late == {i \in 1..Len(lines): lines[i] >= seq}
    IN  IF late = {} THEN <<>>
        ELSE SubSeq(lines, CHOOSE i \in late: \A j \in late: i <= j, Len(lines))

LogsTail(p) ==
    /\ poll[p].step = "asked"
    /\ poll' = [poll EXCEPT ![p] = [@ EXCEPT !.step = "answered", !.next = nextSeq,
                                           !.lines = Since(poll[p].since)]]
    /\ UNCHANGED <<lines, nextSeq, logSeq, seen>>

\* The dashboard numbers the lines back from the new cursor.
ShowTail(p) ==
    LET tail == poll[p].lines
    IN  /\ poll[p].step = "answered"
        /\ \/ tail = <<>> /\ UNCHANGED <<logSeq, seen>>
           \/ /\ tail # <<>>
              /\ logSeq' = poll[p].next
              /\ seen' = seen \cup {<<(poll[p].next + i) - (Len(tail) + 1), tail[i]>>
                                      : i \in 1..Len(tail)}
        /\ poll' = [poll EXCEPT ![p] = NoPoll]
        /\ UNCHANGED <<lines, nextSeq>>

LogNext ==
    \/ PushLine \/ LogsClear
    \/ \E p \in Polls: AskTail(p) \/ LogsTail(p) \/ ShowTail(p)

LogSpec == LogInit /\ [][LogNext]_logVars

-----------------------------------------------------------------------------
\* A line that the buffer still holds is shown or ahead of the cursor, through
\* clearing, overflow and overlapping polls. (push, since, clear)
NothingSkipped ==
    \A i \in 1..Len(lines): lines[i] < logSeq => \E label \in LineNumbers: <<label, lines[i]>> \in seen

\* Though logs_tail sends no numbers, every line is shown under its own.
\* (logs_tail, main.ts:473)
LabelsAreTrue == \A s \in seen: s[1] = s[2]
=============================================================================
