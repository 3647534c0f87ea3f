------------------------------- MODULE JobLogs -------------------------------
(***************************************************************************)
(* The logs of an XXL-Job run (pkg/aikit/app/xjob).  A line goes into the  *)
(* run's file of the day it is written; the scheduler reads the file of    *)
(* the day the run was triggered, page by page, until a page is empty; and *)
(* a loop removes the directories of days that are too old.  xxl-job's     *)
(* executor and admin are modelled from their use.  Midnight is the only   *)
(* time that matters: a clock of days.                                     *)
(***************************************************************************)
EXTENDS Naturals, Sequences, FiniteSets, Functions

CONSTANTS MaxAge,            \* days; 0 keeps everything
          MaxLines, MaxDay   \* bounds: lines of the run, days

JobLogAssumption == MaxAge \in Nat /\ MaxLines \in Nat /\ MaxDay \in Nat

VARIABLES
  today,
  run,       \* the run: running, its lines so far, the day of each
  dir,       \* the days that have a directory -> the run's file in it
  reader,    \* the admin: next line asked for, what it has, the last IsEnd, and
             \* (history) how many lines there were when it was told
  cleaner,   \* the cleanup goroutine: where it is, and has Close been called
  missed     \* history: the trigger day's directory was removed

jvars == <<today, run, dir, reader, cleaner, missed>>

Trigger == 0

Init ==
  /\ today = Trigger
  /\ run = [going |-> TRUE, days |-> <<>>]
  /\ dir = [d \in {} |-> <<>>]
  /\ reader = [from |-> 1, got |-> <<>>, ended |-> FALSE, written |-> 0]
  /\ cleaner = [pc |-> "begins", closed |-> FALSE]
  /\ missed = FALSE

Midnight ==
  /\ today < MaxDay
  /\ today' = today + 1
  /\ UNCHANGED <<run, dir, reader, cleaner, missed>>

-----------------------------------------------------------------------------
(* Writing. *)

\* Opened to append and closed again for every line, the directory made anew.
writeLog ==
  /\ run.going /\ Len(run.days) < MaxLines
  /\ LET line == Len(run.days) + 1
         file == IF today \in DOMAIN dir THEN dir[today] ELSE <<>>
     IN dir' = [d \in DOMAIN dir \cup {today} |-> IF d = today THEN Append(file, line) ELSE dir[d]]
  /\ run' = [run EXCEPT !.days = Append(@, today)]
  /\ UNCHANGED <<today, reader, cleaner, missed>>

\* An open or a write fails: the line is only reported to the service's log.
WriteFails ==
  /\ run.going /\ Len(run.days) < MaxLines
  /\ run' = [run EXCEPT !.days = Append(@, MaxDay + 1)]
  /\ UNCHANGED <<today, dir, reader, cleaner, missed>>

RunEnds ==
  /\ run.going
  /\ run' = [run EXCEPT !.going = FALSE]
  /\ UNCHANGED <<today, dir, reader, cleaner, missed>>

-----------------------------------------------------------------------------
(* Reading. *)

\* The line number of the last line, and the lines from fromLine on.
readLog(day, fromLine) ==
  IF day \notin DOMAIN dir THEN [to |-> fromLine, lines |-> <<>>]
  ELSE [to |-> Len(dir[day]), lines |-> SubSeq(dir[day], fromLine, Len(dir[day]))]

\* The lines of the trigger day.
TriggerLines == {i \in DOMAIN run.days : run.days[i] = Trigger}

\* The admin asks for the line after the last it was told of.  IsEnd is an
\* empty page, also while the run goes on.
TaskLogHandler ==
  /\ LET page == readLog(Trigger, reader.from)
     IN reader' = [from |-> IF page.lines = <<>> THEN reader.from ELSE page.to + 1,
                   got |-> reader.got \o page.lines,
                   ended |-> page.lines = <<>>,
                   written |-> Len(run.days)]
  /\ UNCHANGED <<today, run, dir, cleaner, missed>>

-----------------------------------------------------------------------------
(* Removing: at once, then every hour until Close.  A directory bears the   *)
(* midnight that began its day, and any time of today is after midnight.    *)

Expired(d) == d + MaxAge <= today

cleanup ==
  /\ cleaner.pc # "ended"
  /\ LET removed == IF MaxAge <= 0 THEN {} ELSE {d \in DOMAIN dir : Expired(d)}
     IN /\ dir' = [d \in DOMAIN dir \ removed |-> dir[d]]
        /\ missed' = (missed \/ Trigger \in removed)
  /\ cleaner' = [cleaner EXCEPT !.pc = "loops"]
  /\ UNCHANGED <<today, run, reader>>

Close ==
  /\ cleaner' = [cleaner EXCEPT !.closed = TRUE]
  /\ UNCHANGED <<today, run, dir, reader, missed>>

\* The select may also take another tick that is due.
CleanerEnds ==
  /\ cleaner.pc = "loops" /\ cleaner.closed
  /\ cleaner' = [cleaner EXCEPT !.pc = "ended"]
  /\ UNCHANGED <<today, run, dir, reader, missed>>

Next ==
  \/ Midnight \/ writeLog \/ WriteFails \/ RunEnds \/ TaskLogHandler
  \/ cleanup \/ Close \/ CleanerEnds

Spec == Init /\ [][Next]_jvars

-----------------------------------------------------------------------------
TypeOK ==
  /\ today \in 0..MaxDay /\ DOMAIN dir \subseteq 0..MaxDay
  /\ \A d \in DOMAIN dir : \A i \in DOMAIN dir[d] : dir[d][i] \in 1..MaxLines
  /\ run.going \in BOOLEAN /\ Len(run.days) <= MaxLines
  /\ reader.from \in 1..(MaxLines + 1) /\ reader.ended \in BOOLEAN /\ reader.written \in 0..MaxLines
  /\ cleaner \in [pc : {"begins", "loops", "ended"}, closed : BOOLEAN] /\ missed \in BOOLEAN

\* The admin's pages fit together: whatever is written between two of them, it
\* has the lines of the trigger day in order, none twice and none left out, and
\* IsEnd told it so, unless they grew too old first.  (A line written after
\* midnight is in another file, and never read.)
PagesFit ==
  /\ \A i, j \in DOMAIN reader.got : i < j => reader.got[i] < reader.got[j]
  /\ Range(reader.got) \subseteq TriggerLines
  /\ \A i \in TriggerLines : (\E j \in Range(reader.got) : i < j) => i \in Range(reader.got)
  /\ reader.ended /\ ~missed =>
       \A i \in TriggerLines : i <= reader.written => i \in Range(reader.got)

\* Retention counts whole days: what was written today stays, though the run
\* began long ago.
TodayKept ==
  MaxAge > 0 => \A i \in DOMAIN run.days :
    run.days[i] = today => today \in DOMAIN dir /\ i \in Range(dir[today])
=============================================================================
