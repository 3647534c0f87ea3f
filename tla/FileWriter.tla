----------------------------- MODULE FileWriter -----------------------------
(***************************************************************************)
(* The asynchronous log file of pkg/aikit/log/internal/filewriter: Write   *)
(* hands a line to a channel, one daemon goroutine collects lines, writes  *)
(* them, rotates the file by day and by size and retires old files, and    *)
(* Close drains.  Lines are numbered in the order the channel takes them;  *)
(* a file is the sequence of its lines and its size their number; a        *)
(* rotated file is named by its day and number.  The file system may       *)
(* refuse a rename, an open or a remove, the process may crash, and New    *)
(* runs again on what is on the disk.                                      *)
(***************************************************************************)
EXTENDS Integers, Sequences, FiniteSets, SequencesExt

CONSTANTS Writers,      \* goroutines that call Write
          ChanSize, MaxSize, MaxFile,   \* the options
          MaxLines, MaxDay, MaxStarts, MaxFaults   \* bounds

FileAssumption ==
  /\ ChanSize \in Nat \ {0} /\ MaxSize \in Nat \ {0} /\ MaxFile \in Nat \ {0}
  /\ MaxLines \in Nat /\ MaxDay \in Nat /\ MaxStarts \in Nat /\ MaxFaults \in Nat

VARIABLES
  writer,    \* Writers -> "idle" or "sending" (past the look at closed)
  fw,        \* the FileWriter: closed, channel closed?, its channel
  daemon,    \* its goroutine: program counter and aggsbuf
  rotation,  \* lastRotateFormat, lastSplitNum, the list of rotated files
  current,   \* f.current: "open", "closed" or "nil"
  file,      \* content of the current file on the disk
  disk,      \* rotated files on the disk: name -> content
  day,       \* the date
  fate,      \* lines that are not kept: cause -> lines
  count      \* lines accepted, starts of the process, faults

fvars == <<writer, fw, daemon, rotation, current, file, disk, day, fate, count>>

Lines(s) == ToSet(s)
Name(d, n) == <<d, n>>
Newer(a, b) == a[1] > b[1] \/ (a[1] = b[1] /\ a[2] > b[2])
Alive == daemon.pc # "dead"

\* New on the files of the disk, newest first; the number goes on from the
\* newest one when it is of today.
Found == SetToSortSeq(DOMAIN disk, Newer)
Opened(files) ==
  [day |-> day, files |-> files,
   num |-> IF files # <<>> /\ Head(files)[1] = day THEN Head(files)[2] ELSE 0]

Init ==
  /\ writer = [w \in Writers |-> "idle"]
  /\ fw = [closed |-> FALSE, chanClosed |-> FALSE, ch |-> <<>>, closer |-> "none"]
  /\ daemon = [pc |-> "select", agg |-> <<>>]
  /\ rotation = [day |-> 0, num |-> 0, files |-> <<>>]
  /\ current = "open"
  /\ file = <<>>
  /\ disk = <<>>
  /\ day = 0
  /\ fate = [c \in {"retired", "overwritten", "spilled", "crashed"} |-> {}]
  /\ count = [lines |-> 0, starts |-> 1, faults |-> 0]

-----------------------------------------------------------------------------
(* Write. *)

\* closed is read; a writer that sees it set returns an error.
WriteBegins(w) ==
  /\ Alive /\ writer[w] = "idle" /\ ~fw.closed
  /\ writer' = [writer EXCEPT ![w] = "sending"]
  /\ UNCHANGED <<fw, daemon, rotation, current, file, disk, day, fate, count>>

\* The send; a sender that finds the channel closed panics.
Send(w) ==
  /\ Alive /\ writer[w] = "sending" /\ ~fw.chanClosed
  /\ Len(fw.ch) < ChanSize /\ count.lines < MaxLines
  /\ count' = [count EXCEPT !.lines = @ + 1]
  /\ fw' = [fw EXCEPT !.ch = Append(@, count.lines + 1)]
  /\ writer' = [writer EXCEPT ![w] = "idle"]
  /\ UNCHANGED <<daemon, rotation, current, file, disk, day, fate>>

Discard(w) ==
  /\ Alive /\ writer[w] = "sending" /\ ~fw.chanClosed
  /\ Len(fw.ch) = ChanSize
  /\ writer' = [writer EXCEPT ![w] = "idle"]
  /\ UNCHANGED <<fw, daemon, rotation, current, file, disk, day, fate, count>>

\* The process ends; what was not written is lost.
Dies ==
  /\ daemon' = [pc |-> "dead", agg |-> <<>>]
  /\ fw' = [fw EXCEPT !.ch = <<>>]
  /\ fate' = [fate EXCEPT !["crashed"] = @ \cup Lines(daemon.agg) \cup Lines(fw.ch)]
  /\ UNCHANGED <<rotation, current, file, disk, day>>

SendPanics(w) ==
  /\ Alive /\ writer[w] = "sending" /\ fw.chanClosed
  /\ Dies
  /\ UNCHANGED <<writer, count>>

-----------------------------------------------------------------------------
(* The daemon.  Each case of its select ends with a look at closed. *)

Looped(agg) == [pc |-> IF fw.closed THEN "closing" ELSE "select", agg |-> agg]

\* FileWriter.write: to the current file, or to stderr.
Put(lines) ==
  IF current = "open"
  THEN file' = file \o lines /\ UNCHANGED fate
  ELSE fate' = [fate EXCEPT !["spilled"] = @ \cup Lines(lines)] /\ UNCHANGED file

Aggregate ==
  /\ daemon.pc = "select" /\ fw.ch # <<>>
  /\ fw' = [fw EXCEPT !.ch = Tail(@)]
  /\ daemon' = Looped(Append(daemon.agg, Head(fw.ch)))
  /\ UNCHANGED <<writer, rotation, current, file, disk, day, fate, count>>

\* The receive from the closed, empty channel.
SeesClosed ==
  /\ daemon.pc = "select" /\ fw.ch = <<>> /\ fw.chanClosed
  /\ daemon' = Looped(daemon.agg)
  /\ UNCHANGED <<writer, fw, rotation, current, file, disk, day, fate, count>>

Flush ==
  /\ daemon.pc = "select" /\ daemon.agg # <<>>
  /\ Put(daemon.agg)
  /\ daemon' = Looped(<<>>)
  /\ UNCHANGED <<writer, fw, rotation, current, disk, day, count>>

FlushLast ==
  /\ daemon.pc = "closing"
  /\ Put(daemon.agg)
  /\ daemon' = [pc |-> "draining", agg |-> <<>>]
  /\ UNCHANGED <<writer, fw, rotation, current, disk, day, count>>

Drain ==
  /\ daemon.pc = "draining"
  /\ \/ /\ fw.ch # <<>>
        /\ Put(<<Head(fw.ch)>>)
        /\ fw' = [fw EXCEPT !.ch = Tail(@)]
        /\ UNCHANGED daemon
     \/ /\ fw.ch = <<>> /\ fw.chanClosed
        /\ daemon' = [daemon EXCEPT !.pc = "done"]
        /\ UNCHANGED <<fw, file, fate>>
  /\ UNCHANGED <<writer, rotation, current, disk, day, count>>

\* checkRotate.  Retention takes the front of the list until MaxFile names are
\* left; a file that cannot be removed (in stuck) leaves the list all the same.
Surplus == SubSeq(rotation.files, 1, Len(rotation.files) - MaxFile)
Left == SubSeq(rotation.files, Len(Surplus) + 1, Len(rotation.files))
MutPushed(name) == <<name>> \o Left
Pushed(name) == Append(Left, name)
Kept(gone) == [n \in DOMAIN disk \ gone |-> disk[n]]
In(names) == UNION {Lines(disk[n]) : n \in DOMAIN disk \cap names}

Due == day # rotation.day \/ Len(file) > MaxSize

\* The number of the next file: from 0 on a new day, else one more.
NextNum == IF day # rotation.day THEN 0 ELSE rotation.num + 1

\* The current file becomes the rotated file `name`, over one of that name.
Renamed(gone, name) ==
  /\ disk' = [n \in (DOMAIN disk \ gone) \cup {name} |-> IF n = name THEN file ELSE disk[n]]
  /\ fate' = [fate EXCEPT !["retired"] = @ \cup In(gone),
                          !["overwritten"] = @ \cup In({name} \ gone)]
  /\ rotation' = [day |-> day, num |-> NextNum, files |-> Pushed(name)]
  /\ file' = <<>>

Retired(gone) ==
  /\ disk' = Kept(gone)
  /\ fate' = [fate EXCEPT !["retired"] = @ \cup In(gone)]
  /\ rotation' = [rotation EXCEPT !.files = Left]

CheckRotate(stuck, fault) ==
  LET gone == Lines(Surplus) \ stuck
      faults == Cardinality(stuck) + (IF fault = "none" THEN 0 ELSE 1)
  IN  /\ daemon.pc = "select"
      /\ stuck \subseteq Lines(Surplus)
      /\ current # "nil"
      /\ count.faults + faults <= MaxFaults
      /\ count' = [count EXCEPT !.faults = @ + faults]
      /\ \/ ~Due /\ Surplus # <<>> /\ fault = "none" /\ Retired(gone) /\ UNCHANGED <<file, current>>
         \/ Due /\ fault = "rename" /\ Retired(gone) /\ current' = "closed" /\ UNCHANGED file
         \/ /\ Due /\ fault # "rename"
            /\ Renamed(gone, Name(rotation.day, rotation.num))
            /\ current' = IF fault = "open" THEN "nil" ELSE "open"
      /\ daemon' = Looped(daemon.agg)
      /\ UNCHANGED <<writer, fw, day>>

\* With f.current nil the next check reads through it and the process ends.
CheckRotatePanics ==
  /\ daemon.pc = "select" /\ current = "nil"
  /\ Dies
  /\ UNCHANGED <<writer, count>>

-----------------------------------------------------------------------------
(* Close, the end of the process, New, and the date. *)

MutCloseLeavesChannel ==
  /\ Alive
  /\ fw.closer = "none"
  /\ fw' = [fw EXCEPT !.closed = TRUE, !.closer = "waiting"]
  /\ UNCHANGED <<writer, daemon, rotation, current, file, disk, day, fate, count>>
Close ==
  /\ Alive
  /\ \/ /\ fw.closer = "none"
        /\ fw' = [fw EXCEPT !.closed = TRUE, !.closer = "stored"]
     \/ /\ fw.closer = "stored"
        /\ fw' = [fw EXCEPT !.chanClosed = TRUE, !.closer = "waiting"]
  /\ UNCHANGED <<writer, daemon, rotation, current, file, disk, day, fate, count>>

CloseReturns ==
  /\ fw.closer = "waiting" /\ daemon.pc = "done"
  /\ fw' = [fw EXCEPT !.closer = "returned"]
  /\ UNCHANGED <<writer, daemon, rotation, current, file, disk, day, fate, count>>

Crash ==
  /\ Alive /\ count.starts < MaxStarts
  /\ Dies
  /\ UNCHANGED <<writer, count>>

\* A new process, after the end of the old one.
New ==
  /\ fw.closer = "returned" \/ ~Alive
  /\ count.starts < MaxStarts
  /\ writer' = [w \in Writers |-> "idle"]
  /\ fw' = [closed |-> FALSE, chanClosed |-> FALSE, ch |-> <<>>, closer |-> "none"]
  /\ daemon' = [pc |-> "select", agg |-> <<>>]
  /\ current' = "open"
  /\ \E files \in {Found, <<>>} :
       /\ rotation' = Opened(files)
       /\ files = Found \/ count.faults < MaxFaults
       /\ count' = [count EXCEPT !.starts = @ + 1, !.faults = IF files = Found THEN @ ELSE @ + 1]
  /\ UNCHANGED <<file, disk, day, fate>>

NewDay ==
  /\ day < MaxDay
  /\ day' = day + 1
  /\ UNCHANGED <<writer, fw, daemon, rotation, current, file, disk, fate, count>>

DaemonStep ==
  \/ Aggregate \/ SeesClosed \/ Flush \/ FlushLast \/ Drain \/ CheckRotatePanics
  \/ \E stuck \in SUBSET DOMAIN disk, fault \in {"none", "rename", "open"} : CheckRotate(stuck, fault)
CloserStep == Close \/ CloseReturns

Next ==
  \/ \E w \in Writers : WriteBegins(w) \/ Send(w) \/ Discard(w) \/ SendPanics(w)
  \/ DaemonStep \/ CloserStep \/ Crash \/ New \/ NewDay

Fairness == WF_fvars(DaemonStep) /\ WF_fvars(CloserStep)
Spec == Init /\ [][Next]_fvars /\ Fairness

-----------------------------------------------------------------------------
Numbered == 1..MaxLines
Names == (0..MaxDay) \X (0..MaxLines)
TypeOK ==
  /\ writer \in [Writers -> {"idle", "sending"}]
  /\ fw \in [closed : BOOLEAN, chanClosed : BOOLEAN, ch : Seq(Numbered),
             closer : {"none", "stored", "waiting", "returned"}]
  /\ Len(fw.ch) <= ChanSize
  /\ daemon \in [pc : {"select", "closing", "draining", "done", "dead"}, agg : Seq(Numbered)]
  /\ rotation \in [day : 0..MaxDay, num : 0..MaxLines, files : Seq(Names)]
  /\ current \in {"open", "closed", "nil"}
  /\ file \in Seq(Numbered)
  /\ DOMAIN disk \subseteq Names /\ \A n \in DOMAIN disk : disk[n] \in Seq(Numbered)
  /\ day \in 0..MaxDay
  /\ fate \in [{"retired", "overwritten", "spilled", "crashed"} -> SUBSET Numbered]
  /\ count \in [lines : 0..MaxLines, starts : 1..MaxStarts, faults : 0..MaxFaults]

Ascending(s) == \A i, j \in DOMAIN s : i < j => s[i] < s[j]

\* A line that Write has accepted is in exactly one place, in order: the
\* rotated files, the current file, aggsbuf, the channel, or one of the ways
\* a line may be lost.  No rotation of one process overwrites a file, nothing
\* goes to stderr unless the file system failed, and Close does not return
\* before every accepted line has been written.
LinesKept ==
  LET way == file \o daemon.agg \o fw.ch
      lost == UNION {fate[c] : c \in DOMAIN fate}
  IN  /\ 1..count.lines = Lines(way) \cup In(DOMAIN disk) \cup lost
      /\ lost \cap (Lines(way) \cup In(DOMAIN disk)) = {}
      /\ Ascending(way)
      /\ \A n \in DOMAIN disk :
           /\ Ascending(disk[n]) /\ Lines(disk[n]) \cap Lines(way) = {}
           /\ \A m \in DOMAIN disk \ {n} : Lines(disk[n]) \cap Lines(disk[m]) = {}
      /\ fate["overwritten"] = {} \/ count.starts > 1
      /\ fate["spilled"] = {} \/ count.faults > 0
      /\ fw.closer = "returned" => daemon.agg \o fw.ch = <<>>

\* Retention drops the oldest lines: as long as no file was found at start
\* and none refused to go, whatever is retired is older than whatever is kept.
OldestRetiredFirst ==
  count.starts = 1 /\ count.faults = 0 =>
    \A old \in fate["retired"], kept \in In(DOMAIN disk) \cup Lines(file) : old < kept

\* Close returns, with the daemon busy rotating and writers racing it, unless
\* the process dies (a racing writer, or a current file that could not be
\* opened).
Closing == fw.closer # "none"
Closed == fw.closer = "returned" \/ ~Alive
CloseEnds == Closing ~> Closed
=============================================================================
