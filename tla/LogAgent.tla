------------------------------ MODULE LogAgent ------------------------------
(***************************************************************************)
(* The syslog handler (pkg/aikit/log/agent_linux.go): Log puts an entry    *)
(* into a channel or drops it; writeproc gathers entries in a buffer and   *)
(* sends the buffer as one message; Close sends nil and waits.  The syslog *)
(* connection is modelled from its use: a write fails and has delivered    *)
(* nothing, as with the datagrams of the documented udp:// agent, or fails *)
(* because the message is too long; a closed writer dials again by itself. *)
(***************************************************************************)
EXTENDS Naturals, Sequences, Functions

CONSTANTS ChanSize, MaxBuffer,  \* the buffer's limit, in entries
          MaxEntries            \* bound on Log calls

AgentAssumption == ChanSize \in Nat \ {0} /\ MaxBuffer \in Nat /\ MaxEntries \in Nat

VARIABLES
  msgs,      \* the channel; Quit is the nil that Close sends
  proc,      \* writeproc: has it ended, connection, last error, buffer
  closer,    \* Close: before, waiting to send, waiting for writeproc, returned
  logged,    \* calls of Log
  sent,      \* messages the server has, one after the other
  lost       \* history: how an entry was lost

gvars == <<msgs, proc, closer, logged, sent, lost>>

Quit == 0
Entries == 1..MaxEntries

Init ==
  /\ msgs = <<>>
  /\ proc = [ended |-> FALSE, conn |-> FALSE, err |-> FALSE, buf |-> <<>>]
  /\ closer = "before"
  /\ logged = 0
  /\ sent = <<>>
  /\ lost = [e \in Entries |-> "no"]

\* A full channel drops the entry; nobody takes one after Close.
Log ==
  /\ logged < MaxEntries /\ logged' = logged + 1
  /\ IF Len(msgs) < ChanSize THEN msgs' = Append(msgs, logged + 1) /\ UNCHANGED lost
     ELSE lost' = [lost EXCEPT ![logged + 1] = "full"] /\ UNCHANGED msgs
  /\ UNCHANGED <<proc, closer, sent>>

Close ==
  /\ closer = "before"
  /\ closer' = "sends"
  /\ UNCHANGED <<msgs, proc, logged, sent, lost>>

SendQuit ==
  /\ closer = "sends" /\ Len(msgs) < ChanSize
  /\ msgs' = Append(msgs, Quit)
  /\ closer' = "waits"
  /\ UNCHANGED <<proc, logged, sent, lost>>

CloseReturns ==
  /\ closer = "waits" /\ proc.ended
  /\ closer' = "returned"
  /\ UNCHANGED <<msgs, proc, logged, sent, lost>>

-----------------------------------------------------------------------------
(* writeproc: an iteration is one step, for besides the channel all it       *)
(* touches is its own.                                                        *)

\* DUMP: the ways the connection, the last error and the buffer may come out
\* of it.  Without a connection, or with nothing to send, it is skipped.
Dump(conn, err, buf) ==
  LET result(e, b, out) == [conn |-> conn, err |-> e, buf |-> b, out |-> out]
  IN IF ~conn \/ buf = <<>> THEN {result(err, buf, <<>>)}
     ELSE {result(FALSE, <<>>, buf), result(TRUE, buf, <<>>),
           result(TRUE, <<>>, <<>>)}                \* the message is too long

\* Without a connection, or after an error, it dials first; when that fails
\* too, the buffer waits.
DialAndDump(buf) ==
  IF proc.conn /\ ~proc.err THEN Dump(TRUE, FALSE, buf)
  ELSE Dump(TRUE, FALSE, buf) \cup {[conn |-> FALSE, err |-> TRUE, buf |-> buf, out |-> <<>>]}

\* r is what comes of buf; the entries in reset were thrown away before.
Iteration(r, buf, reset, ends) ==
  /\ proc' = [ended |-> ends, conn |-> r.conn, err |-> r.err, buf |-> r.buf]
  /\ sent' = sent \o r.out
  /\ lost' = [e \in Entries |->
                CASE e \in reset -> "buffer"
                  [] e \in Range(buf) \ (Range(r.buf) \cup Range(r.out)) -> "too long"
                  [] ends /\ e \in Range(r.buf) -> "quit"
                  [] OTHER -> lost[e]]
  /\ UNCHANGED <<closer, logged>>

\* A buffer at its limit is emptied before the next entry.
Receive ==
  /\ ~proc.ended /\ msgs # <<>> /\ Head(msgs) # Quit
  /\ msgs' = Tail(msgs)
  /\ LET full == Len(proc.buf) >= MaxBuffer
         buf == Append(IF full THEN <<>> ELSE proc.buf, Head(msgs))
     IN \E r \in DialAndDump(buf) :
          Iteration(r, buf, IF full THEN Range(proc.buf) ELSE {}, FALSE)

\* nil goes straight to DUMP, and whatever is left in the buffer is gone.
ReceiveQuit ==
  /\ ~proc.ended /\ msgs # <<>> /\ Head(msgs) = Quit
  /\ msgs' = Tail(msgs)
  /\ \E r \in Dump(proc.conn, proc.err, proc.buf) : Iteration(r, proc.buf, {}, TRUE)

Tick ==
  /\ ~proc.ended
  /\ \E r \in DialAndDump(proc.buf) : Iteration(r, proc.buf, {}, FALSE)
  /\ UNCHANGED msgs

ProcStep == Receive \/ ReceiveQuit
CloserStep == SendQuit \/ CloseReturns
Next == Log \/ Close \/ ProcStep \/ Tick \/ CloserStep

Spec == Init /\ [][Next]_gvars /\ WF_gvars(ProcStep) /\ WF_gvars(CloserStep)

-----------------------------------------------------------------------------
TypeOK ==
  /\ Len(msgs) <= ChanSize /\ Range(msgs) \subseteq Entries \cup {Quit}
  /\ proc.ended \in BOOLEAN /\ proc.conn \in BOOLEAN /\ proc.err \in BOOLEAN
  /\ Range(proc.buf) \subseteq Entries /\ Len(proc.buf) <= MaxBuffer + 1
  /\ closer \in {"before", "sends", "waits", "returned"}
  /\ logged \in 0..MaxEntries
  /\ Range(sent) \subseteq Entries
  /\ lost \in [Entries -> {"no", "full", "buffer", "too long", "quit"}]

\* The server gets the entries in order and each once, through lost and
\* reopened connections; one it does not get is on its way or was lost in a way
\* the code provides for; and only an end without a connection loses the rest.
EntriesKept ==
  LET way == sent \o proc.buf \o msgs
      kept == {e \in 1..logged : lost[e] = "no"}
  IN /\ ~proc.ended => Range(way) \ {Quit} = kept
     /\ Range(sent) \subseteq kept
     /\ \A i, j \in DOMAIN way : i < j /\ way[i] \in kept /\ way[j] \in kept => way[i] < way[j]
     /\ \A e \in 1..logged : lost[e] = "quit" => ~proc.conn \/ proc.err

\* Close comes back, also when the channel is full and the server is away.
Closing == closer = "sends"
Closed == closer = "returned"
CloseEnds == Closing ~> Closed
=============================================================================
