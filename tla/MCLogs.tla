------------------------------- MODULE MCLogs --------------------------------
\* The components of MCServices that keep logs.
EXTENDS Naturals, Sequences, MCParameters

VARIABLES
  writer, fw, daemon, rotation, current, file, disk, day, fate, count,  \* FileWriter
  msgs, proc, closer, logged, sent, lost,                      \* LogAgent
  today, run, dir, reader, cleaner, missed                     \* JobLogs

Log == INSTANCE FileWriter
Agent == INSTANCE LogAgent
Jobs == INSTANCE JobLogs WITH MaxDay <- 2

fvars == <<writer, fw, daemon, rotation, current, file, disk, day, fate, count>>
svars == <<msgs, proc, closer, logged, sent, lost>>
jvars == <<today, run, dir, reader, cleaner, missed>>
==============================================================================
