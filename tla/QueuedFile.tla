------------------------------ MODULE QueuedFile ------------------------------
(***************************************************************************)
(* One JSON file behind a promise that queues the calls of one process:    *)
(* src/service/memory/store.ts and, line for line, src/service/rag/store.ts. *)
(* A call reads the whole file, its handler, which waits for nothing,      *)
(* changes what was read, and fs.writeFile writes it in place.             *)
(***************************************************************************)
EXTENDS Naturals, Sequences

CONSTANT Nothing   \* what a file that is not there holds

VARIABLES
  file,      \* the file
  queue,     \* calls that wait for those before them
  runs       \* calls that have read the file and go on to write it

NoRuns == [n \in {} |-> 0]

Init ==
  /\ file = [form |-> "missing", content |-> Nothing]
  /\ queue = <<>>
  /\ runs = NoRuns

Waits(call) ==
  /\ queue' = Append(queue, call)
  /\ UNCHANGED <<file, runs>>

\* Mutant: a call does not wait for the one before it.
NothingToWaitFor == TRUE

\* withLock: a call begins when the one before it is over, however it ended.
LockFree == DOMAIN runs = {}

Readable == file.form \in {"missing", "whole"}

\* The first call reads the file.  outcomes are the contents its handler may leave to
\* be written, none if it throws or only reads.  A file that does not parse and a
\* handler that throws end the call, and nothing is written.
Begins(outcomes) ==
  LET call == Head(queue)
  IN  /\ queue # <<>> /\ LockFree
      /\ queue' = Tail(queue)
      /\ \/ /\ Readable
            /\ \E after \in outcomes :
                 runs' = [n \in DOMAIN runs \cup {call.number} |->
                            IF n = call.number
                              THEN [step |-> "open", before |-> file.content, after |-> after]
                              ELSE runs[n]]
         \/ /\ ~Readable \/ outcomes = {}
            /\ UNCHANGED runs
      /\ UNCHANGED file

\* fs.writeFile truncates the file ...
Truncates(n) ==
  /\ runs[n].step = "open"
  /\ file' = [form |-> "blank", content |-> Nothing]
  /\ runs' = [runs EXCEPT ![n].step = "write"]
  /\ UNCHANGED queue

\* ... and writes it.
Writes(n) ==
  /\ runs[n].step = "write"
  /\ file' = [form |-> "whole", content |-> runs[n].after]
  /\ runs' = [m \in DOMAIN runs \ {n} |-> runs[m]]
  /\ UNCHANGED queue

Dies ==
  /\ queue' = <<>>
  /\ runs' = NoRuns
  /\ UNCHANGED file

-----------------------------------------------------------------------------
(* For the properties of the stores. *)

\* What the file says, or said before the write under way.
Writing == {n \in DOMAIN runs : runs[n].step = "write"}
Torn    == file.form = "blank" /\ Writing = {}
Says ==
  IF file.form # "blank" THEN file.content
  ELSE IF Writing # {} THEN runs[CHOOSE n \in Writing : TRUE].before
  ELSE Nothing

\* What the file has, and what calls that go on to write have read and may write.
Contents == {file.content} \cup UNION {{runs[n].before, runs[n].after} : n \in DOMAIN runs}

\* The shapes of the variables but for the contents, for calls numbered to N.
ShapesOK(N) ==
  /\ file.form \in {"missing", "blank", "whole"}
  /\ \A n \in DOMAIN runs : n \in 1..N /\ runs[n].step \in {"open", "write"}
  /\ Len(queue) <= N
=============================================================================
