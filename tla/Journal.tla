------------------------------- MODULE Journal -------------------------------
(***************************************************************************)
(* The executor's journal (journal/journal.ts): a hash-chained file, the   *)
(* copy of it each process keeps in memory, and the fence beside it.       *)
(* append() checks the fence and fixes the sequence and the previous hash, *)
(* awaits the hash of the new line, and only then writes the line: the     *)
(* handlers, the tracker and recovery of one process all append, and each  *)
(* may be waiting for its hash.                                            *)
(*                                                                         *)
(* A line is its sequence, the hash it chains to and its own hash; hashes  *)
(* do not collide, so a hash is a number no other line has.                *)
(***************************************************************************)
EXTENDS Integers, Sequences, SequencesExt

CONSTANTS
  Processes,     \* executors that may open the journal
  Tasks,         \* asynchronous tasks of a process that append
  Token,         \* the fencing token each process presents
  MaxLines,      \* bound: lines written
  MaxOpens       \* bound: times the journal is opened

ASSUME JournalAssumption == MaxLines \in Nat /\ MaxOpens \in Nat

VARIABLES
  file,      \* the lines on disk
  lock,      \* the fence: whose token it holds, and whether it was released
  status,    \* per process: "off", "up", "stopping" (fence released, still running) or "fatal"
  entries,   \* per process: the lines it believes are in the file
  pending,   \* per process and task: the lines whose hash it awaits, none or one
  hashes,    \* hashes given out so far
  opens

vars == <<file, lock, status, entries, pending, hashes, opens>>

\* Mutant: the first line chains to something that is no hash.
NoHash == -1

Genesis == 0

HashOf(lines) == IF lines = <<>> THEN Genesis ELSE Last(lines).hash

\* load(): every line has the next sequence and chains to the line before it.
Loads(lines) ==
  \A i \in DOMAIN lines :
    /\ lines[i].sequence = i - 1
    /\ lines[i].previous = HashOf(SubSeq(lines, 1, i - 1))

Line == [sequence : Nat, previous : Nat, hash : Nat]

TypeOK ==
  /\ file \in Seq(Line)
  /\ lock \in [token : {Token[p] : p \in Processes} \cup {"nobody"}, released : BOOLEAN]
  /\ status \in [Processes -> {"off", "up", "stopping", "fatal"}]
  /\ entries \in [Processes -> Seq(Line)]
  /\ pending \in [Processes -> [Tasks -> SUBSET Line]]
  /\ hashes \in Nat /\ opens \in Nat

Init ==
  /\ file = <<>>
  /\ lock = [token |-> "nobody", released |-> TRUE]
  /\ status = [p \in Processes |-> "off"]
  /\ entries = [p \in Processes |-> <<>>]
  /\ pending = [p \in Processes |-> [t \in Tasks |-> {}]]
  /\ hashes = 0 /\ opens = 0

\* What open() accepts: no fence, a released one, or our own.
Free(p) == lock.released \/ lock.token = Token[p]

\* A corrupt journal is fatal, with the fence already taken.
Open(p) ==
  /\ status[p] = "off" /\ opens < MaxOpens /\ Free(p)
  /\ opens' = opens + 1
  /\ lock' = [token |-> Token[p], released |-> FALSE]
  /\ status' = [status EXCEPT ![p] = IF Loads(file) THEN "up" ELSE "fatal"]
  /\ entries' = [entries EXCEPT ![p] = IF Loads(file) THEN file ELSE <<>>]
  /\ UNCHANGED <<file, pending, hashes>>

Running(p) == status[p] \in {"up", "stopping"}

\* Mutant: the line is chained to the end of the file rather than of the copy in memory.
BeginFromFile(p, t) ==
  /\ Running(p) /\ pending[p][t] = {} /\ hashes < MaxLines
  /\ lock.token = Token[p]
  /\ pending' = [pending EXCEPT ![p][t] =
       {[sequence |-> Len(file), previous |-> HashOf(file), hash |-> hashes + 1]}]
  /\ hashes' = hashes + 1
  /\ UNCHANGED <<file, lock, status, entries, opens>>

\* append() up to its await, of a handler, the tracker or recovery, whoever else of the
\* process is in one.
BeginAppend(p, t) ==
  /\ Running(p) /\ pending[p][t] = {} /\ hashes < MaxLines
  /\ lock.token = Token[p]
  /\ pending' = [pending EXCEPT ![p][t] =
       {[sequence |-> Len(entries[p]), previous |-> HashOf(entries[p]), hash |-> hashes + 1]}]
  /\ hashes' = hashes + 1
  /\ UNCHANGED <<file, lock, status, entries, opens>>

\* The rest of append(): the line reaches the file and the copy in memory.
FinishAppend(p, t) ==
  /\ Running(p)
  /\ \E line \in pending[p][t] :
       /\ file' = Append(file, line)
       /\ entries' = [entries EXCEPT ![p] = Append(@, line)]
  /\ pending' = [pending EXCEPT ![p][t] = {}]
  /\ UNCHANGED <<lock, status, hashes, opens>>

\* stop(): the listeners are closed and the fence released, whatever the tracker is doing; a
\* pass of it may still run, and append, until the process exits.
Stop(p) ==
  /\ status[p] = "up"
  /\ status' = [status EXCEPT ![p] = "stopping"]
  /\ lock' = [token |-> Token[p], released |-> TRUE]
  /\ UNCHANGED <<file, entries, pending, hashes, opens>>

\* The process ends, after stop() or by a crash, which leaves the fence as it is.
End(p) ==
  /\ status[p] # "off"
  /\ status' = [status EXCEPT ![p] = "off"]
  /\ entries' = [entries EXCEPT ![p] = <<>>]
  /\ pending' = [pending EXCEPT ![p] = [t \in Tasks |-> {}]]
  /\ UNCHANGED <<file, lock, hashes, opens>>

Next ==
  \E p \in Processes :
    \/ Open(p) \/ Stop(p) \/ End(p)
    \/ \E t \in Tasks : BeginAppend(p, t) \/ FinishAppend(p, t)

Spec == Init /\ [][Next]_vars

-----------------------------------------------------------------------------

\* The journal a restart opens is one it can load, whatever crashed, stopped or took over
\* before: without it no executor starts and nothing is reconciled.
RestartLoads == Loads(file)

\* A file that loads is the one history: each running process finds every line it took for
\* written at its place in it, the fence released too early, taken over, or shared by two
\* processes of one token notwithstanding. Whatever two writers do to each other, load()
\* refuses the file before it would drop a line somebody acted on (a used nonce, a signed
\* attempt), and no fork of it passes for a history.
OneHistory == RestartLoads => \A p \in Processes : Running(p) => IsPrefix(entries[p], file)

\* What journal.ts:9 promises of the fence: its holder is the only writer, so that it has
\* every line of a file that loads in memory, and decides from that what a restart would. It does
\* not hold: a line under way when the fence is released is written after the next one loaded.
HolderKnowsAll ==
  \A p \in Processes :
    RestartLoads /\ status[p] = "up" /\ lock.token = Token[p] => entries[p] = file

=============================================================================
