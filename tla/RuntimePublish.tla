---------------------------- MODULE RuntimePublish ----------------------------
(***************************************************************************)
(* Publication of a process's receiver key and its fixed reader.  At start *)
(* the process makes a key pair, writes the public half to a temporary     *)
(* file, renames it over runtime.json, loads its TLS material, reports     *)
(* ready and consumes until it is signalled.  Readers are other processes: *)
(* each opens the path, checks the descriptor, reads it in pieces, checks  *)
(* it again and decodes.  The directory is a tmpfs of the pod, which outlives *)
(* a restart of the container; whether a reader does is the deployment's   *)
(* choice, so here it may.                                                 *)
(*                                                                         *)
(* Abstracted: the DTO is its keyID and its publicKey, both named by the   *)
(* generation of the process; size and time of a file are its writes.      *)
(***************************************************************************)
EXTENDS Naturals, FiniteSets

CONSTANTS
  Readers,         \* invocations of --print-confidential-runtime
  MaxGenerations,  \* bound: processes started one after another
  None             \* nothing written, nothing linked

ASSUME BoundsAssumption ==
  /\ MaxGenerations \in Nat \ {0}
  /\ None \notin Nat

VARIABLES
  generation,  \* number of the process that runs or ran last
  pc,          \* what it does next
  ready,       \* what its /readyz answers
  draft,       \* the file it writes
  temps,       \* files that still have their temporary name
  linked,      \* the file runtime.json names
  content,     \* content[f]: the keyID and publicKey in f, and its writes
  crashes,     \* processes that were killed
  reader       \* reader[q]: its step, what it opened and what it has read

process == <<generation, pc, ready, draft>>
files == <<temps, linked, content>>
vars == <<process, files, crashes, reader>>

Generations == 1..MaxGenerations
Blank == [keyID |-> None, publicKey |-> None, writes |-> 0]
Unopened == [step |-> "open", file |-> None, before |-> 0, seen |-> Blank, readyFor |-> None]

Init ==
  /\ generation = 0
  /\ pc = "down"
  /\ ready = FALSE
  /\ draft = None
  /\ temps = {}
  /\ linked = None
  /\ content = [f \in Generations |-> Blank]
  /\ crashes = 0
  /\ reader = [q \in Readers |-> Unopened]

------------------------------------------------------------------------------
(* The process *)

Goto(from, to) == pc = from /\ pc' = to

\* Mutant: readiness is reported as soon as the process starts.
StartReady ==
  /\ Goto("down", "create")
  /\ generation < MaxGenerations
  /\ generation' = generation + 1
  /\ ready' = TRUE
  /\ UNCHANGED <<draft, files, crashes, reader>>

\* NewReceiver makes the key pair of this process.
Start ==
  /\ Goto("down", "create")
  /\ generation < MaxGenerations
  /\ generation' = generation + 1
  /\ UNCHANGED <<ready, draft, files, crashes, reader>>

\* Mutant: the published file is rewritten in place when there is one.
CreateTempInPlace ==
  /\ Goto("create", "write_id")
  /\ draft' = IF linked = None THEN generation ELSE linked
  /\ temps' = temps \cup {generation}
  /\ UNCHANGED <<generation, ready, linked, content, crashes, reader>>

\* Every process creates at most one file, so a file is named by its maker.
CreateTemp ==
  /\ Goto("create", "write_id")
  /\ draft' = generation
  /\ temps' = temps \cup {generation}
  /\ UNCHANGED <<generation, ready, linked, content, crashes, reader>>

Write(id, key) ==
  /\ content' = [content EXCEPT ![draft] =
                   [keyID |-> id, publicKey |-> key, writes |-> @.writes + 1]]
  /\ UNCHANGED <<generation, ready, draft, temps, linked, crashes, reader>>

\* A write is not atomic to who reads the file meanwhile.
WriteKeyID ==
  /\ Goto("write_id", "write_key")
  /\ Write(generation, content[draft].publicKey)

WritePublicKey ==
  /\ Goto("write_key", "rename")
  /\ Write(content[draft].keyID, generation)

Rename ==
  /\ Goto("rename", "sync_dir")
  /\ linked' = draft
  /\ temps' = temps \ {generation}
  /\ UNCHANGED <<generation, ready, draft, content, crashes, reader>>

DirectorySynced ==
  /\ Goto("sync_dir", "tls")
  /\ UNCHANGED <<generation, ready, draft, files, crashes, reader>>

\* Mutant: the temporary file stays when a later step fails.
FailedAndLeft ==
  /\ pc \in {"create", "write_id", "write_key", "rename", "sync_dir", "tls", "run"}
  /\ pc' = "down"
  /\ ready' = FALSE
  /\ UNCHANGED <<generation, draft, files, crashes, reader>>

\* A step fails: the deferred removal runs and the process exits.  After the
\* rename that leaves the published file of a process that is gone.
Failed ==
  /\ pc \in {"create", "write_id", "write_key", "rename", "sync_dir", "tls", "run"}
  /\ pc' = "down"
  /\ ready' = FALSE
  /\ temps' = temps \ {generation}
  /\ UNCHANGED <<generation, draft, linked, content, crashes, reader>>

\* TLS material loaded: ready, although the consumers are bound only by Run.
BecomeReady ==
  /\ Goto("tls", "run")
  /\ ready' = TRUE
  /\ UNCHANGED <<generation, draft, files, crashes, reader>>

\* A signal ends Run; the health server still answers until it has shut down.
Signalled ==
  /\ Goto("run", "stop")
  /\ UNCHANGED <<generation, ready, draft, files, crashes, reader>>

Exit ==
  /\ Goto("stop", "down")
  /\ ready' = FALSE
  /\ UNCHANGED <<generation, draft, files, crashes, reader>>

\* The kernel or a probe kills the process: no deferred call runs.
Crash ==
  /\ pc # "down"
  /\ pc' = "down"
  /\ ready' = FALSE
  /\ crashes' = crashes + 1
  /\ UNCHANGED <<generation, draft, files, reader>>

------------------------------------------------------------------------------
(* The reader: one step per system call *)

Advance(q, from, changes) ==
  /\ reader[q].step = from
  /\ reader' = [reader EXCEPT ![q] = changes]
  /\ UNCHANGED <<process, files, crashes>>

Open(q) ==
  /\ linked # None
  /\ Advance(q, "open", [Unopened EXCEPT !.step = "stat", !.file = linked,
                                         !.readyFor = IF ready THEN generation ELSE None])

Opened(q) == content[reader[q].file]

StatBefore(q) ==
  Advance(q, "stat", [reader[q] EXCEPT !.step = "read_id", !.before = Opened(q).writes])

ReadKeyID(q) ==
  Advance(q, "read_id", [reader[q] EXCEPT !.step = "read_key", !.seen.keyID = Opened(q).keyID])

ReadPublicKey(q) ==
  Advance(q, "read_key",
          [reader[q] EXCEPT !.step = "check", !.seen.publicKey = Opened(q).publicKey])

\* The descriptor has not changed and what was read decodes as a whole DTO.
Accept(q) ==
  /\ Advance(q, "check", [reader[q] EXCEPT !.step = "printed"])
  /\ Opened(q).writes = reader[q].before
  /\ None \notin {reader[q].seen.keyID, reader[q].seen.publicKey}

\* No file, an error of a call, a changed file or one that does not decode.
Refuse(q) ==
  \E from \in {"open", "stat", "read_id", "read_key", "check"} :
    Advance(q, from, [reader[q] EXCEPT !.step = "refused"])

Process ==
  \/ Start \/ CreateTemp \/ WriteKeyID \/ WritePublicKey \/ Rename \/ DirectorySynced
  \/ Failed \/ BecomeReady \/ Signalled \/ Exit \/ Crash

Read(q) ==
  \/ Open(q) \/ StatBefore(q) \/ ReadKeyID(q) \/ ReadPublicKey(q) \/ Accept(q) \/ Refuse(q)

\* All generations have come and gone and every reader has ended.
Quiescent ==
  /\ pc = "down" /\ generation = MaxGenerations
  /\ \A q \in Readers : reader[q].step \in {"printed", "refused"}
  /\ UNCHANGED vars

Next == Process \/ (\E q \in Readers : Read(q)) \/ Quiescent

Spec == Init /\ [][Next]_vars
------------------------------------------------------------------------------
(* Properties *)

Maybe(S) == S \cup {None}
File == [keyID : Maybe(Generations), publicKey : Maybe(Generations), writes : Nat]
ReaderRecord ==
  [step : {"open", "stat", "read_id", "read_key", "check", "printed", "refused"},
   file : Maybe(Generations), before : Nat, seen : File, readyFor : Maybe(Generations)]

\* Type invariant: what the path names is a finished file, and a file that is
\* being written still has its temporary name only.
TypeOK ==
  /\ generation \in 0..MaxGenerations
  /\ pc \in {"down", "create", "write_id", "write_key", "rename", "sync_dir", "tls", "run", "stop"}
  /\ ready \in BOOLEAN
  /\ draft \in Maybe(Generations)
  /\ temps \subseteq Generations
  /\ linked \in Maybe(Generations)
  /\ content \in [Generations -> File]
  /\ crashes \in Nat
  /\ reader \in [Readers -> ReaderRecord]
  /\ \A q \in Readers : reader[q].step \notin {"open", "refused"} => reader[q].file # None
  /\ pc \in {"write_id", "write_key", "rename"} => draft \in temps /\ draft # linked

\* What a reader prints is the metadata of one process, never a mix of two that
\* its two checks of the descriptor did not tell apart.
PrintedIsOneKey ==
  \A q \in Readers : reader[q].step = "printed" =>
    /\ reader[q].seen.keyID = reader[q].seen.publicKey
    /\ reader[q].seen.keyID = reader[q].file

\* A process that answers ready has published its own key, whole, and no older
\* process can take the path back from it.
ReadyIsPublished ==
  ready => /\ linked # None
           /\ content[linked].keyID = generation /\ content[linked].publicKey = generation

\* A reader started while a process was ready prints that process's key, even
\* when that process has been replaced before the reader is done.
PrintedIsFresh ==
  \A q \in Readers : reader[q].step = "printed" /\ reader[q].readyFor # None =>
    reader[q].seen.publicKey = reader[q].readyFor

\* Only a process killed while it publishes leaves a temporary file behind: the
\* tmpfs does not fill up by failed starts.
LeftoversAreCrashes ==
  Cardinality(IF pc = "down" THEN temps ELSE temps \ {generation}) <= crashes
==============================================================================
