------------------------- MODULE RuntimePublishProofs -------------------------
(***************************************************************************)
(* Proofs about RuntimePublish.  The argument: a file is only written while *)
(* it has its temporary name and nobody has opened it, so a file that the  *)
(* path names, or that a reader has opened, is Finished and stays so.      *)
(***************************************************************************)
EXTENDS RuntimePublish, FiniteSetTheorems, TLAPS

\* File f holds the whole metadata of the process that made it.
Finished(f) == content[f] = [keyID |-> f, publicKey |-> f, writes |-> 2]

\* What the running process has written of its own file.
DraftFollowsPc ==
  /\ pc \in {"write_id", "write_key", "rename"} => draft = generation /\ generation \in temps
  /\ pc \in {"create", "write_id"} => content[generation] = Blank
  /\ pc = "write_key" =>
       content[generation] = [keyID |-> generation, publicKey |-> None, writes |-> 1]
  /\ pc = "rename" => Finished(generation)
  /\ pc # "down" => generation \in Generations

\* Files of processes to come do not exist.
FutureIsBlank == \A f \in Generations : f > generation => content[f] = Blank

LinkedIsFinished ==
  /\ linked # None => Finished(linked)
  /\ pc \in {"sync_dir", "tls", "run", "stop"} => linked = generation
  /\ ready => pc \in {"run", "stop"}

\* What a reader has opened is finished, and what it has seen is what it opened.
Faithful(r) ==
  /\ r.step \notin {"open", "refused"} => r.file # None
  /\ r.file # None => Finished(r.file)
  /\ r.step \in {"read_key", "check", "printed"} => r.seen.keyID = r.file
  /\ r.step \in {"check", "printed"} => r.seen.publicKey = r.file
  /\ r.readyFor # None => r.readyFor = r.file

ReaderFollowsFile == \A q \in Readers : Faithful(reader[q])

IInv == TypeOK /\ DraftFollowsPc /\ FutureIsBlank /\ LinkedIsFinished /\ ReaderFollowsFile

\* Initially there is no file.
LEMMA InitIInv == Init => IInv
<1> SUFFICES ASSUME Init PROVE IInv
  OBVIOUS
<1>1. Blank \in File /\ Unopened \in ReaderRecord
  BY DEF Blank, File, Unopened, ReaderRecord, Maybe
<1>2. TypeOK
  <2>1. content \in [Generations -> File] /\ reader \in [Readers -> ReaderRecord]
    BY <1>1 DEF Init
  <2>2. \A q \in Readers : reader[q].step = "open"
    BY DEF Init, Unopened
  <2>3. generation \in 0..MaxGenerations /\ crashes \in Nat
    BY BoundsAssumption DEF Init
  <2>4. QED
    BY <2>1, <2>2, <2>3 DEF Init, TypeOK, Maybe
<1>3. ReaderFollowsFile
  BY DEF Init, ReaderFollowsFile, Faithful, Unopened
<1>4. QED
  BY <1>2, <1>3 DEF Init, IInv, DraftFollowsPc, FutureIsBlank, LinkedIsFinished

\* Steps of the process that write no file.
LEMMA ProcessKeepsIInv ==
  ASSUME IInv, \/ Start \/ CreateTemp \/ Rename \/ DirectorySynced \/ Failed \/ BecomeReady
               \/ Signalled \/ Exit \/ Crash
  PROVE  IInv'
<1> USE BoundsAssumption
    DEF IInv, TypeOK, DraftFollowsPc, FutureIsBlank, LinkedIsFinished, ReaderFollowsFile,
        Faithful, Finished, Maybe, Generations, Goto, process, files
<1>1. CASE Start
  BY <1>1 DEF Start
<1>2. CASE CreateTemp
  BY <1>2 DEF CreateTemp, Blank
<1>3. CASE Rename
  BY <1>3 DEF Rename
<1>4. CASE DirectorySynced
  BY <1>4 DEF DirectorySynced
<1>5. CASE Failed
  BY <1>5 DEF Failed
<1>6. CASE BecomeReady
  BY <1>6 DEF BecomeReady
<1>7. CASE Signalled
  BY <1>7 DEF Signalled
<1>8. CASE Exit
  BY <1>8 DEF Exit
<1>9. CASE Crash
  <2>1. crashes' \in Nat
    BY <1>9 DEF Crash
  <2>2. pc' = "down" /\ ready' = FALSE /\ UNCHANGED <<generation, draft, files, reader>>
    BY <1>9 DEF Crash
  <2>3. QED
    BY <2>1, <2>2
<1> HIDE DEF IInv
<1>10. QED
  BY <1>1, <1>2, <1>3, <1>4, <1>5, <1>6, <1>7, <1>8, <1>9

\* A write changes no finished file: the one it changes is still a draft.
LEMMA WriteKeepsIInv == ASSUME IInv, WriteKeyID \/ WritePublicKey PROVE IInv'
<1> DEFINE half == [keyID |-> generation, publicKey |-> None, writes |-> 1]
           whole == [keyID |-> generation, publicKey |-> generation, writes |-> 2]
<1>1. draft = generation /\ generation \in Generations /\ ~Finished(generation)
  BY BoundsAssumption
  DEF IInv, DraftFollowsPc, WriteKeyID, WritePublicKey, Goto, Finished, Blank
<1>2. UNCHANGED <<generation, ready, draft, temps, linked, crashes, reader>>
  BY DEF WriteKeyID, WritePublicKey, Write
<1>3. ASSUME WriteKeyID PROVE content' = [content EXCEPT ![generation] = half]
  <2>1. content[draft] = [keyID |-> None, publicKey |-> None, writes |-> 0]
    BY <1>1, <1>3 DEF WriteKeyID, Goto, IInv, DraftFollowsPc, Blank
  <2>2. QED
    BY <1>1, <1>3, <2>1 DEF WriteKeyID, Write
<1>4. ASSUME WritePublicKey PROVE content' = [content EXCEPT ![generation] = whole]
  <2>1. content[draft] = half
    BY <1>1, <1>4 DEF WritePublicKey, Goto, IInv, DraftFollowsPc
  <2>2. QED
    BY <1>1, <1>4, <2>1 DEF WritePublicKey, Write
<1>5. half \in File /\ whole \in File
  BY <1>1 DEF File, Maybe
<1>6. content \in [Generations -> File]
  BY DEF IInv, TypeOK
<1> HIDE DEF half, whole
<1>7. content' \in [Generations -> File]
  BY <1>1, <1>3, <1>4, <1>5, <1>6
<1>8. \A f \in Generations \ {generation} : content'[f] = content[f]
  BY <1>3, <1>4, <1>6
<1>9. \A f \in Generations : Finished(f) => Finished(f)'
  BY <1>1, <1>8 DEF Finished
<1>10. /\ \/ pc = "write_id" /\ pc' = "write_key"
          \/ pc = "write_key" /\ pc' = "rename"
       /\ ~ready
  BY DEF WriteKeyID, WritePublicKey, Goto, IInv, LinkedIsFinished
<1>11. TypeOK'
  <2>1. draft # linked /\ draft \in temps
    BY <1>10 DEF IInv, TypeOK
  <2>2. QED
    BY <1>2, <1>7, <1>10, <2>1 DEF IInv, TypeOK
<1>12. DraftFollowsPc'
  <2>1. CASE WriteKeyID
    <3>1. content'[generation] = half
      BY <1>1, <1>3, <1>6, <2>1
    <3>2. QED
      BY <1>1, <1>2, <2>1, <3>1 DEF WriteKeyID, Goto, IInv, DraftFollowsPc, half
  <2>2. CASE WritePublicKey
    <3>1. content'[generation] = whole
      BY <1>1, <1>4, <1>6, <2>2
    <3>2. Finished(generation)'
      BY <1>2, <3>1 DEF Finished, whole
    <3>3. QED
      BY <1>1, <1>2, <2>2, <3>2 DEF WritePublicKey, Goto, IInv, DraftFollowsPc
  <2>3. QED
    BY <2>1, <2>2
<1>13. FutureIsBlank'
  BY <1>1, <1>2, <1>8 DEF IInv, FutureIsBlank, Generations
<1>14. LinkedIsFinished'
  BY <1>2, <1>9, <1>10 DEF IInv, LinkedIsFinished, TypeOK, Maybe
<1>15. ReaderFollowsFile'
  BY <1>2, <1>9 DEF IInv, TypeOK, ReaderRecord, Maybe, ReaderFollowsFile, Faithful
<1>16. QED
  BY <1>11, <1>12, <1>13, <1>14, <1>15 DEF IInv

\* A reader reads finished files only.
LEMMA ReadKeepsIInv == ASSUME IInv, NEW q \in Readers, Read(q) PROVE IInv'
<1> USE BoundsAssumption
<1>1. ASSUME NEW from, NEW changes \in ReaderRecord, Advance(q, from, changes), Faithful(changes)
      PROVE  IInv'
  <2>1. UNCHANGED <<generation, pc, ready, draft, temps, linked, content, crashes>>
    BY <1>1 DEF Advance, process, files
  <2>2. reader' \in [Readers -> ReaderRecord]
    BY <1>1 DEF Advance, IInv, TypeOK
  <2>3. \A p \in Readers : Faithful(reader'[p])
    BY <1>1 DEF Advance, IInv, TypeOK, ReaderFollowsFile
  <2>4. \A p \in Readers : reader'[p].step \notin {"open", "refused"} => reader'[p].file # None
    BY <2>3 DEF Faithful
  <2>5. TypeOK'
    BY <2>1, <2>2, <2>4 DEF IInv, TypeOK
  <2>6. ReaderFollowsFile'
    BY <2>1, <2>3 DEF ReaderFollowsFile, Faithful, Finished
  <2>7. QED
    BY <2>1, <2>5, <2>6
    DEF IInv, DraftFollowsPc, FutureIsBlank, LinkedIsFinished, Finished
<1>2. reader[q] \in ReaderRecord /\ Faithful(reader[q])
  BY DEF IInv, TypeOK, ReaderFollowsFile
<1>3. CASE Open(q)
  <2> DEFINE opened == [Unopened EXCEPT !.step = "stat", !.file = linked,
                                        !.readyFor = IF ready THEN generation ELSE None]
  <2>1. opened \in ReaderRecord
    BY <1>3 DEF Open, Unopened, Blank, ReaderRecord, File, Maybe, IInv, TypeOK, LinkedIsFinished,
                DraftFollowsPc
  <2>2. Faithful(opened)
    BY <1>3 DEF Open, Unopened, Faithful, IInv, LinkedIsFinished
  <2>3. QED
    BY <1>1, <1>3, <2>1, <2>2 DEF Open
<1>4. CASE StatBefore(q)
  <2>1. Opened(q).writes = 2
    BY <1>2, <1>4 DEF StatBefore, Advance, Opened, Faithful, Finished
  <2>2. [reader[q] EXCEPT !.step = "read_id", !.before = 2] \in ReaderRecord
    BY <1>2 DEF ReaderRecord
  <2>3. Faithful([reader[q] EXCEPT !.step = "read_id", !.before = 2])
    BY <1>2, <1>4 DEF ReaderRecord, Faithful, StatBefore, Advance
  <2>4. QED
    BY <1>1, <1>4, <2>1, <2>2, <2>3 DEF StatBefore
<1>5. CASE ReadKeyID(q)
  <2>1. Opened(q).keyID = reader[q].file
    BY <1>2, <1>5 DEF ReadKeyID, Advance, Opened, Faithful, Finished
  <2> DEFINE read == [reader[q] EXCEPT !.step = "read_key", !.seen.keyID = reader[q].file]
  <2>2. read \in ReaderRecord
    BY <1>2 DEF ReaderRecord, File
  <2>3. Faithful(read)
    BY <1>2, <1>5 DEF ReaderRecord, File, Faithful, ReadKeyID, Advance
  <2>4. QED
    BY <1>1, <1>5, <2>1, <2>2, <2>3 DEF ReadKeyID
<1>6. CASE ReadPublicKey(q)
  <2>1. Opened(q).publicKey = reader[q].file
    BY <1>2, <1>6 DEF ReadPublicKey, Advance, Opened, Faithful, Finished
  <2> DEFINE read == [reader[q] EXCEPT !.step = "check", !.seen.publicKey = reader[q].file]
  <2>2. read \in ReaderRecord
    BY <1>2 DEF ReaderRecord, File
  <2>3. Faithful(read)
    BY <1>2, <1>6 DEF ReaderRecord, File, Faithful, ReadPublicKey, Advance
  <2>4. QED
    BY <1>1, <1>6, <2>1, <2>2, <2>3 DEF ReadPublicKey
<1>7. CASE Accept(q)
  <2>1. Faithful([reader[q] EXCEPT !.step = "printed"])
    BY <1>2, <1>7 DEF Accept, Advance, ReaderRecord, Faithful
  <2>2. [reader[q] EXCEPT !.step = "printed"] \in ReaderRecord
    BY <1>2 DEF ReaderRecord
  <2>3. QED
    BY <1>1, <1>7, <2>1, <2>2 DEF Accept
<1>8. CASE Refuse(q)
  <2>1. Faithful([reader[q] EXCEPT !.step = "refused"])
    BY <1>2 DEF ReaderRecord, Faithful
  <2>2. [reader[q] EXCEPT !.step = "refused"] \in ReaderRecord
    BY <1>2 DEF ReaderRecord
  <2>3. QED
    BY <1>1, <1>8, <2>1, <2>2 DEF Refuse
<1>9. QED
  BY <1>3, <1>4, <1>5, <1>6, <1>7, <1>8 DEF Read

\* Every step keeps the invariant: of the publisher and of a reader.
LEMMA NextKeepsIInv == IInv /\ [Next]_vars => IInv'
<1> SUFFICES ASSUME IInv, [Next]_vars PROVE IInv'
  OBVIOUS
<1>1. CASE UNCHANGED vars
  BY <1>1 DEF IInv, TypeOK, DraftFollowsPc, FutureIsBlank, LinkedIsFinished, ReaderFollowsFile,
              Faithful, Finished, vars, process, files
<1>2. CASE Process
  BY <1>2, ProcessKeepsIInv, WriteKeepsIInv DEF Process
<1>3. ASSUME NEW q \in Readers, Read(q) PROVE IInv'
  BY <1>3, ReadKeepsIInv
<1>4. QED
  BY <1>1, <1>2, <1>3 DEF Next, Quiescent

\* The inductive invariant: what a path names or a reader holds is finished.
THEOREM Invariance == Spec => []IInv
  BY InitIInv, NextKeepsIInv, PTL DEF Spec

\* The publisher and its readers keep their types, for any number of both.
THEOREM TypeCorrect == Spec => []TypeOK
<1>1. IInv => TypeOK
  BY DEF IInv
<1>2. QED
  BY <1>1, Invariance, PTL

\* A reader prints the metadata of one process, never a mix of two.
THEOREM PrintsOneKey == Spec => []PrintedIsOneKey
<1>1. IInv => PrintedIsOneKey
  BY DEF IInv, ReaderFollowsFile, Faithful, PrintedIsOneKey
<1>2. QED
  BY <1>1, Invariance, PTL

\* A process is ready only after its own key is published, and while it lives
\* nothing replaces that.
THEOREM ReadyPublished == Spec => []ReadyIsPublished
<1>1. IInv => ReadyIsPublished
  BY BoundsAssumption
  DEF IInv, TypeOK, LinkedIsFinished, DraftFollowsPc, Finished, ReadyIsPublished, Maybe,
      Generations
<1>2. QED
  BY <1>1, Invariance, PTL

\* A reader started while a process was ready prints that process's key.
THEOREM PrintsFreshKey == Spec => []PrintedIsFresh
<1>1. IInv => PrintedIsFresh
  BY DEF IInv, ReaderFollowsFile, Faithful, PrintedIsFresh
<1>2. QED
  BY <1>1, Invariance, PTL

------------------------------------------------------------------------------
(* Leftovers *)

\* Temporary files that no running process will remove.
Leftovers == IF pc = "down" THEN temps ELSE temps \ {generation}

LInv ==
  /\ IsFiniteSet(temps)
  /\ pc \in {"sync_dir", "tls", "run", "stop"} => generation \notin temps
  /\ Cardinality(Leftovers) <= crashes

\* A process that ends by itself leaves nothing; one that is killed, at most its own.
LEMMA NextKeepsLInv == IInv /\ LInv /\ [Next]_vars => LInv'
<1> SUFFICES ASSUME IInv, LInv, [Next]_vars PROVE LInv'
  OBVIOUS
<1>1. crashes \in Nat /\ IsFiniteSet(Leftovers) /\ Cardinality(Leftovers) \in Nat
  BY FS_Subset, FS_CardinalityType DEF IInv, TypeOK, LInv, Leftovers
<1>2. ASSUME IsFiniteSet(temps'), Leftovers' \subseteq Leftovers, crashes' = crashes,
             pc' \in {"sync_dir", "tls", "run", "stop"} => generation' \notin temps'
      PROVE  LInv'
  <2>1. Cardinality(Leftovers') <= Cardinality(Leftovers)
    BY <1>1, <1>2, FS_Subset
  <2>2. Cardinality(Leftovers') \in Nat
    BY <1>1, <1>2, FS_Subset, FS_CardinalityType
  <2>3. QED
    BY <1>1, <1>2, <2>1, <2>2 DEF LInv, Leftovers
<1> USE DEF LInv, Leftovers, Goto
<1>3. CASE Start
  BY <1>2, <1>3 DEF Start, files
<1>4. CASE CreateTemp
  <2>1. IsFiniteSet(temps')
    BY <1>4, FS_AddElement DEF CreateTemp
  <2>2. QED
    BY <1>2, <1>4, <2>1 DEF CreateTemp
<1>5. CASE WriteKeyID \/ WritePublicKey
  BY <1>2, <1>5 DEF WriteKeyID, WritePublicKey, Write
<1>6. CASE Rename \/ Failed
  <2>1. IsFiniteSet(temps')
    BY <1>6, FS_Subset DEF Rename, Failed
  <2>2. QED
    BY <1>2, <1>6, <2>1 DEF Rename, Failed
<1>7. CASE DirectorySynced \/ BecomeReady \/ Signalled \/ Exit
  BY <1>2, <1>7 DEF DirectorySynced, BecomeReady, Signalled, Exit, files
<1>8. CASE Crash
  <2>1. Leftovers' = temps /\ crashes' = crashes + 1 /\ temps' = temps /\ pc' = "down"
    BY <1>8 DEF Crash, files
  <2>2. temps \subseteq Leftovers \cup {generation}
    OBVIOUS
  <2>3. /\ IsFiniteSet(Leftovers \cup {generation})
        /\ Cardinality(Leftovers \cup {generation}) <= Cardinality(Leftovers) + 1
    BY <1>1, FS_AddElement
  <2>4. Cardinality(temps) <= Cardinality(Leftovers) + 1
    BY <1>1, <2>2, <2>3, FS_Subset, FS_CardinalityType
  <2>5. QED
    BY <1>1, <2>1, <2>4, FS_CardinalityType
<1>9. ASSUME NEW q \in Readers, Read(q) PROVE LInv'
  <2>1. UNCHANGED <<generation, pc, temps, crashes>>
    BY <1>9 DEF Read, Open, StatBefore, ReadKeyID, ReadPublicKey, Accept, Refuse, Advance,
       process, files
  <2>2. QED
    BY <2>1
<1>10. CASE UNCHANGED vars
  BY <1>10 DEF vars, process, files
<1>11. QED
  BY <1>3, <1>4, <1>5, <1>6, <1>7, <1>8, <1>9, <1>10 DEF Next, Process, Quiescent

\* However many starts fail, each process killed leaves at most one temporary file.
THEOREM LeftoversCounted == Spec => []LeftoversAreCrashes
<1>1. Init => LInv
  <2>1. IsFiniteSet({}) /\ Cardinality({}) = 0
    BY FS_EmptySet
  <2>2. QED
    BY <2>1 DEF Init, LInv, Leftovers
<1>2. LInv => LeftoversAreCrashes
  BY DEF LInv, Leftovers, LeftoversAreCrashes
<1>3. QED
  BY <1>1, <1>2, NextKeepsLInv, Invariance, PTL DEF Spec
===============================================================================
