---------------------------- MODULE UserDataProofs ----------------------------
(***************************************************************************)
(* The local user's files, statistics and achievements, for any number of  *)
(* them and any number of moves, whatever the other components do; and the *)
(* types of the whole.                                                     *)
(***************************************************************************)
EXTENDS UserServicesProofs, FiniteSetTheorems, SequenceTheorems

OpType == {None} \cup StatsOp \cup PresenceOp \cup FilesOp

-----------------------------------------------------------------------------
(* User files.                                                             *)

\* Reads back as c, but for contents that look packed and are not.
Fits(s, c) == Decompress(s) \in {c} \cup (IF c = "marked" THEN {Unreadable} ELSE {})

Agrees(f) ==
  /\ (cloud[f] = Absent) <=> (contents[f] = Absent)
  /\ enumerated # None => (f \in enumerated <=> cloud[f] # Absent)
  /\ cloud[f] # Absent => Fits(cloud[f], contents[f])

\* Every file is as the game was told, but for the one whose write it is yet to be told of.
FilesAgree == \A f \in File \ unsure : Agrees(f) \/ (At("written") /\ op.file = f)

\* Of the writes that Steam has still to perform only the last is one somebody waits for.
OthersAreUnsure ==
  \A i \in 1..Len(writes) : writes[i].file \notin unsure =>
    At("writing") /\ i = Len(writes) /\ op.file = writes[i].file

\* What is written, and was, is what the operation that waits for it was asked to write.
WriteIsLast ==
  /\ At("writing") =>
       /\ writes # <<>> /\ writes[Len(writes)].file = op.file
       /\ op.sure => op.contents \in Content /\ Fits(writes[Len(writes)].stored, op.contents)
  /\ (At("written") \/ At("refused")) => writes = <<>>
  /\ At("written") /\ op.sure =>
       op.contents \in Content /\ cloud[op.file] # Absent /\ Fits(cloud[op.file], op.contents)

\* A copy knows what its source holds.
CopyIsCurrent ==
  At("reading") /\ Runs("CopyFile") =>
    op.contents = contents[op.from] /\ (op.sure <=> op.from \notin unsure)

FilesInv == FilesTypeOK /\ FilesAgree /\ OthersAreUnsure /\ WriteIsLast /\ CopyIsCurrent

\* An operation that writes.
Writing(o) ==
  /\ o \in FilesOp /\ o # None /\ o.do \in {"WriteFile", "CopyFile"}
  /\ o.file \in File /\ o.contents \in Content \cup {Absent} /\ o.sure \in BOOLEAN

LEMMA FilesOpIsSome == None \notin FilesOp
BY ServicesAssumption

\* The steps of a file operation are those of no other.
LEMMA StepsOfFiles ==
  ASSUME op \in OpType
  PROVE  /\ At("reading") => op \in FilesOp
         /\ At("writing") \/ At("written") \/ At("refused") => Writing(op)
         /\ At("reading") /\ Runs("CopyFile") => Writing(op) /\ op.from \in File
<1>1. At("reading") \/ At("writing") \/ At("written") \/ At("refused") => op \in FilesOp
  BY DEF At, OpType, StatsOp, PresenceOp
<1>2. op \in FilesOp => op # None BY FilesOpIsSome
<1>3. ASSUME op \in FilesOp, At("writing") \/ At("written") \/ At("refused")
      PROVE  op.do \in {"WriteFile", "CopyFile"}
  BY <1>3 DEF At, FilesOp
<1>4. ASSUME op \in FilesOp, op.do \in {"WriteFile", "CopyFile"}
      PROVE  op.file \in File /\ op.contents \in Content \cup {Absent} /\ op.sure \in BOOLEAN
  BY <1>4 DEF FilesOp
<1>5. ASSUME op \in FilesOp, op.do = "CopyFile" PROVE op.from \in File
  BY <1>5 DEF FilesOp
<1> QED BY <1>1, <1>2, <1>3, <1>4, <1>5 DEF Writing, Runs

\* The next step of an operation that writes leaves what it carries.
LEMMA WritingGoesOn ==
  ASSUME Writing(op), NEW s \in {"writing", "written", "refused"}, Goes(s)
  PROVE  /\ Writing(op') /\ op'.step = s
         /\ op'.do = op.do /\ op'.file = op.file /\ op'.contents = op.contents /\ op'.sure = op.sure
<1>1. op' = [op EXCEPT !.step = s] BY DEF Goes
<1>2. CASE op.do = "WriteFile"
  <2>1. op \in [do : {"WriteFile"}, step : {"writing", "written", "refused"}, file : File,
                contents : Content, sure : {TRUE}]
    BY <1>2 DEF Writing, FilesOp
  <2>2. /\ op' \in [do : {"WriteFile"}, step : {"writing", "written", "refused"}, file : File,
                    contents : Content, sure : {TRUE}]
        /\ op'.step = s /\ op'.do = op.do /\ op'.file = op.file
        /\ op'.contents = op.contents /\ op'.sure = op.sure
    BY <1>1, <2>1
  <2>3. op' \in FilesOp BY <2>2 DEF FilesOp
  <2> QED BY <2>2, <2>3, FilesOpIsSome DEF Writing
<1>3. CASE op.do = "CopyFile"
  <2>1. op \in [do : {"CopyFile"}, step : {"reading", "writing", "written", "refused"}, from : File,
                file : File, contents : Content \cup {Absent}, sure : BOOLEAN]
    BY <1>3 DEF Writing, FilesOp
  <2>2. /\ op' \in [do : {"CopyFile"}, step : {"reading", "writing", "written", "refused"}, from : File,
                    file : File, contents : Content \cup {Absent}, sure : BOOLEAN]
        /\ op'.step = s /\ op'.do = op.do /\ op'.file = op.file
        /\ op'.contents = op.contents /\ op'.sure = op.sure
    BY <1>1, <2>1
  <2>3. op' \in FilesOp BY <2>2 DEF FilesOp
  <2> QED BY <2>2, <2>3, FilesOpIsSome DEF Writing
<1> QED BY <1>2, <1>3 DEF Writing

\* Whatever is stored is something that may be stored, and reads back.
LEMMA StoredReadsBack ==
  ASSUME NEW c \in Content
  PROVE  /\ Compress(c) \in StoredFile /\ Fits(Compress(c), c)
         /\ Stored(c, FALSE) \in StoredFile /\ Fits(Stored(c, FALSE), c)
<1>1. Compress(c) \in StoredFile /\ Stored(c, FALSE) \in StoredFile
  BY DEF Compress, Shrinks, Stored, StoredFile, Content
<1>2. Fits(Stored(c, FALSE), c) BY DEF Fits, Decompress, IsCompressed, Stored, Content
<1>3. Fits(Compress(c), c) BY DEF Fits, Decompress, IsCompressed, Compress, Shrinks, Stored, Content
<1> QED BY <1>1, <1>2, <1>3

LEMMA FilesInvInit == FilesInit /\ op = None => FilesInv
<1> SUFFICES ASSUME FilesInit, op = None PROVE FilesInv
  OBVIOUS
<1>1. /\ \A f \in File : cloud[f] \in {Absent, Compress("long"), Stored("plain", FALSE)}
      /\ cloud \in [File -> {Absent, Compress("long"), Stored("plain", FALSE)}]
  BY DEF FilesInit
<1>2. /\ Compress("long") \in StoredFile /\ Fits(Compress("long"), "long")
      /\ Stored("plain", FALSE) \in StoredFile /\ Fits(Stored("plain", FALSE), "plain")
      /\ Compress("long").of = "long" /\ Stored("plain", FALSE).of = "plain"
  BY StoredReadsBack DEF Content, Compress, Stored
<1>3. contents = [f \in File |-> IF cloud[f] = Absent THEN Absent ELSE cloud[f].of]
      /\ writes = <<>> /\ enumerated = None /\ unsure = {}
      /\ bCompressBeforeUpload \in BOOLEAN /\ cloudEnabled \in BOOLEAN
  BY DEF FilesInit
<1>4. \A f \in File : contents[f] \in Content \cup {Absent}
  BY <1>1, <1>2, <1>3 DEF Content
<1>5. FilesTypeOK
  <2>1. contents \in [File -> Content \cup {Absent}] BY <1>3, <1>4
  <2>2. cloud \in [File -> StoredFile \cup {Absent}] BY <1>1, <1>2
  <2>3. writes \in Seq([file : File, stored : StoredFile]) BY <1>3
  <2> QED BY <1>3, <2>1, <2>2, <2>3 DEF FilesTypeOK
<1>6. \A f \in File : Agrees(f)
  <2> SUFFICES ASSUME NEW f \in File PROVE Agrees(f)
    OBVIOUS
  <2>1. CASE cloud[f] = Absent BY <1>3, <2>1 DEF Agrees
  <2>2. CASE cloud[f] # Absent
    <3>1. contents[f] = cloud[f].of BY <1>3, <2>2
    <3>2. contents[f] \in Content /\ contents[f] # Absent
      BY <1>1, <1>2, <2>2, <3>1, FilesAssumption DEF Content
    <3>3. Fits(cloud[f], contents[f]) BY <1>1, <1>2, <2>2, <3>1
    <3> QED BY <1>3, <2>2, <3>2, <3>3 DEF Agrees
  <2> QED BY <2>1, <2>2
<1> QED BY <1>3, <1>5, <1>6 DEF FilesInv, FilesAgree, OthersAreUnsure, WriteIsLast, CopyIsCurrent, At

\* No operation waits: every file is as the game was told, but for those it cannot be sure of.
LEMMA FreeFiles ==
  ASSUME FilesInv, ~At("writing"), ~At("written")
  PROVE  /\ \A f \in File \ unsure : Agrees(f)
         /\ \A i \in 1..Len(writes) : writes[i].file \in unsure
BY DEF FilesInv, FilesAgree, OthersAreUnsure

\* Steps that leave what is stored, and what waits to be, alone.
LEMMA FilesAsBefore ==
  ASSUME FilesInv, ~At("writing"), ~At("written"), UNCHANGED <<cloud, writes, contents, unsure>>,
         enumerated' = enumerated \/ enumerated' = None \/ enumerated' = {f \in File : cloud[f] # Absent},
         bCompressBeforeUpload' \in BOOLEAN, cloudEnabled' \in BOOLEAN,
         ~At("writing")', ~At("written")', ~At("refused")',
         (At("reading") /\ Runs("CopyFile"))' =>
            op'.contents = contents[op'.from] /\ (op'.sure <=> op'.from \notin unsure)
  PROVE  FilesInv'
<1>1. FilesTypeOK' BY DEF FilesInv, FilesTypeOK
<1>2. \A f \in File \ unsure : Agrees(f)' BY FreeFiles DEF Agrees
<1>3. \A i \in 1..Len(writes) : writes[i].file \in unsure BY FreeFiles
<1> QED BY <1>1, <1>2, <1>3 DEF FilesInv, FilesAgree, OthersAreUnsure, WriteIsLast, CopyIsCurrent

LEMMA WriteFileKeeps ==
  ASSUME FilesInv, NEW f \in File, NEW c \in Content, WriteFile(f, c)
  PROVE  FilesInv' /\ op' \in FilesOp
<1> DEFINE s == IF bCompressBeforeUpload THEN Compress(c) ELSE Stored(c, FALSE)
           r == [do |-> "WriteFile", step |-> "writing", file |-> f, contents |-> c, sure |-> TRUE]
<1>1. s \in StoredFile /\ Fits(s, c) BY StoredReadsBack
<1>2. /\ op = None /\ op' = r /\ writes' = Append(writes, [file |-> f, stored |-> s])
      /\ UNCHANGED <<bCompressBeforeUpload, cloudEnabled, cloud, enumerated, contents, unsure>>
  BY DEF WriteFile, Begins, Free, WriteUserFile
<1>3. r \in FilesOp /\ r.step = "writing" /\ r.file = f /\ r.contents = c /\ r.sure = TRUE
      /\ r.do = "WriteFile"
  BY DEF FilesOp
<1>4. r # None BY <1>3, FilesOpIsSome
<1> HIDE DEF s, r
<1>5. writes \in Seq([file : File, stored : StoredFile]) BY DEF FilesInv, FilesTypeOK
<1>6. /\ writes' \in Seq([file : File, stored : StoredFile]) /\ Len(writes') = Len(writes) + 1
      /\ \A i \in 1..Len(writes) : writes'[i] = writes[i]
      /\ writes'[Len(writes')].file = f /\ writes'[Len(writes')].stored = s
  BY <1>1, <1>2, <1>5
<1>7. FilesTypeOK' BY <1>2, <1>6 DEF FilesInv, FilesTypeOK
<1>8. /\ \A g \in File \ unsure : Agrees(g)'
      /\ \A i \in 1..Len(writes) : writes[i].file \in unsure
  BY <1>2, FreeFiles DEF Agrees, At
<1>9. OthersAreUnsure'
  <2> SUFFICES ASSUME NEW i \in 1..Len(writes'), writes'[i].file \notin unsure
               PROVE  At("writing")' /\ i = Len(writes') /\ op'.file = writes'[i].file
    BY <1>2 DEF OthersAreUnsure
  <2>1. i = Len(writes') BY <1>5, <1>6, <1>8
  <2> QED BY <1>2, <1>3, <1>4, <1>6, <2>1 DEF At
<1>10. WriteIsLast'
  <2>1. writes' # <<>> BY <1>5, <1>6
  <2> QED BY <1>1, <1>2, <1>3, <1>6, <2>1 DEF WriteIsLast, At
<1> QED BY <1>2, <1>3, <1>7, <1>8, <1>9, <1>10 DEF FilesInv, FilesAgree, CopyIsCurrent, At

\* Operations that begin with a read.
LEMMA ReadingBegins ==
  ASSUME FilesInv,
         \/ \E f \in File : ReadFile(f)
         \/ \E source, target \in File : CopyFile(source, target)
  PROVE  FilesInv' /\ op' \in FilesOp
<1>1. op = None /\ UNCHANGED fileVars
  BY DEF ReadFile, CopyFile, Begins, Free
<1>2. CASE \E f \in File : ReadFile(f)
  <2>1. PICK f \in File : op' = [do |-> "ReadFile", step |-> "reading", from |-> f]
    BY <1>2 DEF ReadFile, Begins
  <2>2. op' \in FilesOp /\ op'.step = "reading" /\ op'.do = "ReadFile" BY <2>1 DEF FilesOp
  <2> QED BY <1>1, <2>2, FilesAsBefore DEF At, Runs, fileVars, FilesInv, FilesTypeOK
<1>3. ASSUME NEW source \in File, NEW target \in File, CopyFile(source, target)
      PROVE  FilesInv' /\ op' \in FilesOp
  <2>1. op' = [do |-> "CopyFile", step |-> "reading", from |-> source, file |-> target,
               contents |-> contents[source], sure |-> source \notin unsure]
    BY <1>3 DEF CopyFile, Begins
  <2>2. /\ op'.step = "reading" /\ op'.from = source /\ op'.contents = contents[source]
        /\ op'.sure <=> source \notin unsure
    BY <2>1
  <2>3. contents[source] \in Content \cup {Absent} BY DEF FilesInv, FilesTypeOK
  <2>4. op' \in FilesOp BY <2>1, <2>3 DEF FilesOp
  <2> QED BY <1>1, <2>2, <2>4, FilesAsBefore DEF At, fileVars, FilesInv, FilesTypeOK
<1> QED BY <1>2, <1>3

\* The copy that was read goes out as it is stored.
LEMMA SourceReadKeeps ==
  ASSUME FilesInv, op \in OpType, SourceRead
  PROVE  FilesInv' /\ op' \in FilesOp
<1>1. /\ Writing(op) /\ op.from \in File /\ cloud[op.from] # Absent
      /\ writes' = Append(writes, [file |-> op.file, stored |-> cloud[op.from]])
      /\ UNCHANGED <<bCompressBeforeUpload, cloudEnabled, cloud, enumerated, contents, unsure>>
      /\ At("reading") /\ Runs("CopyFile") /\ Goes("writing")
  BY StepsOfFiles DEF SourceRead, WriteUserFile
<1>2. /\ Writing(op') /\ op'.step = "writing" /\ op'.do = op.do
      /\ op'.file = op.file /\ op'.contents = op.contents /\ op'.sure = op.sure
  BY <1>1, WritingGoesOn
<1>3. ~At("writing") /\ ~At("written") BY <1>1 DEF At
<1>4. /\ writes \in Seq([file : File, stored : StoredFile]) /\ cloud[op.from] \in StoredFile
      /\ op.file \in File /\ contents[op.from] \in Content \cup {Absent}
  BY <1>1 DEF FilesInv, FilesTypeOK, Writing
<1>5. /\ writes' \in Seq([file : File, stored : StoredFile]) /\ Len(writes') = Len(writes) + 1
      /\ \A i \in 1..Len(writes) : writes'[i] = writes[i]
      /\ writes'[Len(writes')].file = op.file /\ writes'[Len(writes')].stored = cloud[op.from]
  BY <1>1, <1>4
<1>6. FilesTypeOK' BY <1>1, <1>5 DEF FilesInv, FilesTypeOK
<1>7. /\ \A g \in File \ unsure : Agrees(g)'
      /\ \A i \in 1..Len(writes) : writes[i].file \in unsure
  BY <1>1, <1>3, FreeFiles DEF Agrees
<1>8. OthersAreUnsure'
  <2> SUFFICES ASSUME NEW i \in 1..Len(writes'), writes'[i].file \notin unsure
               PROVE  At("writing")' /\ i = Len(writes') /\ op'.file = writes'[i].file
    BY <1>1 DEF OthersAreUnsure
  <2>1. i = Len(writes') BY <1>4, <1>5, <1>7
  <2> QED BY <1>2, <1>5, <2>1 DEF At, Writing
<1>9. op.sure => op.contents \in Content /\ Fits(cloud[op.from], op.contents)
  <2> SUFFICES ASSUME op.sure PROVE op.contents \in Content /\ Fits(cloud[op.from], op.contents)
    OBVIOUS
  <2>1. op.from \notin unsure /\ op.contents = contents[op.from]
    BY <1>1 DEF FilesInv, CopyIsCurrent
  <2>2. Agrees(op.from) BY <1>1, <1>3, <2>1, FreeFiles
  <2> QED BY <1>1, <1>4, <2>1, <2>2 DEF Agrees
<1>10. WriteIsLast'
  <2>1. writes' # <<>> BY <1>4, <1>5
  <2> QED BY <1>2, <1>5, <1>9, <2>1 DEF WriteIsLast, At
<1> QED BY <1>1, <1>2, <1>6, <1>7, <1>8, <1>10 DEF FilesInv, FilesAgree, CopyIsCurrent, At, Writing

\* The operation is told that its file was written: the game now knows.
LEMMA FileWrittenKeeps ==
  ASSUME FilesInv, op \in OpType, FileWritten
  PROVE  FilesInv'
<1>1. /\ Writing(op) /\ op' = None /\ At("written") /\ writes = <<>> /\ op.file \in File
      /\ enumerated' = IF enumerated = None THEN None ELSE enumerated \cup {op.file}
      /\ contents' = [contents EXCEPT ![op.file] = op.contents]
      /\ unsure' = IF op.sure THEN unsure \ {op.file} ELSE unsure \cup {op.file}
      /\ UNCHANGED <<bCompressBeforeUpload, cloudEnabled, cloud, writes>>
  BY StepsOfFiles DEF FileWritten, Ends, AddUnique, FilesInv, WriteIsLast, Writing
<1>2. FilesTypeOK' BY <1>1 DEF FilesInv, FilesTypeOK, Writing
<1>3. ASSUME NEW f \in File \ unsure' PROVE Agrees(f)'
  <2>1. CASE f = op.file
    <3>1. op.sure BY <1>1, <1>3, <2>1
    <3>2. op.contents \in Content /\ cloud[f] # Absent /\ Fits(cloud[f], op.contents)
      BY <1>1, <2>1, <3>1 DEF FilesInv, WriteIsLast
    <3>3. contents'[f] = op.contents /\ contents'[f] # Absent
      BY <1>1, <2>1, <3>2, FilesAssumption DEF FilesInv, FilesTypeOK
    <3> QED BY <1>1, <2>1, <3>2, <3>3 DEF Agrees
  <2>2. CASE f # op.file
    <3>1. Agrees(f) BY <1>1, <1>3, <2>2 DEF FilesInv, FilesAgree
    <3>2. contents'[f] = contents[f] BY <1>1, <2>2
    <3> QED BY <1>1, <2>2, <3>1, <3>2 DEF Agrees
  <2> QED BY <2>1, <2>2
<1>4. Len(writes') = 0 BY <1>1
<1> QED BY <1>1, <1>2, <1>3, <1>4 DEF FilesInv, FilesAgree, OthersAreUnsure, WriteIsLast, CopyIsCurrent, At

\* A file is deleted at once, here and at Steam.
LEMMA DeleteFileKeeps ==
  ASSUME FilesInv, NEW g \in File, DeleteFile(g)
  PROVE  FilesInv'
<1>1. /\ op = None /\ op' = None
      /\ cloud' = [cloud EXCEPT ![g] = Absent]
      /\ enumerated' = IF enumerated = None THEN None ELSE enumerated \ {g}
      /\ contents' = [contents EXCEPT ![g] = Absent]
      /\ UNCHANGED <<bCompressBeforeUpload, cloudEnabled, writes, unsure>>
  BY DEF DeleteFile, AtOnce, Free, Outside
<1>2. FilesTypeOK' BY <1>1 DEF FilesInv, FilesTypeOK
<1>3. /\ \A f \in File \ unsure : Agrees(f)
      /\ \A i \in 1..Len(writes) : writes[i].file \in unsure
  BY <1>1, FreeFiles DEF At
<1>4. ASSUME NEW f \in File \ unsure PROVE Agrees(f)'
  <2>1. cloud'[f] = (IF f = g THEN Absent ELSE cloud[f]) /\ contents'[f] = IF f = g THEN Absent ELSE contents[f]
    BY <1>1 DEF FilesInv, FilesTypeOK
  <2> QED BY <1>1, <1>3, <2>1 DEF Agrees
<1> QED BY <1>1, <1>2, <1>3, <1>4 DEF FilesInv, FilesAgree, OthersAreUnsure, WriteIsLast, CopyIsCurrent, At

\* An operation ends, and whatever it was writing the game cannot be sure of.
LEMMA GivenUpKeeps ==
  ASSUME FilesInv, op \in OpType, op' = None, unsure' = unsure \cup GivenUpOn,
         UNCHANGED <<cloud, writes, contents>>,
         bCompressBeforeUpload' \in BOOLEAN, cloudEnabled' \in BOOLEAN,
         enumerated' \in {enumerated, None}
  PROVE  FilesInv'
<1>1. GivenUpOn \subseteq File /\ unsure' \subseteq File
  BY StepsOfFiles DEF GivenUpOn, Writing, FilesInv, FilesTypeOK
<1>2. FilesTypeOK' BY <1>1 DEF FilesInv, FilesTypeOK
<1>3. \A f \in File \ unsure' : Agrees(f)
  BY DEF FilesInv, FilesAgree, GivenUpOn
<1>4. \A f \in File \ unsure' : Agrees(f)' BY <1>3 DEF Agrees
<1>5. \A i \in 1..Len(writes) : writes[i].file \in unsure'
  BY DEF FilesInv, OthersAreUnsure, GivenUpOn
<1> QED BY <1>2, <1>4, <1>5 DEF FilesInv, FilesAgree, OthersAreUnsure, WriteIsLast, CopyIsCurrent, At

LEMMA CallEndsKeeps ==
  ASSUME FilesInv, op \in OpType, FileCallEnds \/ WriteTimesOut
  PROVE  FilesInv' /\ op' = None
<1>1. CASE FileCallEnds
  <2>1. GivenUpOn = {} /\ op' = None BY <1>1 DEF FileCallEnds, GivenUpOn, At, Ends
  <2> QED BY <1>1, <2>1, GivenUpKeeps DEF FileCallEnds, fileVars, FilesInv, FilesTypeOK
<1>2. CASE WriteTimesOut
  BY <1>2, GivenUpKeeps DEF WriteTimesOut, Ends, FilesInv, FilesTypeOK
<1> QED BY <1>1, <1>2

\* Steam comes to the next of the writes, performs it or refuses it.
LEMMA SteamAnswersKeeps ==
  ASSUME FilesInv, op \in OpType, SteamWrites \/ SteamRefuses
  PROVE  FilesInv' /\ op' \in OpType
<1> DEFINE w == Head(writes)
<1>1. /\ writes \in Seq([file : File, stored : StoredFile]) /\ writes # <<>> /\ writes' = Tail(writes)
      /\ UNCHANGED <<bCompressBeforeUpload, cloudEnabled, enumerated, contents, unsure>>
      /\ cloud \in [File -> StoredFile \cup {Absent}]
  BY DEF SteamWrites, SteamRefuses, FilesInv, FilesTypeOK
<1>2. /\ w \in [file : File, stored : StoredFile] /\ w = writes[1] /\ 1 \in 1..Len(writes)
      /\ writes' \in Seq([file : File, stored : StoredFile]) /\ Len(writes') = Len(writes) - 1
      /\ \A i \in 1..Len(writes') : writes'[i] = writes[i + 1] /\ i + 1 \in 1..Len(writes)
  <2>1. w = writes[1] /\ Len(writes) \in Nat /\ Len(writes) # 0 BY <1>1
  <2>2. 1 \in 1..Len(writes) BY <2>1
  <2>3. writes[1] \in [file : File, stored : StoredFile] BY <1>1, <2>2, ElementOfSeq, Zenon
  <2>4. /\ writes' \in Seq([file : File, stored : StoredFile]) /\ Len(writes') = Len(writes) - 1
        /\ \A i \in 1..Len(writes') : writes'[i] = writes[i + 1]
    BY <1>1
  <2> QED BY <2>1, <2>2, <2>3, <2>4
<1>3. w.file \in File /\ w.stored \in StoredFile /\ w.stored # Absent
  BY <1>2, FilesAssumption
<1> HIDE DEF w
<1>4. cloud' = cloud \/ cloud' = [cloud EXCEPT ![w.file] = w.stored]
  BY DEF SteamWrites, SteamRefuses, w
<1>5. FilesTypeOK' BY <1>1, <1>2, <1>3, <1>4 DEF FilesInv, FilesTypeOK
<1>6. CASE IsAwaited
  <2>1. Writing(op) /\ At("writing") /\ Len(writes) = 1 /\ op.file = w.file /\ Len(writes') = 0 /\ writes' = <<>>
    BY <1>2, <1>6, StepsOfFiles DEF IsAwaited, FilesInv, WriteIsLast
  <2>2. CASE SteamWrites
    <3>1. Goes("written") /\ cloud' = [cloud EXCEPT ![w.file] = w.stored]
      BY <1>6, <2>2 DEF SteamWrites, SteamAnswers, w
    <3>2. /\ Writing(op') /\ op'.step = "written" /\ op'.do = op.do
          /\ op'.file = op.file /\ op'.contents = op.contents /\ op'.sure = op.sure
      BY <2>1, <3>1, WritingGoesOn
    <3>3. cloud'[op.file] = w.stored /\ \A f \in File : f # op.file => cloud'[f] = cloud[f]
      BY <1>1, <1>3, <2>1, <3>1
    <3>4. \A f \in File \ unsure : f # op.file => Agrees(f)'
      BY <1>1, <2>1, <3>3 DEF FilesInv, FilesAgree, Agrees, At
    <3>5. At("written")' BY <3>2 DEF At, Writing
    <3>6. FilesAgree' BY <1>1, <3>2, <3>4, <3>5 DEF FilesAgree
    <3>7. WriteIsLast'
      <4>1. op.sure => op.contents \in Content /\ Fits(w.stored, op.contents)
        BY <1>2, <2>1 DEF FilesInv, WriteIsLast
      <4> QED BY <1>3, <2>1, <3>2, <3>3, <4>1 DEF WriteIsLast, At
    <3> QED BY <1>5, <2>1, <3>2, <3>6, <3>7 DEF FilesInv, OthersAreUnsure, CopyIsCurrent, At, Writing, OpType
  <2>3. CASE SteamRefuses
    <3>1. Goes("refused") /\ cloud' = cloud
      BY <1>6, <2>3 DEF SteamRefuses, SteamAnswers
    <3>2. /\ Writing(op') /\ op'.step = "refused" /\ op'.do = op.do
          /\ op'.file = op.file /\ op'.contents = op.contents /\ op'.sure = op.sure
      BY <2>1, <3>1, WritingGoesOn
    <3>3. \A f \in File \ unsure : Agrees(f)'
      BY <1>1, <2>1, <3>1 DEF FilesInv, FilesAgree, Agrees, At
    <3>4. /\ At("refused")' /\ ~At("writing")' /\ ~At("written")' /\ ~At("reading")'
          /\ op' \in OpType
      BY <3>2 DEF At, Writing, OpType
    <3>5. FilesAgree' BY <1>1, <3>3 DEF FilesAgree
    <3>6. OthersAreUnsure' BY <2>1 DEF OthersAreUnsure
    <3>7. WriteIsLast' BY <2>1, <3>4 DEF WriteIsLast
    <3>8. CopyIsCurrent' BY <3>4 DEF CopyIsCurrent
    <3> QED BY <1>5, <3>4, <3>5, <3>6, <3>7, <3>8 DEF FilesInv
  <2> QED BY <2>2, <2>3
<1>7. CASE ~IsAwaited
  <2>1. op' = op BY <1>7 DEF SteamWrites, SteamRefuses, SteamAnswers, Beside, queue
  <2>2. ~At("written") /\ ~At("refused") BY <1>1 DEF FilesInv, WriteIsLast
  <2>3. w.file \in unsure
    BY <1>2, <1>7 DEF FilesInv, OthersAreUnsure, IsAwaited
  <2>4. \A f \in File \ unsure : cloud'[f] = cloud[f]
    BY <1>1, <1>3, <1>4, <2>3
  <2>5. \A f \in File \ unsure : Agrees(f)'
    BY <1>1, <2>2, <2>4 DEF FilesInv, FilesAgree, Agrees
  <2>6. OthersAreUnsure'
    <3> SUFFICES ASSUME NEW i \in 1..Len(writes'), writes'[i].file \notin unsure
                 PROVE  At("writing") /\ i = Len(writes') /\ op.file = writes'[i].file
      BY <1>1, <2>1 DEF OthersAreUnsure, At
    <3>1. i + 1 \in 1..Len(writes) /\ writes'[i] = writes[i + 1] /\ Len(writes') = Len(writes) - 1
      BY <1>2
    <3>2. At("writing") /\ i + 1 = Len(writes) /\ op.file = writes[i + 1].file
      BY <1>1, <3>1 DEF FilesInv, OthersAreUnsure
    <3> QED BY <3>1, <3>2
  <2>7. WriteIsLast'
    <3>1. At("writing") => Len(writes) # 1 BY <1>7 DEF IsAwaited
    <3>2. At("writing") => Len(writes') \in 1..Len(writes') /\ writes'[Len(writes')] = writes[Len(writes)]
      BY <1>1, <1>2, <3>1
    <3>3. At("writing") => writes' # <<>> BY <1>2, <3>2
    <3> QED BY <2>1, <2>2, <3>2, <3>3 DEF FilesInv, WriteIsLast, At
  <2> QED BY <1>1, <1>5, <2>1, <2>5, <2>6, <2>7 DEF FilesInv, FilesAgree, CopyIsCurrent, At, Runs
<1> QED BY <1>6, <1>7

LEMMA FilesStep ==
  ASSUME FilesInv, op \in OpType, FilesNext
  PROVE  FilesInv' /\ op' \in OpType
<1>1. CASE EnumerateFiles
  <2>1. op = None /\ op' = None BY <1>1 DEF EnumerateFiles, AtOnce, Free, Outside
  <2> QED BY <1>1, <2>1, FilesAsBefore DEF EnumerateFiles, At, OpType, FilesInv, FilesTypeOK
<1>2. CASE \E f \in File : DeleteFile(f)
  <2>1. op' = None BY <1>2 DEF DeleteFile, AtOnce, Free, Outside
  <2> QED BY <1>2, <2>1, DeleteFileKeeps DEF OpType
<1>3. CASE FileWritten
  BY <1>3, FileWrittenKeeps DEF FileWritten, Ends, OpType
<1>4. CASE CloudIsSwitched
  <2>1. op' = op BY <1>4 DEF CloudIsSwitched, Outside
  <2>2. FilesTypeOK' BY <1>4 DEF CloudIsSwitched, FilesInv, FilesTypeOK
  <2> QED BY <1>4, <2>1, <2>2
          DEF CloudIsSwitched, FilesInv, FilesAgree, Agrees, OthersAreUnsure, WriteIsLast, CopyIsCurrent, At, Runs
<1>5. CASE \E f \in File, c \in Content : WriteFile(f, c)
  BY <1>5, WriteFileKeeps DEF OpType
<1>6. CASE \/ \E f \in File : ReadFile(f)
           \/ \E source, target \in File : CopyFile(source, target)
  BY <1>6, ReadingBegins DEF OpType
<1>7. CASE SourceRead BY <1>7, SourceReadKeeps DEF OpType
<1>8. CASE FileCallEnds \/ WriteTimesOut BY <1>8, CallEndsKeeps DEF OpType
<1>9. CASE SteamWrites \/ SteamRefuses BY <1>9, SteamAnswersKeeps
<1> QED BY <1>1, <1>2, <1>3, <1>4, <1>5, <1>6, <1>7, <1>8, <1>9 DEF FilesNext

\* A new instance gives up on what the last one was at.
LEMMA FilesForgottenKeeps ==
  ASSUME FilesInv, op \in OpType, FilesForgotten, op' = None PROVE FilesInv'
BY GivenUpKeeps DEF FilesForgotten, FilesInv, FilesTypeOK

\* Steps of the other components: the operation stays, or neither it nor the next is of files.
Others == {None} \cup StatsOp \cup PresenceOp

LEMMA OthersAreApart ==
  \A o \in Others : o = None \/ o.step \notin {"reading", "writing", "written", "refused"}
BY DEF Others, StatsOp, PresenceOp

LEMMA FilesStutter ==
  ASSUME FilesInv, UNCHANGED fileVars, op' = op \/ (op \in Others /\ op' \in Others)
  PROVE  FilesInv'
<1>1. FilesTypeOK' BY DEF fileVars, FilesInv, FilesTypeOK
<1>2. CASE op' = op
  BY <1>1, <1>2 DEF fileVars, FilesInv, FilesAgree, Agrees, OthersAreUnsure, WriteIsLast, CopyIsCurrent, At, Runs
<1>3. CASE op \in Others /\ op' \in Others
  <2>1. \A s \in {"reading", "writing", "written", "refused"} : ~At(s) /\ ~At(s)'
    BY <1>3, OthersAreApart DEF At
  <2>2. ~At("writing") /\ ~At("written") /\ ~At("writing")' /\ ~At("written")' /\ ~At("refused")'
        /\ ~At("reading")'
    BY <2>1
  <2> QED BY <2>2, FilesAsBefore DEF fileVars, FilesInv, FilesTypeOK
<1> QED BY <1>2, <1>3

-----------------------------------------------------------------------------
(* Statistics and achievements: the types.                                 *)

Message == [what : {"received", "stored", "unlocked", "progress"}, about : Achievement \cup {None}, ok : BOOLEAN]

\* An update whose numbers are still to be folded.
Owed == Runs("UpdateStats") /\ op.step # "storing"

\* A commit was paid for with a move, and so was an update that will ask for one.
CommitsAreMoves == commits <= moves /\ (Owed => commits < moves)

StatsTypes ==
  /\ StatsTypeOK /\ theirs \in [Stat -> 0..1]
  /\ op \in OpType /\ moves \in 0..MaxMoves /\ CommitsAreMoves
  /\ Owed => \A s \in DOMAIN op.with : op.with[s] \in 0..Top

LEMMA TopType == Top \in Nat /\ Top >= 1
BY StatsAssumption

LEMMA StatsOpIsSome == None \notin StatsOp
BY ServicesAssumption

\* Numbers for some of the statistics.
NumbersFor == UNION {[n -> 0..2 * Top] : n \in SUBSET Stat}

LEMMA NumbersForType ==
  \A w : w \in NumbersFor <=> DOMAIN w \in SUBSET Stat /\ w \in [DOMAIN w -> 0..2 * Top]
BY DEF NumbersFor

UpdateOps == [do : {"UpdateStats"}, step : {"asked", "told", "storing"}, with : NumbersFor]
QueryOps == [do : {"QueryStats"}, step : {"asked", "told"}, with : SUBSET Stat, of : Targets]
PlainOps == [do : {"QueryDefinitions", "QueryStates"}, step : {"asked", "told"}]
ResetOps == [do : {"ResetStats"}, step : {"storing"}]
UnlockOps == [do : {"Unlock"}, step : {"storing"}, with : SUBSET Achievement]

LEMMA StatsOpParts == StatsOp = UpdateOps \cup QueryOps \cup PlainOps \cup ResetOps \cup UnlockOps
BY DEF StatsOp, UpdateOps, QueryOps, PlainOps, ResetOps, UnlockOps, NumbersFor

\* Which operation it is says what it carries.
LEMMA OpsOfStats ==
  ASSUME op \in OpType
  PROVE  /\ Runs("UpdateStats") => op \in UpdateOps
         /\ Runs("QueryStats") => op \in QueryOps
         /\ Runs("QueryDefinitions") \/ Runs("QueryStates") => op \in PlainOps
         /\ Runs("ResetStats") => op \in ResetOps
         /\ Runs("Unlock") => op \in UnlockOps
         /\ At("told") \/ At("storing") \/ (op # None /\ op.do \in Unwrapped) => op \in StatsOp
<1>1. /\ \A o \in UpdateOps : o.do = "UpdateStats"
      /\ \A o \in QueryOps : o.do = "QueryStats"
      /\ \A o \in PlainOps : o.do \in {"QueryDefinitions", "QueryStates"}
      /\ \A o \in ResetOps : o.do = "ResetStats"
      /\ \A o \in UnlockOps : o.do = "Unlock"
  BY DEF UpdateOps, QueryOps, PlainOps, ResetOps, UnlockOps
<1>2. /\ \A o \in PresenceOp : o.do = "QueryPresence" /\ o.step = "asked"
      /\ \A o \in FilesOp : o.do \in {"ReadFile", "WriteFile", "CopyFile"}
                            /\ o.step \in {"reading", "writing", "written", "refused"}
  BY DEF PresenceOp, FilesOp
<1>3. op = None \/ op \in UpdateOps \/ op \in QueryOps \/ op \in PlainOps \/ op \in ResetOps
      \/ op \in UnlockOps \/ op \in PresenceOp \/ op \in FilesOp
  BY StatsOpParts DEF OpType
<1>4. op \in UpdateOps \cup QueryOps \cup PlainOps \cup ResetOps \cup UnlockOps => op \in StatsOp
  BY StatsOpParts
<1> QED BY <1>1, <1>2, <1>3, <1>4 DEF Runs, At, Unwrapped

\* What an update carries, by statistic.
LEMMA UpdateCarries ==
  ASSUME op \in UpdateOps
  PROVE  /\ DOMAIN op.with \subseteq Stat /\ \A s \in DOMAIN op.with : op.with[s] \in 0..2 * Top
         /\ op.do = "UpdateStats" /\ op.step \in {"asked", "told", "storing"}
<1>1. op.with \in NumbersFor BY DEF UpdateOps
<1> QED BY <1>1, NumbersForType DEF UpdateOps

LEMMA ToSteamType == \A v \in Nat : ToSteam(v) \in 0..Top
BY TopType DEF ToSteam

LEMMA ModifyType ==
  ASSUME NEW s \in Stat, NEW v \in 0..Top, NEW w \in 0..Top
  PROVE  ApplyModifyMethod(Method[s], v, w) \in 0..2 * Top
<1>1. Method[s] \in {"Set", "Sum", "Largest", "Smallest"} BY StatsAssumption
<1> QED BY <1>1, TopType DEF ApplyModifyMethod

\* Numbers are folded into those Steam holds, and clamped where they are written.
LEMMA FoldedType ==
  ASSUME StatsTypes, Owed, NEW names \in SUBSET DOMAIN op.with
  PROVE  /\ Folded(names) \in [names -> 0..2 * Top] /\ Folded(names) \in NumbersFor
         /\ WriteUserStats(names) => held' \in Numbers
<1>1. op \in UpdateOps /\ names \subseteq Stat
      /\ \A s \in names : op.with[s] \in 0..Top /\ held[s] \in 0..Top
  BY OpsOfStats, UpdateCarries DEF StatsTypes, StatsTypeOK, Numbers, Owed
<1>2. \A s \in names : Folded(names)[s] \in 0..2 * Top BY <1>1, ModifyType DEF Folded
<1>3. Folded(names) \in [names -> 0..2 * Top] BY <1>2 DEF Folded
<1>4. Folded(names) \in NumbersFor BY <1>1, <1>3, NumbersForType
<1>5. ASSUME WriteUserStats(names) PROVE held' \in Numbers
  <2>1. \A s \in Stat : (IF s \in names THEN ToSteam(Folded(names)[s]) ELSE held[s]) \in 0..Top
    <3>1. \A s \in names : Folded(names)[s] \in Nat BY <1>2, TopType
    <3> QED BY <3>1, ToSteamType DEF StatsTypes, StatsTypeOK, Numbers
  <2> QED BY <1>5, <2>1 DEF WriteUserStats, Numbers
<1> QED BY <1>3, <1>4, <1>5

\* What is read of a user, or was written, may be kept.
Kept == [Stat -> 0..2 * Top \cup {Unread}]

LEMMA CacheType ==
  ASSUME cached \in [StatUsers -> Kept], NEW u \in StatUsers, NEW stats,
         \A s \in DOMAIN stats : s \in Stat => stats[s] \in 0..2 * Top,
         CacheUserStats(u, stats)
  PROVE  /\ cached' \in [StatUsers -> Kept]
         /\ cached'[u] = [s \in Stat |-> IF s \in DOMAIN stats THEN stats[s] ELSE cached[u][s]]
         /\ \A v \in StatUsers : v # u => cached'[v] = cached[v]
<1> DEFINE new == [s \in Stat |-> IF s \in DOMAIN stats THEN stats[s] ELSE cached[u][s]]
<1>1. new \in Kept BY DEF Kept
<1>2. cached' = [cached EXCEPT ![u] = new] BY DEF CacheUserStats
<1> HIDE DEF new
<1>3. /\ cached' \in [StatUsers -> Kept] /\ cached'[u] = new
      /\ \A v \in StatUsers : v # u => cached'[v] = cached[v]
  BY <1>1, <1>2
<1> QED BY <1>3 DEF new

LEMMA ReadAgainType ==
  ASSUME cached \in [StatUsers -> Kept], NEW names \in SUBSET Stat, held' \in Numbers, ReadAgain(names)
  PROVE  /\ cached' \in [StatUsers -> Kept]
         /\ \A s \in Stat : cached'[Me][s] = IF s \in names THEN held'[s] ELSE cached[Me][s]
<1> DEFINE stats == ReadUserStats(held', Me, names)
<1>1. stats = [s \in names |-> held'[s]] BY DEF ReadUserStats
<1>2. \A s \in DOMAIN stats : s \in Stat => stats[s] \in 0..2 * Top BY <1>1, TopType DEF Numbers
<1>3. CacheUserStats(Me, stats) BY DEF ReadAgain
<1>4. Me \in StatUsers BY DEF StatUsers
<1> HIDE DEF stats
<1>5. /\ cached' \in [StatUsers -> Kept]
      /\ cached'[Me] = [s \in Stat |-> IF s \in DOMAIN stats THEN stats[s] ELSE cached[Me][s]]
  BY <1>2, <1>3, <1>4, CacheType
<1> QED BY <1>1, <1>5

\* The part of the types that is about the queue.
OpTypes ==
  /\ op \in OpType /\ moves \in 0..MaxMoves /\ commits \in Nat /\ CommitsAreMoves
  /\ Owed => \A s \in DOMAIN op.with : op.with[s] \in 0..Top

LEMMA CommitsAreBounded == OpTypes => commits \in 0..MaxMoves
BY ServicesAssumption DEF OpTypes, CommitsAreMoves

LEMMA TypesHaveOps == StatsTypes => OpTypes
BY ServicesAssumption DEF StatsTypes, StatsTypeOK, OpTypes

\* An operation that ends, or goes on, spends no more than was paid for.
LEMMA OpEndsTyped ==
  ASSUME OpTypes, op' = None, moves' = moves,
         commits' = commits \/ (commits > 0 /\ commits' = commits - 1)
  PROVE  OpTypes' /\ op' \in Others
BY DEF OpTypes, CommitsAreMoves, Owed, Runs, OpType, Others

LEMMA OpStaysTyped ==
  ASSUME OpTypes, op' = op, moves' = moves \/ Moves,
         commits' = commits \/ (commits > 0 /\ commits' = commits - 1)
  PROVE  OpTypes'
<1>1. moves' \in 0..MaxMoves /\ moves' >= moves BY ServicesAssumption DEF Moves, OpTypes
<1>2. commits' \in Nat /\ commits' <= commits BY DEF OpTypes
<1>3. Owed' <=> Owed BY DEF Owed, Runs
<1>4. CommitsAreMoves'
  <2>1. moves \in Int /\ moves' \in Int /\ commits \in Int /\ commits' \in Int
    BY <1>1, <1>2, ServicesAssumption DEF OpTypes
  <2> QED BY <1>1, <1>2, <1>3, <2>1 DEF CommitsAreMoves, OpTypes
<1> QED BY <1>1, <1>2, <1>3, <1>4 DEF OpTypes

LEMMA OpBeginsTyped ==
  ASSUME OpTypes, NEW r \in StatsOp, Begins(r),
         r.do = "UpdateStats" => \A s \in DOMAIN r.with : r.with[s] \in 0..Top,
         commits' = commits \/ (r.do # "UpdateStats" /\ commits' = commits + 1)
  PROVE  OpTypes' /\ op = None /\ op' \in Others
<1>1. op = None /\ op' = r /\ r # None /\ moves' = moves + 1 /\ moves' \in 0..MaxMoves
  BY StatsOpIsSome, ServicesAssumption DEF Begins, Free, Moves, OpTypes
<1>2. ~Owed BY <1>1 DEF Owed, Runs
<1>3. Owed' => r.do = "UpdateStats" BY <1>1 DEF Owed, Runs
<1>4. commits' \in Nat /\ CommitsAreMoves' BY <1>1, <1>2, <1>3 DEF CommitsAreMoves, OpTypes
<1> QED BY <1>1, <1>3, <1>4 DEF OpTypes, OpType, Others

\* The operations that begin.
LEMMA QueriesBegin ==
  ASSUME OpTypes,
         \/ \E amounts \in Amounts : UpdateStats(amounts)
         \/ \E targets \in Targets, names \in SUBSET Stat \ {{}} : QueryStats(targets, names)
         \/ QueryAchievementDefinitions \/ QueryAchievementStates
  PROVE  OpTypes' /\ op = None /\ op' \in Others /\ UNCHANGED statVars /\ ~At("told")' /\ ~At("storing")'
<1>1. ASSUME NEW amounts \in Amounts, UpdateStats(amounts)
      PROVE  OpTypes' /\ op = None /\ op' \in Others /\ UNCHANGED statVars /\ ~At("told")' /\ ~At("storing")'
  <2> DEFINE r == [do |-> "UpdateStats", step |-> "asked", with |-> amounts]
  <2>1. PICK names \in SUBSET Stat : amounts \in [names -> 1..Top] BY DEF Amounts
  <2>2. amounts \in NumbersFor /\ \A s \in DOMAIN amounts : amounts[s] \in 0..Top
    <3>1. \A s \in names : amounts[s] \in 0..Top BY <2>1, TopType
    <3>2. \A s \in names : amounts[s] \in 0..2 * Top BY <3>1, TopType
    <3> QED BY <2>1, <3>1, <3>2 DEF NumbersFor
  <2>3. r \in StatsOp BY <2>2, StatsOpParts DEF UpdateOps
  <2>4. r.do = "UpdateStats" /\ r.step = "asked" /\ r.with = amounts OBVIOUS
  <2>5. Begins(r) /\ commits' = commits /\ UNCHANGED statVars
    BY <1>1 DEF UpdateStats, AsksForStats, statVars, steamStats
  <2>6. op' = r BY <2>5 DEF Begins
  <2> HIDE DEF r
  <2> QED BY <2>2, <2>3, <2>4, <2>5, <2>6, OpBeginsTyped DEF At
<1>2. ASSUME NEW targets \in Targets, NEW names \in SUBSET Stat, QueryStats(targets, names)
      PROVE  OpTypes' /\ op = None /\ op' \in Others /\ UNCHANGED statVars /\ ~At("told")' /\ ~At("storing")'
  <2> DEFINE r == [do |-> "QueryStats", step |-> "asked", with |-> names, of |-> targets]
  <2>1. r \in StatsOp BY StatsOpParts DEF QueryOps
  <2>2. r.do # "UpdateStats" /\ r.step = "asked" OBVIOUS
  <2>3. Begins(r) /\ commits' = commits /\ UNCHANGED statVars
    BY <1>2 DEF QueryStats, AsksForStats, statVars, steamStats
  <2>4. op' = r BY <2>3 DEF Begins
  <2> HIDE DEF r
  <2> QED BY <2>1, <2>2, <2>3, <2>4, OpBeginsTyped DEF At
<1>3. CASE QueryAchievementDefinitions \/ QueryAchievementStates
  <2>1. PICK d \in {"QueryDefinitions", "QueryStates"} : Begins([do |-> d, step |-> "asked"])
    BY <1>3 DEF QueryAchievementDefinitions, QueryAchievementStates, AsksForStats
  <2> DEFINE r == [do |-> d, step |-> "asked"]
  <2>2. r \in StatsOp BY StatsOpParts DEF PlainOps
  <2>3. r.do # "UpdateStats" /\ r.step = "asked" OBVIOUS
  <2>4. Begins(r) /\ commits' = commits /\ UNCHANGED statVars
    BY <1>3, <2>1 DEF QueryAchievementDefinitions, QueryAchievementStates, statVars, steamStats
  <2>5. op' = r BY <2>4 DEF Begins
  <2> HIDE DEF r
  <2> QED BY <2>2, <2>3, <2>4, <2>5, OpBeginsTyped DEF At
<1> QED BY <1>1, <1>2, <1>3

LEMMA ResetBegins ==
  ASSUME OpTypes, Begins([do |-> "ResetStats", step |-> "storing"]), commits' = commits + 1
  PROVE  OpTypes' /\ op' \in Others /\ op' \in ResetOps /\ op' # None
<1> DEFINE r == [do |-> "ResetStats", step |-> "storing"]
<1>1. r \in ResetOps /\ r \in StatsOp /\ r.do = "ResetStats" BY StatsOpParts DEF ResetOps
<1>2. op' = r BY DEF Begins
<1> HIDE DEF r
<1> QED BY <1>1, <1>2, OpBeginsTyped, StatsOpIsSome DEF r

LEMMA UnlockBegins ==
  ASSUME OpTypes, NEW ids \in SUBSET Achievement,
         Begins([do |-> "Unlock", with |-> ids, step |-> "storing"]), commits' = commits + 1
  PROVE  OpTypes' /\ op' \in Others /\ op' \in UnlockOps /\ op' # None /\ op'.with = ids
<1> DEFINE r == [do |-> "Unlock", with |-> ids, step |-> "storing"]
<1>1. r \in UnlockOps /\ r \in StatsOp /\ r.do = "Unlock" /\ r.with = ids BY StatsOpParts DEF UnlockOps
<1>2. op' = r BY DEF Begins
<1> HIDE DEF r
<1> QED BY <1>1, <1>2, OpBeginsTyped, StatsOpIsSome DEF r

-----------------------------------------------------------------------------
(* Steam's callbacks.                                                      *)

\* What a sequence holds once an element in it is gone.
LEMMA OneLess ==
  ASSUME NEW S, NEW s \in Seq(S), NEW k \in 1..Len(s), NEW t, t = RemoveAt(s, k)
  PROVE  /\ t \in Seq(S) /\ Len(t) = Len(s) - 1
         /\ \A i \in 1..Len(t) : t[i] = IF i < k THEN s[i] ELSE s[i + 1]
<1>1. Len(s) \in Nat /\ k \in Nat OBVIOUS
<1> DEFINE a == SubSeq(s, 1, k - 1)
           b == SubSeq(s, k + 1, Len(s))
<1>2. a \in Seq(S) /\ Len(a) = k - 1 /\ \A i \in 1..(k - 1) : a[i] = s[i]
  BY <1>1
<1>3. b \in Seq(S) /\ Len(b) = Len(s) - k /\ \A i \in 1..(Len(s) - k) : b[i] = s[i + k]
  BY <1>1
<1> HIDE DEF a, b
<1>4. t = a \o b BY DEF a, b, RemoveAt
<1>5. /\ t \in Seq(S) /\ Len(t) = Len(a) + Len(b)
      /\ \A i \in 1..(Len(a) + Len(b)) : t[i] = IF i <= Len(a) THEN a[i] ELSE b[i - Len(a)]
  <2>1. a \in Seq(S) /\ b \in Seq(S) BY <1>2, <1>3
  <2> QED BY <1>4, <2>1, ConcatProperties, Zenon
<1>6. Len(t) = Len(s) - 1
  <2>1. Len(t) = Len(a) + Len(b) /\ Len(a) = k - 1 /\ Len(b) = Len(s) - k BY <1>2, <1>3, <1>5
  <2>2. \A m, n \in Nat : (n - 1) + (m - n) = m - 1 OBVIOUS
  <2> QED BY <1>1, <2>1, <2>2
<1>7. ASSUME NEW i \in 1..Len(t) PROVE t[i] = IF i < k THEN s[i] ELSE s[i + 1]
  <2>1. CASE i < k
    <3>1. i <= Len(a) /\ i \in 1..(k - 1) /\ i \in 1..(Len(a) + Len(b)) BY <1>1, <1>2, <1>3, <1>6, <2>1
    <3> QED BY <1>2, <1>5, <2>1, <3>1
  <2>2. CASE ~(i < k)
    <3>1. /\ ~(i <= Len(a)) /\ i - Len(a) \in 1..(Len(s) - k) /\ i \in 1..(Len(a) + Len(b))
          /\ (i - Len(a)) + k = i + 1
      <4>1. Len(a) = k - 1 /\ Len(b) = Len(s) - k BY <1>2, <1>3
      <4>2. \A m, n, j \in Nat : j \in 1..(m - 1) /\ n \in 1..m /\ ~(j < n) =>
              /\ ~(j <= n - 1) /\ j - (n - 1) \in 1..(m - n) /\ j \in 1..((n - 1) + (m - n))
              /\ (j - (n - 1)) + n = j + 1
        OBVIOUS
      <4>3. i \in Nat /\ i \in 1..(Len(s) - 1) BY <1>1, <1>6, <1>7
      <4>4. /\ ~(i <= k - 1) /\ i - (k - 1) \in 1..(Len(s) - k) /\ i \in 1..((k - 1) + (Len(s) - k))
            /\ (i - (k - 1)) + k = i + 1
        BY <1>1, <2>2, <4>2, <4>3
      <4> QED BY <4>1, <4>4
    <3>2. t[i] = b[i - Len(a)] BY <1>5, <3>1
    <3>3. b[i - Len(a)] = s[(i - Len(a)) + k] BY <1>3, <3>1
    <3> QED BY <2>2, <3>1, <3>2, <3>3
  <2> QED BY <2>1, <2>2
<1> QED BY <1>5, <1>6, <1>7

\* One callback is gone, and the others come in the order they came in.
From(i, k) == IF i < k THEN i ELSE i + 1
Into(i, k) == IF i < k THEN i ELSE i - 1
Drops(k) ==
  /\ k \in 1..Len(pipe) /\ pipe' \in Seq(Message)
  /\ \A i \in 1..Len(pipe') :
       From(i, k) \in 1..Len(pipe) /\ From(i, k) # k /\ pipe'[i] = pipe[From(i, k)]
  /\ \A i \in 1..Len(pipe) : i # k => Into(i, k) \in 1..Len(pipe') /\ pipe'[Into(i, k)] = pipe[i]

\* Callbacks come after those that are there.
Grows ==
  /\ pipe' \in Seq(Message) /\ Len(pipe) \in Nat /\ Len(pipe') \in Nat
  /\ \A i \in 1..Len(pipe) : i \in 1..Len(pipe') /\ pipe'[i] = pipe[i]
Appends(m) == Grows /\ Len(pipe') = Len(pipe) + 1 /\ Len(pipe') \in 1..Len(pipe') /\ pipe'[Len(pipe')] = m

LEMMA OneIsDropped ==
  ASSUME pipe \in Seq(Message), NEW k \in 1..Len(pipe), pipe' \in Seq(Message),
         Len(pipe') = Len(pipe) - 1, \A i \in 1..Len(pipe') : pipe'[i] = pipe[From(i, k)]
  PROVE  Drops(k)
<1>1. k \in Nat /\ Len(pipe) \in Nat /\ Len(pipe') = Len(pipe) - 1 OBVIOUS
<1>2. ASSUME NEW i \in 1..Len(pipe')
      PROVE  From(i, k) \in 1..Len(pipe) /\ From(i, k) # k
  BY <1>1 DEF From
<1>3. ASSUME NEW i \in 1..Len(pipe), i # k
      PROVE  Into(i, k) \in 1..Len(pipe') /\ From(Into(i, k), k) = i
  BY <1>1, <1>3 DEF From, Into
<1> QED BY <1>2, <1>3 DEF Drops

LEMMA HeadIsDropped ==
  ASSUME pipe \in Seq(Message), NEW what, IsNext(what)
  PROVE  /\ Drops(1) /\ 1 \in 1..Len(pipe) /\ Head(pipe) = pipe[1] /\ Head(pipe) \in Message
         /\ pipe[1].what = what
<1>1. /\ pipe # <<>> /\ pipe' = Tail(pipe) /\ Head(pipe).what = what /\ Head(pipe) = pipe[1]
      /\ 1 \in 1..Len(pipe)
  BY DEF IsNext
<1>2. Head(pipe) \in Message /\ Tail(pipe) \in Seq(Message) /\ Len(Tail(pipe)) = Len(pipe) - 1
      /\ \A i \in 1..Len(Tail(pipe)) : Tail(pipe)[i] = pipe[i + 1]
  BY <1>1, HeadTailProperties, Zenon
<1>3. \A i \in 1..Len(pipe') : pipe'[i] = pipe[From(i, 1)] BY <1>1, <1>2 DEF From
<1> QED BY <1>1, <1>2, <1>3, OneIsDropped

\* The answer nobody is left to hear is dropped, if there is one.
LEMMA AnswerIsDropped ==
  ASSUME pipe \in Seq(Message), GivenUp
  PROVE  \/ pipe' = pipe /\ \A i \in 1..Len(pipe) : ~HasAnswer(i)
         \/ \E k \in 1..Len(pipe) : HasAnswer(k) /\ Drops(k)
<1>1. ASSUME NEW k \in 1..Len(pipe), HasAnswer(k), pipe' = RemoveAt(pipe, k) PROVE Drops(k)
  <2>1. pipe' \in Seq(Message) /\ Len(pipe') = Len(pipe) - 1
        /\ \A i \in 1..Len(pipe') : pipe'[i] = IF i < k THEN pipe[i] ELSE pipe[i + 1]
    BY <1>1, OneLess
  <2>2. \A i \in 1..Len(pipe') : pipe'[i] = pipe[From(i, k)] BY <2>1 DEF From
  <2> QED BY <2>1, <2>2, OneIsDropped
<1> QED BY <1>1 DEF GivenUp

LEMMA OneIsAppended ==
  ASSUME pipe \in Seq(Message), NEW m \in Message, pipe' = Append(pipe, m)
  PROVE  Appends(m)
BY DEF Appends, Grows

\* Steam's answer to a commit, and what it announces after.
New == {a \in Achievement : got[a] /\ ~won[a]}

LEMMA CommitIsAnnounced ==
  ASSUME StatsTypes, SteamCommits
  PROVE  /\ Grows /\ Len(pipe) + 1 \in 1..Len(pipe')
         /\ pipe'[Len(pipe) + 1] = Callback("stored", None, TRUE)
         /\ \A i \in 1..Len(pipe') : i > Len(pipe) + 1 =>
              \E a \in New : pipe'[i] = Callback("unlocked", a, TRUE)
         /\ \A a \in New : \E i \in 1..Len(pipe') : pipe'[i] = Callback("unlocked", a, TRUE)
<1>1. PICK new \in SetToSeqs(New) :
        pipe' = pipe \o <<Callback("stored", None, TRUE)>>
                     \o [i \in 1..Len(new) |-> Callback("unlocked", new[i], TRUE)]
  BY DEF SteamCommits, New
<1> DEFINE n == Cardinality(New)
<1>2. IsFiniteSet(New) /\ n \in Nat
  <2>1. IsFiniteSet(Achievement) /\ New \in SUBSET Achievement BY StatsAssumption DEF New
  <2>2. IsFiniteSet(New) BY <2>1, FS_Subset, Zenon
  <2> QED BY <2>2, FS_CardinalityType
<1>3. new \in [1..n -> New] /\ \A i, j \in 1..n : i # j => new[i] # new[j]
  BY <1>1 DEF SetToSeqs
<1>4. Len(new) = n
  <2> HIDE DEF n
  <2>1. new \in Seq(New) BY <1>2, <1>3
  <2> QED BY <1>2, <1>3, <2>1
<1>5. ASSUME NEW a \in New PROVE \E i \in 1..n : new[i] = a
  <2>1. IsFiniteSet(1..n) /\ Cardinality(1..n) = n
    <3>1. n \in Int /\ 1 \in Int /\ (n < 1 => n = 0) BY <1>2
    <3>2. IsFiniteSet(1..n) /\ Cardinality(1..n) = IF 1 > n THEN 0 ELSE n - 1 + 1 BY <3>1, FS_Interval
    <3> QED BY <1>2, <3>2
  <2>2. new \in Injection(1..n, New) BY <1>3 DEF Injection, IsInjective
  <2>3. new \in Surjection(1..n, New) BY <1>2, <2>1, <2>2, FS_Injection
  <2> QED BY <2>3 DEF Surjection
<1> HIDE DEF n
<1> DEFINE told_ == [i \in 1..n |-> Callback("unlocked", new[i], TRUE)]
           st == <<Callback("stored", None, TRUE)>>
<1>6. st \in Seq(Message) /\ Len(st) = 1 /\ st[1] = Callback("stored", None, TRUE)
  BY DEF Callback, Message
<1>7. told_ \in Seq(Message) /\ Len(told_) = n
      /\ \A i \in 1..n : told_[i] = Callback("unlocked", new[i], TRUE)
  <2>1. \A i \in 1..n : Callback("unlocked", new[i], TRUE) \in Message
    BY <1>3 DEF Callback, Message, New
  <2>2. told_ \in [1..n -> Message] BY <2>1
  <2>3. \A i \in 1..n : told_[i] = Callback("unlocked", new[i], TRUE) OBVIOUS
  <2> HIDE DEF told_
  <2>4. told_ \in Seq(Message) /\ Len(told_) = n BY <1>2, <2>2
  <2> QED BY <2>3, <2>4
<1>8. pipe \in Seq(Message) /\ pipe' = (pipe \o st) \o told_
  BY <1>1, <1>4 DEF StatsTypes, StatsTypeOK, Message
<1> HIDE DEF told_, st
<1>9. /\ pipe \o st \in Seq(Message) /\ Len(pipe \o st) = Len(pipe) + 1
      /\ \A i \in 1..(Len(pipe) + Len(st)) :
           (pipe \o st)[i] = IF i <= Len(pipe) THEN pipe[i] ELSE st[i - Len(pipe)]
  <2>1. /\ pipe \o st \in Seq(Message) /\ Len(pipe \o st) = Len(pipe) + Len(st)
        /\ \A i \in 1..(Len(pipe) + Len(st)) :
             (pipe \o st)[i] = IF i <= Len(pipe) THEN pipe[i] ELSE st[i - Len(pipe)]
    BY <1>6, <1>8, ConcatProperties, Zenon
  <2> QED BY <1>6, <2>1
<1>10. /\ pipe' \in Seq(Message) /\ Len(pipe') = Len(pipe \o st) + Len(told_)
       /\ \A i \in 1..(Len(pipe \o st) + Len(told_)) :
            pipe'[i] = IF i <= Len(pipe \o st) THEN (pipe \o st)[i] ELSE told_[i - Len(pipe \o st)]
  BY <1>7, <1>8, <1>9, ConcatProperties, Zenon
<1>11. Len(pipe) \in Nat BY <1>8
<1>12. Len(pipe') = Len(pipe) + 1 + n BY <1>7, <1>9, <1>10
<1>13. \A i \in 1..Len(pipe) : i \in 1..Len(pipe') /\ pipe'[i] = pipe[i]
  BY <1>2, <1>6, <1>9, <1>10, <1>11, <1>12
<1>14. Len(pipe) + 1 \in 1..Len(pipe') /\ pipe'[Len(pipe) + 1] = Callback("stored", None, TRUE)
  <2> DEFINE j == Len(pipe) + 1
  <2>1. /\ j \in 1..(Len(pipe) + Len(st)) /\ ~(j <= Len(pipe)) /\ j - Len(pipe) = 1
        /\ j \in 1..(Len(pipe \o st) + Len(told_)) /\ j <= Len(pipe \o st) /\ j \in 1..Len(pipe')
    BY <1>2, <1>6, <1>7, <1>9, <1>11, <1>12
  <2> HIDE DEF j
  <2>2. pipe'[j] = (pipe \o st)[j] BY <1>10, <2>1
  <2>3. (pipe \o st)[j] = st[j - Len(pipe)] BY <1>9, <2>1
  <2>4. pipe'[j] = Callback("stored", None, TRUE) BY <1>6, <2>1, <2>2, <2>3
  <2> QED BY <2>1, <2>4 DEF j
<1>15. \A i \in 1..n : i + Len(pipe) + 1 \in 1..Len(pipe')
          /\ pipe'[i + Len(pipe) + 1] = Callback("unlocked", new[i], TRUE)
  <2> SUFFICES ASSUME NEW i \in 1..n
               PROVE  i + Len(pipe) + 1 \in 1..Len(pipe')
                      /\ pipe'[i + Len(pipe) + 1] = Callback("unlocked", new[i], TRUE)
    OBVIOUS
  <2> DEFINE j == i + Len(pipe) + 1
  <2>1. /\ j \in 1..(Len(pipe \o st) + Len(told_)) /\ ~(j <= Len(pipe \o st))
        /\ j - Len(pipe \o st) = i /\ j \in 1..Len(pipe')
    BY <1>2, <1>7, <1>9, <1>11, <1>12
  <2> HIDE DEF j
  <2>2. pipe'[j] = told_[j - Len(pipe \o st)] BY <1>10, <2>1
  <2>3. pipe'[j] = Callback("unlocked", new[i], TRUE) BY <1>7, <2>1, <2>2
  <2> QED BY <2>1, <2>3 DEF j
<1>16. ASSUME NEW i \in 1..Len(pipe'), i > Len(pipe) + 1
       PROVE  \E a \in New : pipe'[i] = Callback("unlocked", a, TRUE)
  <2>1. i - (Len(pipe) + 1) \in 1..n /\ (i - (Len(pipe) + 1)) + Len(pipe) + 1 = i
    BY <1>2, <1>11, <1>12, <1>16
  <2>2. new[i - (Len(pipe) + 1)] \in New BY <1>3, <2>1
  <2> QED BY <1>15, <2>1, <2>2
<1>17. Grows BY <1>2, <1>10, <1>11, <1>12, <1>13 DEF Grows
<1>18. ASSUME NEW a \in New PROVE \E i \in 1..Len(pipe') : pipe'[i] = Callback("unlocked", a, TRUE)
  <2>1. PICK i \in 1..n : new[i] = a BY <1>5
  <2> QED BY <1>15, <2>1
<1> QED BY <1>14, <1>16, <1>17, <1>18

-----------------------------------------------------------------------------
(* Every step of the component keeps its types.                            *)

Achieved == [Achievement -> BOOLEAN]
Progresses == {None} \cup [Achievement -> 0..Unlocked]

LEMMA StatsTypesParts ==
  StatsTypes <=>
    /\ OpTypes /\ held \in Numbers /\ stored \in Numbers /\ theirs \in [Stat -> 0..1]
    /\ got \in Achieved /\ won \in Achieved /\ pipe \in Seq(Message)
    /\ cached \in [StatUsers -> Kept] /\ definitions \in BOOLEAN /\ progress \in Progresses
    /\ astray \subseteq Stat \cup Achievement
<1>1. [Stat -> 0..1] \subseteq Numbers BY TopType DEF Numbers
<1>2. OpTypes => commits \in 0..MaxMoves BY CommitsAreBounded
<1>3. StatsTypes => OpTypes BY TypesHaveOps
<1> QED BY <1>1, <1>2, <1>3
        DEF StatsTypes, StatsTypeOK, OpTypes, Numbers, Achieved, Progresses, Message, Kept

LEMMA StatsTypesAfter ==
  ASSUME OpTypes', held' \in Numbers, stored' \in Numbers, theirs' \in [Stat -> 0..1],
         got' \in Achieved, won' \in Achieved, pipe' \in Seq(Message),
         cached' \in [StatUsers -> Kept], definitions' \in BOOLEAN, progress' \in Progresses,
         astray' \subseteq Stat \cup Achievement
  PROVE  StatsTypes'
<1>1. theirs' \in Numbers BY TopType DEF Numbers
<1>2. commits' \in 0..MaxMoves BY ServicesAssumption DEF OpTypes, CommitsAreMoves
<1>3. StatsTypeOK'
  BY <1>1, <1>2 DEF StatsTypeOK, Numbers, Achieved, Progresses, Message, Kept
<1> QED BY <1>3 DEF StatsTypes, OpTypes

LEMMA DiffersType == \A c, p, h, g : Differs(c, p, h, g) \subseteq Stat \cup Achievement
BY DEF Differs

\* Steps that read, write and commit statistics.
LEMMA StatsWrittenTyped ==
  ASSUME StatsTypes, StatsWritten
  PROVE  /\ StatsTypes' /\ op \in UpdateOps /\ op' \in UpdateOps /\ op' # None /\ op'.step = "storing"
         /\ op'.with = Folded(DOMAIN op.with) /\ DOMAIN op'.with = DOMAIN op.with /\ Owed /\ Drops(1)
<1>1. /\ Owed /\ At("told") /\ Runs("UpdateStats") /\ IsNext("received")
      /\ commits' = commits + 1 /\ moves' = moves
      /\ op' = [op EXCEPT !.with = Folded(DOMAIN op.with), !.step = "storing"]
      /\ UNCHANGED <<got, stored, won, theirs, cached, definitions, progress, astray>>
      /\ WriteUserStats(DOMAIN op.with)
  BY DEF StatsWritten, Answered, Owed, Runs, At, StoreStats, shown
<1>2. op \in UpdateOps BY <1>1, OpsOfStats DEF StatsTypes
<1>3. /\ Folded(DOMAIN op.with) \in NumbersFor /\ held' \in Numbers
      /\ DOMAIN Folded(DOMAIN op.with) = DOMAIN op.with
  BY <1>1, FoldedType
<1>4. op' \in UpdateOps /\ op'.step = "storing" /\ op'.with = Folded(DOMAIN op.with) /\ op'.do = "UpdateStats"
  BY <1>1, <1>2, <1>3 DEF UpdateOps
<1>5. op' # None /\ op' \in StatsOp BY <1>4, StatsOpParts, StatsOpIsSome
<1>6. pipe \in Seq(Message) BY StatsTypesParts
<1>7. Drops(1) /\ pipe' \in Seq(Message) BY <1>1, <1>6, HeadIsDropped DEF Drops
<1>8. ~Owed' BY <1>4 DEF Owed
<1>9. OpTypes /\ commits \in Nat /\ commits < moves /\ moves \in Nat
  BY <1>1, TypesHaveOps, ServicesAssumption DEF OpTypes, CommitsAreMoves
<1>10. OpTypes' BY <1>1, <1>5, <1>8, <1>9 DEF OpTypes, CommitsAreMoves, OpType
<1>11. StatsTypes'
  <2>1. /\ held \in Numbers /\ stored \in Numbers /\ theirs \in [Stat -> 0..1]
        /\ got \in Achieved /\ won \in Achieved
        /\ cached \in [StatUsers -> Kept] /\ definitions \in BOOLEAN /\ progress \in Progresses
        /\ astray \subseteq Stat \cup Achievement
    BY StatsTypesParts
  <2> QED BY <1>1, <1>3, <1>7, <1>10, <2>1, StatsTypesAfter
<1> QED BY <1>1, <1>2, <1>3, <1>4, <1>5, <1>7, <1>11

\* An operation of this component that ends.
OfStats == op' = op \/ (op \in Others /\ op' \in Others)

LEMMA StatsOpIsOfStats == \A o : o \in StatsOp => o \in Others
BY DEF Others

\* An update whose numbers have come, or whose commit was answered, ends.
LEMMA UpdateEndsTyped ==
  ASSUME StatsTypes, StatsWrittenInPart \/ StoreRefused \/ StatsCommitted \/ StatsRejected
  PROVE  StatsTypes' /\ op' = None /\ op \in UpdateOps /\ op \in Others /\ Drops(1) /\ UNCHANGED <<got, won, commits, progress>>
<1>1. /\ OpTypes /\ held \in Numbers /\ stored \in Numbers /\ theirs \in [Stat -> 0..1]
      /\ got \in Achieved /\ won \in Achieved /\ pipe \in Seq(Message)
      /\ cached \in [StatUsers -> Kept] /\ definitions \in BOOLEAN /\ progress \in Progresses
      /\ astray \subseteq Stat \cup Achievement
  BY StatsTypesParts
<1>2. /\ Runs("UpdateStats") /\ op' = None /\ moves' = moves
      /\ UNCHANGED <<got, stored, won, theirs, commits, definitions, progress>>
  BY DEF StatsWrittenInPart, StoreRefused, StatsCommitted, StatsRejected, Answered, Committed, Ends,
         shown, steamStats
<1>3. op \in UpdateOps /\ op \in Others
  BY <1>2, OpsOfStats, StatsOpParts DEF StatsTypes, Others
<1>4. OpTypes' BY <1>1, <1>2, OpEndsTyped
<1>5. Drops(1)
  <2>1. IsNext("received") \/ IsNext("stored")
    BY DEF StatsWrittenInPart, StoreRefused, StatsCommitted, StatsRejected, Answered, Committed
  <2> QED BY <1>1, <2>1, HeadIsDropped
<1>6. pipe' \in Seq(Message) BY <1>5 DEF Drops
<1>7. DOMAIN op.with \in SUBSET Stat BY <1>3, UpdateCarries
<1>8. CASE StatsWrittenInPart
  <2>1. Owed /\ cached' = cached /\ GoesAstray
    BY <1>8 DEF StatsWrittenInPart, Answered, Owed, At, shown
  <2>2. held' \in Numbers BY <1>8, <2>1, FoldedType DEF StatsWrittenInPart
  <2>3. astray' \subseteq Stat \cup Achievement BY <1>1, <2>1, DiffersType DEF GoesAstray
  <2> QED BY <1>1, <1>2, <1>3, <1>4, <1>5, <1>6, <2>1, <2>2, <2>3, StatsTypesAfter
<1>9. CASE StoreRefused
  <2>1. Owed /\ astray' = astray /\ ReadAgain(DOMAIN op.with) /\ WriteUserStats(DOMAIN op.with)
    BY <1>9 DEF StoreRefused, Answered, Owed, At
  <2>2. held' \in Numbers BY <2>1, FoldedType
  <2>3. cached' \in [StatUsers -> Kept] BY <1>1, <1>7, <2>1, <2>2, ReadAgainType
  <2> QED BY <1>1, <1>2, <1>3, <1>4, <1>5, <1>6, <2>1, <2>2, <2>3, StatsTypesAfter
<1>10. CASE StatsCommitted
  <2>1. held' = held /\ CacheUserStats(Me, op.with) /\ Believes(DOMAIN op.with)
    BY <1>10 DEF StatsCommitted, steamStats
  <2>2. \A s \in DOMAIN op.with : s \in Stat => op.with[s] \in 0..2 * Top BY <1>3, UpdateCarries
  <2>3. cached' \in [StatUsers -> Kept]
    <3>1. Me \in StatUsers BY DEF StatUsers
    <3> QED BY <1>1, <2>1, <2>2, <3>1, CacheType
  <2>4. astray' \subseteq Stat \cup Achievement BY <1>1, <1>7, <2>1 DEF Believes
  <2> QED BY <1>1, <1>2, <1>3, <1>4, <1>5, <1>6, <2>1, <2>3, <2>4, StatsTypesAfter
<1>11. CASE StatsRejected
  <2>1. held' = held /\ ReadAgain(DOMAIN op.with) /\ astray' = astray
    BY <1>11 DEF StatsRejected, steamStats
  <2>2. cached' \in [StatUsers -> Kept] BY <1>1, <1>7, <2>1, ReadAgainType
  <2> QED BY <1>1, <1>2, <1>3, <1>4, <1>5, <1>6, <2>1, <2>2, StatsTypesAfter
<1> QED BY <1>8, <1>9, <1>10, <1>11

LEMMA NextTarget ==
  \A t \in Targets : Head(t) \in StatUsers /\ (Len(t) # 1 => Tail(t) \in Targets)
<1>1. \A x : Len(<<x>>) = 1 /\ Head(<<x>>) = x OBVIOUS
<1>2. \A x, y : Head(<<x, y>>) = x /\ Tail(<<x, y>>) = <<y>> OBVIOUS
<1> QED BY <1>1, <1>2 DEF Targets, StatUsers

\* A user's statistics are read, and the next user's are asked for.
LEMMA StatsReadTyped ==
  ASSUME StatsTypes, StatsRead
  PROVE  /\ StatsTypes' /\ op \in Others /\ op' \in Others /\ Drops(1) /\ ~At("told")' /\ ~At("storing")'
         /\ UNCHANGED <<steamStats, progress, astray>>
         /\ \A s \in Stat : cached'[Me][s] \in {cached[Me][s], held[s]}
<1>1. /\ OpTypes /\ held \in Numbers /\ stored \in Numbers /\ theirs \in [Stat -> 0..1]
      /\ got \in Achieved /\ won \in Achieved /\ pipe \in Seq(Message)
      /\ cached \in [StatUsers -> Kept] /\ definitions \in BOOLEAN /\ progress \in Progresses
      /\ astray \subseteq Stat \cup Achievement
  BY StatsTypesParts
<1>2. /\ Runs("QueryStats") /\ At("told") /\ IsNext("received") /\ moves' = moves /\ commits' = commits
      /\ op' = IF Len(op.of) = 1 THEN None ELSE [op EXCEPT !.of = Tail(@), !.step = "asked"]
      /\ UNCHANGED <<steamStats, definitions, progress, astray>>
      /\ CacheUserStats(Head(op.of), ReadUserStats(held, Head(op.of), op.with))
  BY DEF StatsRead, Answered, steamStats
<1>3. op \in QueryOps /\ op \in Others BY <1>2, OpsOfStats, StatsOpParts DEF StatsTypes, Others
<1>4. op.with \in SUBSET Stat /\ op.of \in Targets /\ op.do = "QueryStats" BY <1>3 DEF QueryOps
<1>5. Head(op.of) \in StatUsers /\ (Len(op.of) # 1 => Tail(op.of) \in Targets)
  BY <1>4, NextTarget
<1>6. op' = None \/ (op' \in QueryOps /\ op'.do = "QueryStats" /\ op'.step = "asked")
  <2>1. CASE Len(op.of) = 1 BY <1>2, <2>1
  <2>2. CASE Len(op.of) # 1
    <3>1. op' = [op EXCEPT !.of = Tail(op.of), !.step = "asked"] BY <1>2, <2>2
    <3> QED BY <1>3, <1>4, <1>5, <2>2, <3>1 DEF QueryOps
  <2> QED BY <2>1, <2>2
<1>7. op' \in Others BY <1>6, StatsOpParts DEF Others
<1>8. ~Owed' BY <1>6 DEF Owed, Runs
<1>9. OpTypes' BY <1>1, <1>2, <1>6, <1>8, StatsOpParts DEF OpTypes, CommitsAreMoves, OpType
<1>10. Drops(1) /\ pipe' \in Seq(Message) BY <1>1, <1>2, HeadIsDropped DEF Drops
<1> DEFINE u == Head(op.of)
           stats == ReadUserStats(held, u, op.with)
<1>11. /\ DOMAIN stats = op.with
       /\ \A s \in op.with : stats[s] = IF u = Me THEN held[s] ELSE theirs[s]
  BY DEF ReadUserStats
<1>12. \A s \in DOMAIN stats : s \in Stat => stats[s] \in 0..2 * Top
  BY <1>1, <1>4, <1>11, TopType DEF Numbers
<1>13. u \in StatUsers /\ CacheUserStats(u, stats) BY <1>2, <1>5
<1> HIDE DEF u, stats
<1>14. /\ cached' \in [StatUsers -> Kept]
       /\ cached'[u] = [s \in Stat |-> IF s \in DOMAIN stats THEN stats[s] ELSE cached[u][s]]
       /\ \A v \in StatUsers : v # u => cached'[v] = cached[v]
  BY <1>1, <1>12, <1>13, CacheType
<1>15. \A s \in Stat : cached'[Me][s] \in {cached[Me][s], held[s]}
  <2>1. CASE u = Me BY <1>11, <1>14, <2>1
  <2>2. CASE u # Me
    <3>1. Me \in StatUsers BY DEF StatUsers
    <3> QED BY <1>14, <2>2, <3>1
  <2> QED BY <2>1, <2>2
<1>16. StatsTypes'
  BY <1>1, <1>2, <1>9, <1>10, <1>14, StatsTypesAfter DEF steamStats
<1>17. ~At("told")' /\ ~At("storing")' BY <1>6 DEF At
<1> QED BY <1>2, <1>3, <1>7, <1>10, <1>15, <1>16, <1>17

\* Statistics are reset and achievements set at once; the commit is asked for, or refused.
LEMMA SetTyped ==
  ASSUME StatsTypes, ResetStats \/ \E ids \in SUBSET Achievement : UnlockAchievements(ids)
  PROVE  StatsTypes' /\ op = None /\ op' \in Others /\ ~At("told")'
<1>1. /\ OpTypes /\ held \in Numbers /\ stored \in Numbers /\ theirs \in [Stat -> 0..1]
      /\ got \in Achieved /\ won \in Achieved /\ pipe \in Seq(Message)
      /\ cached \in [StatUsers -> Kept] /\ definitions \in BOOLEAN /\ progress \in Progresses
      /\ astray \subseteq Stat \cup Achievement
  BY StatsTypesParts
<1>2. CASE ResetStats
  <2>1. held' \in Numbers
    <3>1. held' = [s \in Stat |-> 0] BY <1>2 DEF ResetStats
    <3> QED BY <3>1, TopType DEF Numbers
  <2>2. UNCHANGED <<got, stored, won, theirs, pipe, cached, definitions, progress>> BY <1>2 DEF ResetStats, shown
  <2>3. op = None BY <1>2 DEF ResetStats, Begins, AtOnce, Free
  <2>4. CASE Begins([do |-> "ResetStats", step |-> "storing"]) /\ StoreStats /\ UNCHANGED astray
    <3>1. OpTypes' /\ op' \in Others /\ op' \in ResetOps
      BY <1>1, <2>4, ResetBegins DEF StoreStats
    <3>2. ~At("told")' BY <3>1 DEF At, ResetOps
    <3> QED BY <1>1, <2>1, <2>2, <2>3, <2>4, <3>1, <3>2, StatsTypesAfter
  <2>5. CASE AtOnce /\ UNCHANGED commits /\ GoesAstray
    <3>1. op' = op /\ Moves BY <2>5 DEF AtOnce, Outside
    <3>2. OpTypes' BY <1>1, <2>5, <3>1, OpStaysTyped
    <3>3. astray' \subseteq Stat \cup Achievement BY <1>1, <2>5, DiffersType DEF GoesAstray
    <3> QED BY <1>1, <2>1, <2>2, <2>3, <3>1, <3>2, <3>3, StatsTypesAfter DEF At, Others
  <2> QED BY <1>2, <2>4, <2>5 DEF ResetStats
<1>3. ASSUME NEW ids \in SUBSET Achievement, UnlockAchievements(ids)
      PROVE  StatsTypes' /\ op = None /\ op' \in Others /\ ~At("told")'
  <2>1. UNCHANGED <<held, stored, won, theirs, pipe, cached, definitions, progress>>
    BY <1>3 DEF UnlockAchievements, shown
  <2>2. op = None BY <1>3 DEF UnlockAchievements, Begins, AtOnce, Free
  <2>3. got' \in Achieved
    <3>1. \E some \in SUBSET Achievement : got' = [a \in Achievement |-> a \in some \/ got[a]]
      BY <1>3 DEF UnlockAchievements
    <3> QED BY <1>1, <3>1 DEF Achieved
  <2>4. CASE Begins([do |-> "Unlock", with |-> ids, step |-> "storing"]) /\ StoreStats /\ UNCHANGED astray
    <3>1. OpTypes' /\ op' \in Others /\ op' \in UnlockOps
      BY <1>1, <2>4, UnlockBegins DEF StoreStats
    <3>2. ~At("told")' BY <3>1 DEF At, UnlockOps
    <3> QED BY <1>1, <2>1, <2>2, <2>3, <2>4, <3>1, <3>2, StatsTypesAfter
  <2>5. CASE AtOnce /\ UNCHANGED commits /\ GoesAstray
    <3>1. op' = op /\ Moves BY <2>5 DEF AtOnce, Outside
    <3>2. OpTypes' BY <1>1, <2>5, <3>1, OpStaysTyped
    <3>3. astray' \subseteq Stat \cup Achievement BY <1>1, <2>5, DiffersType DEF GoesAstray
    <3> QED BY <1>1, <2>1, <2>2, <2>3, <3>1, <3>2, <3>3, StatsTypesAfter DEF At, Others
  <2> QED BY <1>3, <2>4, <2>5 DEF UnlockAchievements
<1> QED BY <1>2, <1>3

LEMMA MarkType ==
  ASSUME progress \in Progresses, NEW ids, MarkAchievementUnlocked(ids)
  PROVE  progress' \in Progresses
BY DEF MarkAchievementUnlocked, Progresses, Unlocked

\* Other answers and announcements, and answers nobody hears.
LEMMA AnsweredTyped ==
  ASSUME StatsTypes,
         StatsReset \/ DefinitionsRead \/ StatesRead \/ AchievementsCommitted
         \/ OnUserAchievementStored \/ StatsCallFails \/ StoredUnheard
  PROVE  StatsTypes' /\ Drops(1) /\ UNCHANGED steamStats /\ OfStats /\ (op' = op \/ op' = None)
<1>1. /\ OpTypes /\ held \in Numbers /\ stored \in Numbers /\ theirs \in [Stat -> 0..1]
      /\ got \in Achieved /\ won \in Achieved /\ pipe \in Seq(Message)
      /\ cached \in [StatUsers -> Kept] /\ definitions \in BOOLEAN /\ progress \in Progresses
      /\ astray \subseteq Stat \cup Achievement
  BY StatsTypesParts
<1>2. UNCHANGED steamStats
  BY DEF StatsReset, DefinitionsRead, StatesRead, AchievementsCommitted, OnUserAchievementStored,
         StatsCallFails, StoredUnheard
<1>3. \E what \in {"received", "stored", "unlocked", "progress"} : IsNext(what)
  BY DEF StatsReset, DefinitionsRead, StatesRead, AchievementsCommitted, OnUserAchievementStored,
         StatsCallFails, StoredUnheard, Answered, Committed
<1>4. Drops(1) /\ pipe' \in Seq(Message) BY <1>1, <1>3, HeadIsDropped DEF Drops
<1>5. /\ moves' = moves
      /\ op' = op \/ (op' = None /\ (At("told") \/ At("storing")))
  BY DEF StatsReset, DefinitionsRead, StatesRead, AchievementsCommitted, OnUserAchievementStored,
         StatsCallFails, StoredUnheard, Answered, Committed, Ends, Beside, queue
<1>6. OpTypes' /\ OfStats /\ (op' = op \/ op' = None)
  <2>1. commits' = commits BY <1>2 DEF steamStats
  <2>2. CASE op' = op BY <1>1, <1>5, <2>1, <2>2, OpStaysTyped DEF OfStats
  <2>3. CASE op' = None /\ (At("told") \/ At("storing"))
    <3>1. OpTypes' /\ op' \in Others BY <1>1, <1>5, <2>1, <2>3, OpEndsTyped
    <3>2. op \in Others BY <2>3, OpsOfStats DEF StatsTypes, Others
    <3> QED BY <2>3, <3>1, <3>2 DEF OfStats
  <2> QED BY <1>5, <2>2, <2>3
<1>7. cached' \in [StatUsers -> Kept]
  <2>1. CASE StatsReset
    <3>1. cached' = [cached EXCEPT ![Me] = [s \in Stat |-> Unread]] BY <2>1 DEF StatsReset
    <3>2. [s \in Stat |-> Unread] \in Kept BY DEF Kept
    <3> QED BY <1>1, <3>1, <3>2
  <2>2. CASE cached' = cached BY <1>1, <2>2
  <2> QED BY <2>1, <2>2 DEF DefinitionsRead, StatesRead, AchievementsCommitted, OnUserAchievementStored,
         StatsCallFails, StoredUnheard, shown
<1>8. definitions' \in BOOLEAN
  BY <1>1 DEF StatsReset, DefinitionsRead, StatesRead, AchievementsCommitted, OnUserAchievementStored,
         StatsCallFails, StoredUnheard, shown
<1>9. progress' \in Progresses
  <2>1. CASE StatesRead
    BY <2>1 DEF StatesRead, Progresses, Unlocked
  <2>2. CASE OnUserAchievementStored
    <3>1. \/ MarkAchievementUnlocked({Head(pipe).about})
          \/ progress' = IF progress = None THEN None ELSE [progress EXCEPT ![Head(pipe).about] = 1]
      BY <2>2 DEF OnUserAchievementStored
    <3> QED BY <1>1, <3>1, MarkType DEF Progresses, Unlocked
  <2>3. CASE AchievementsCommitted
    BY <1>1, <2>3, MarkType DEF AchievementsCommitted
  <2>4. CASE progress' = progress BY <1>1, <2>4
  <2> QED BY <2>1, <2>2, <2>3, <2>4 DEF StatsReset, DefinitionsRead, StatsCallFails, StoredUnheard, shown
<1>10. astray' \subseteq Stat \cup Achievement
  <2>1. CASE AchievementsCommitted
    <3>1. op \in UnlockOps BY <2>1, OpsOfStats DEF AchievementsCommitted, Committed, StatsTypes
    <3> QED BY <1>1, <2>1, <3>1 DEF AchievementsCommitted, Believes, UnlockOps
  <2>2. CASE StatsCallFails
    BY <1>1, <2>2 DEF StatsCallFails, Believes
  <2>3. CASE astray' = astray BY <1>1, <2>3
  <2> QED BY <2>1, <2>2, <2>3 DEF StatsReset, DefinitionsRead, StatesRead, OnUserAchievementStored, StoredUnheard
<1> QED BY <1>1, <1>2, <1>4, <1>6, <1>7, <1>8, <1>9, <1>10, StatsTypesAfter DEF steamStats

\* Dropping the answer leaves callbacks.
LEMMA GivenUpTyped == pipe \in Seq(Message) /\ GivenUp => pipe' \in Seq(Message)
BY AnswerIsDropped DEF Drops

LEMMA StatsTimeOutTyped ==
  ASSUME StatsTypes, StatsTimeOut
  PROVE  StatsTypes' /\ op' = None /\ op \in Others
<1>1. /\ OpTypes /\ held \in Numbers /\ stored \in Numbers /\ theirs \in [Stat -> 0..1]
      /\ got \in Achieved /\ won \in Achieved /\ pipe \in Seq(Message)
      /\ cached \in [StatUsers -> Kept] /\ definitions \in BOOLEAN /\ progress \in Progresses
      /\ astray \subseteq Stat \cup Achievement
  BY StatsTypesParts
<1>2. /\ op' = None /\ moves' = moves /\ GivenUp /\ UNCHANGED <<steamStats, definitions, progress>>
      /\ held' = held /\ commits' = commits
  BY DEF StatsTimeOut, Ends, steamStats
<1>3. op \in Others
  <2>1. op # None /\ op.do \in Unwrapped \cup {"ResetStats", "Unlock"} BY DEF StatsTimeOut
  <2>2. op \in StatsOp BY <2>1, OpsOfStats, StatsOpParts DEF StatsTypes, Runs
  <2> QED BY <2>2 DEF Others
<1>4. OpTypes' BY <1>1, <1>2, OpEndsTyped
<1>5. cached' \in [StatUsers -> Kept]
  <2>1. CASE Runs("UpdateStats") /\ ReadAgain(DOMAIN op.with)
    <3>1. DOMAIN op.with \in SUBSET Stat BY <2>1, OpsOfStats, UpdateCarries DEF StatsTypes
    <3> QED BY <1>1, <1>2, <2>1, <3>1, ReadAgainType
  <2>2. CASE cached' = cached BY <1>1, <2>2
  <2> QED BY <2>1, <2>2 DEF StatsTimeOut
<1>6. astray' \subseteq Stat \cup Achievement
  BY <1>1, DiffersType DEF StatsTimeOut, GoesAstray
<1>7. pipe' \in Seq(Message) BY <1>1, <1>2, GivenUpTyped
<1> QED BY <1>1, <1>2, <1>3, <1>4, <1>5, <1>6, <1>7, StatsTypesAfter DEF steamStats

\* Steam answers the call that waits.
LEMMA SteamSendsTyped ==
  ASSUME StatsTypes, NEW ok \in BOOLEAN, SteamSendsStats(ok)
  PROVE  /\ StatsTypes' /\ op \in Others /\ op' \in Others /\ At("told")' /\ ~At("storing")' /\ ~At("told") /\ ~At("storing")
         /\ Appends(Callback("received", None, ok)) /\ UNCHANGED <<steamStats, cached, progress, astray>>
         /\ op'.do = op.do
<1>1. /\ OpTypes /\ held \in Numbers /\ stored \in Numbers /\ theirs \in [Stat -> 0..1]
      /\ got \in Achieved /\ won \in Achieved /\ pipe \in Seq(Message)
      /\ cached \in [StatUsers -> Kept] /\ definitions \in BOOLEAN /\ progress \in Progresses
      /\ astray \subseteq Stat \cup Achievement
  BY StatsTypesParts
<1>2. /\ At("asked") /\ op # None /\ op.step = "asked" /\ op.do \in Unwrapped /\ moves' = moves /\ commits' = commits
      /\ op' = [op EXCEPT !.step = "told"] /\ pipe' = Append(pipe, Callback("received", None, ok))
      /\ UNCHANGED <<steamStats, cached, definitions, progress, astray>>
  BY DEF SteamSendsStats, Goes, At, steamStats, shown
<1>3. op \in UpdateOps \/ op \in QueryOps \/ op \in PlainOps
  BY <1>2, OpsOfStats DEF StatsTypes, Unwrapped, Runs
<1>4. /\ op' \in UpdateOps \/ op' \in QueryOps \/ op' \in PlainOps
      /\ op'.step = "told" /\ op'.do = op.do
      /\ op \in UpdateOps => op'.with = op.with
  <2>1. CASE op \in UpdateOps BY <1>2, <2>1 DEF UpdateOps
  <2>2. CASE op \in QueryOps
    <3>1. op.do # "UpdateStats" BY <2>2 DEF QueryOps
    <3>2. op \notin UpdateOps BY <3>1 DEF UpdateOps
    <3> QED BY <1>2, <2>2, <3>2 DEF QueryOps
  <2>3. CASE op \in PlainOps
    <3>1. op.do # "UpdateStats" BY <2>3 DEF PlainOps
    <3>2. op \notin UpdateOps BY <3>1 DEF UpdateOps
    <3> QED BY <1>2, <2>3, <3>2 DEF PlainOps
  <2> QED BY <1>3, <2>1, <2>2, <2>3
<1>5. op \in Others /\ op' \in Others /\ op' \in StatsOp /\ op' # None
  BY <1>3, <1>4, StatsOpParts, StatsOpIsSome DEF Others
<1>6. Owed' => Owed /\ op'.with = op.with
  BY <1>2, <1>4, <1>5, OpsOfStats DEF Owed, Runs, StatsTypes
<1>7. OpTypes' BY <1>1, <1>2, <1>5, <1>6 DEF OpTypes, CommitsAreMoves, OpType
<1>8. Callback("received", None, ok) \in Message BY DEF Callback, Message
<1>9. Appends(Callback("received", None, ok)) BY <1>1, <1>2, <1>8, OneIsAppended
<1>10. pipe' \in Seq(Message) BY <1>9 DEF Appends, Grows
<1>11. StatsTypes' BY <1>1, <1>2, <1>7, <1>10, StatsTypesAfter DEF steamStats
<1> QED BY <1>2, <1>4, <1>5, <1>9, <1>11 DEF At

\* What Steam, the other user and the game do beside the operation.
LEMMA BesideTyped ==
  ASSUME StatsTypes,
         SteamCommits \/ SteamRejects \/ (\E s \in Stat : OtherPlays(s))
         \/ \E a \in Achievement : GameIndicatesProgress(a)
  PROVE  /\ StatsTypes' /\ op' = op /\ Grows
         /\ SteamRejects => Appends(Callback("stored", None, FALSE))
         /\ \A a \in Achievement : GameIndicatesProgress(a) => Appends(Callback("progress", a, TRUE))
<1>1. /\ OpTypes /\ held \in Numbers /\ stored \in Numbers /\ theirs \in [Stat -> 0..1]
      /\ got \in Achieved /\ won \in Achieved /\ pipe \in Seq(Message)
      /\ cached \in [StatUsers -> Kept] /\ definitions \in BOOLEAN /\ progress \in Progresses
      /\ astray \subseteq Stat \cup Achievement
  BY StatsTypesParts
<1>2. /\ op' = op /\ (moves' = moves \/ Moves)
      /\ commits' = commits \/ (commits > 0 /\ commits' = commits - 1)
      /\ UNCHANGED <<cached, definitions, progress>>
  BY DEF SteamCommits, SteamRejects, OtherPlays, GameIndicatesProgress, Beside, Outside, queue, shown, steamStats
<1>3. OpTypes' BY <1>1, <1>2, OpStaysTyped
<1>4. SteamRejects => Appends(Callback("stored", None, FALSE))
  <2>1. Callback("stored", None, FALSE) \in Message BY DEF Callback, Message
  <2> QED BY <1>1, <2>1, OneIsAppended DEF SteamRejects
<1>5. \A a \in Achievement : GameIndicatesProgress(a) => Appends(Callback("progress", a, TRUE))
  <2>1. \A a \in Achievement : Callback("progress", a, TRUE) \in Message BY DEF Callback, Message
  <2> QED BY <1>1, <2>1, OneIsAppended DEF GameIndicatesProgress
<1>6. Grows
  <2>1. CASE SteamCommits BY <2>1, CommitIsAnnounced
  <2>2. CASE SteamRejects BY <1>4, <2>2 DEF Appends
  <2>3. CASE \E s \in Stat : OtherPlays(s)
    <3>1. pipe' = pipe BY <2>3 DEF OtherPlays
    <3> QED BY <1>1, <3>1 DEF Grows
  <2>4. CASE \E a \in Achievement : GameIndicatesProgress(a) BY <1>5, <2>4 DEF Appends
  <2> QED BY <2>1, <2>2, <2>3, <2>4
<1>7. pipe' \in Seq(Message) BY <1>6 DEF Grows
<1>8. /\ held' \in Numbers /\ stored' \in Numbers /\ got' \in Achieved /\ won' \in Achieved
      /\ theirs' \in [Stat -> 0..1]
  <2>1. CASE \E s \in Stat : OtherPlays(s)
    <3>1. PICK s \in Stat : theirs' = [theirs EXCEPT ![s] = 1 - theirs[s]] BY <2>1 DEF OtherPlays
    <3>2. theirs[s] \in 0..1 BY <1>1
    <3>3. 1 - theirs[s] \in 0..1 BY <3>2
    <3>4. theirs' \in [Stat -> 0..1] BY <1>1, <3>1, <3>3
    <3> QED BY <1>1, <2>1, <3>4 DEF OtherPlays
  <2>2. CASE ~\E s \in Stat : OtherPlays(s)
    BY <1>1, <2>2 DEF SteamCommits, SteamRejects, GameIndicatesProgress, steamStats
  <2> QED BY <2>1, <2>2
<1>9. astray' \subseteq Stat \cup Achievement
  BY <1>1, DiffersType DEF SteamCommits, SteamRejects, OtherPlays, GameIndicatesProgress
<1> QED BY <1>1, <1>2, <1>3, <1>4, <1>5, <1>6, <1>7, <1>8, <1>9, StatsTypesAfter

-----------------------------------------------------------------------------
(* What is in the pipe, and in which order.                                *)

Says(i, what, a) == pipe[i].what = what /\ pipe[i].about = a

\* One call is under way, and one answer at most is in the pipe.
AnswersAwaited ==
  /\ \A i, j \in 1..Len(pipe) : HasAnswer(i) /\ HasAnswer(j) => i = j
  /\ \A i \in 1..Len(pipe) : HasAnswer(i) => At("told")

\* No progress is announced of what was unlocked, nor after the answer that says it is.
NoProgressAfter ==
  \A a \in Achievement :
    /\ \A i, j \in 1..Len(pipe) : Says(i, "unlocked", a) /\ j > i => ~Says(j, "progress", a)
    /\ \A i, j \in 1..Len(pipe) : HasAnswer(i) /\ j > i /\ Says(j, "progress", a) => ~got[a]

\* What the backend has the client has, and what is announced the backend has.
WonAreGot ==
  \A a \in Achievement :
    /\ won[a] => got[a]
    /\ \A i \in 1..Len(pipe) : Says(i, "unlocked", a) => won[a]

PipeInv == AnswersAwaited /\ NoProgressAfter /\ WonAreGot

LEMMA PipeShrinks ==
  ASSUME PipeInv, pipe' = pipe \/ \E k \in 1..Len(pipe) : Drops(k), UNCHANGED <<got, won>>,
         (\E i \in 1..Len(pipe') : pipe'[i].what = "received") => At("told")'
  PROVE  PipeInv'
<1>1. CASE pipe' = pipe
  BY <1>1 DEF PipeInv, AnswersAwaited, NoProgressAfter, WonAreGot, HasAnswer, Says
<1>2. ASSUME NEW k \in 1..Len(pipe), Drops(k) PROVE PipeInv'
  <2>1. \A i \in 1..Len(pipe') : From(i, k) \in 1..Len(pipe) /\ pipe'[i] = pipe[From(i, k)]
    BY <1>2 DEF Drops
  <2>2. \A i, j \in 1..Len(pipe') : (From(i, k) = From(j, k) => i = j) /\ (j > i => From(j, k) > From(i, k))
    BY DEF From
  <2>3. AnswersAwaited'
    BY <2>1, <2>2 DEF PipeInv, AnswersAwaited, HasAnswer
  <2>4. ASSUME NEW a \in Achievement, NEW i \in 1..Len(pipe'), NEW j \in 1..Len(pipe'), j > i,
               pipe'[j].what = "progress" /\ pipe'[j].about = a
        PROVE  /\ ~(pipe'[i].what = "unlocked" /\ pipe'[i].about = a)
               /\ pipe'[i].what = "received" => ~got'[a]
    <3>1. /\ From(i, k) \in 1..Len(pipe) /\ From(j, k) \in 1..Len(pipe) /\ From(j, k) > From(i, k)
          /\ pipe'[i] = pipe[From(i, k)] /\ pipe'[j] = pipe[From(j, k)]
      BY <2>1, <2>2, <2>4
    <3>2. Says(From(j, k), "progress", a) BY <2>4, <3>1 DEF Says
    <3>3. ~Says(From(i, k), "unlocked", a) /\ (HasAnswer(From(i, k)) => ~got[a])
      BY <3>1, <3>2 DEF PipeInv, NoProgressAfter
    <3> QED BY <3>1, <3>3 DEF Says, HasAnswer
  <2>6. NoProgressAfter' BY <2>4 DEF NoProgressAfter, Says, HasAnswer
  <2>5. WonAreGot'
    BY <2>1 DEF PipeInv, WonAreGot, Says
  <2> QED BY <2>3, <2>5, <2>6 DEF PipeInv
<1> QED BY <1>1, <1>2

\* No call is under way, no answer is in the pipe.
LEMMA NoCallNoAnswer ==
  ASSUME PipeInv, ~At("told")
  PROVE  \A i \in 1..Len(pipe) : ~HasAnswer(i)
BY DEF PipeInv, AnswersAwaited

LEMMA PipeStutters ==
  ASSUME PipeInv, UNCHANGED <<pipe, got, won>>, OfStats \/ (~At("told") /\ ~At("told")') \/ op' = op,
         At("told") => op' = op
  PROVE  PipeInv'
<1>1. (\E i \in 1..Len(pipe') : pipe'[i].what = "received") => At("told")'
  <2>1. CASE At("told")
    <3>1. At("told")' BY <2>1 DEF At
    <3> QED BY <3>1
  <2>2. CASE ~At("told") BY <2>2, NoCallNoAnswer DEF HasAnswer
  <2> QED BY <2>1, <2>2
<1> QED BY <1>1, PipeShrinks

\* The head of the pipe is dispatched: it was the answer, or no operation waits for one.
LEMMA DispatchKeepsPipe ==
  ASSUME PipeInv, Drops(1), UNCHANGED <<got, won>>,
         HasAnswer(1) \/ ~At("told") \/ op' = op
  PROVE  PipeInv'
<1>1. ASSUME NEW i \in 1..Len(pipe'), pipe'[i].what = "received" PROVE At("told")'
  <2>1. From(i, 1) \in 1..Len(pipe) /\ From(i, 1) # 1 /\ HasAnswer(From(i, 1)) /\ 1 \in 1..Len(pipe)
    BY <1>1 DEF Drops, HasAnswer
  <2>2. At("told") /\ ~HasAnswer(1) BY <2>1 DEF PipeInv, AnswersAwaited
  <2> QED BY <2>2 DEF At
<1> QED BY <1>1, PipeShrinks DEF Drops

\* What becomes of the pipe when nobody waits any more.
LEMMA GivenUpKeepsPipe ==
  ASSUME PipeInv, pipe \in Seq(Message), GivenUp, UNCHANGED <<got, won>>
  PROVE  PipeInv' /\ \A i \in 1..Len(pipe') : pipe'[i].what # "received"
<1>1. CASE pipe' = pipe /\ \A i \in 1..Len(pipe) : ~HasAnswer(i)
  BY <1>1, PipeShrinks DEF HasAnswer
<1>2. ASSUME NEW k \in 1..Len(pipe), HasAnswer(k), Drops(k)
      PROVE  PipeInv' /\ \A i \in 1..Len(pipe') : pipe'[i].what # "received"
  <2>1. ASSUME NEW i \in 1..Len(pipe') PROVE pipe'[i].what # "received"
    BY <1>2 DEF Drops, PipeInv, AnswersAwaited, HasAnswer
  <2> QED BY <1>2, <2>1, PipeShrinks
<1> QED BY <1>1, <1>2, AnswerIsDropped

\* A callback that comes is an answer to the call that waits, or progress on what is not
\* unlocked, or the answer to a commit.
LEMMA AppendKeepsPipe ==
  ASSUME PipeInv, NEW m \in Message, Appends(m), won' = won,
         \A a \in Achievement : got'[a] => got[a],
         \A a \in Achievement : won[a] => got'[a],
         m.what # "unlocked",
         \A a \in Achievement : m.what = "progress" /\ m.about = a => ~got[a] /\ ~got'[a],
         m.what = "received" => ~At("told") /\ At("told")',
         m.what # "received" => op' = op
  PROVE  PipeInv'
<1>1. /\ \A i \in 1..Len(pipe) : i \in 1..Len(pipe') /\ pipe'[i] = pipe[i]
      /\ Len(pipe) \in Nat /\ Len(pipe') = Len(pipe) + 1 /\ pipe'[Len(pipe')] = m
  BY DEF Appends, Grows
<1>2. \A i \in 1..Len(pipe') : (i \in 1..Len(pipe) /\ pipe'[i] = pipe[i]) \/ (i = Len(pipe') /\ pipe'[i] = m)
  BY <1>1
<1>3. AnswersAwaited'
  <2>1. m.what = "received" => \A i \in 1..Len(pipe) : pipe[i].what # "received"
    BY NoCallNoAnswer DEF HasAnswer
  <2>2. m.what # "received" => (At("told") <=> At("told")') BY DEF At
  <2> QED BY <1>1, <1>2, <2>1, <2>2 DEF PipeInv, AnswersAwaited, HasAnswer
<1>4. ASSUME NEW a \in Achievement, NEW i \in 1..Len(pipe'), NEW j \in 1..Len(pipe'), j > i,
             pipe'[j].what = "progress" /\ pipe'[j].about = a
      PROVE  /\ ~(pipe'[i].what = "unlocked" /\ pipe'[i].about = a)
             /\ pipe'[i].what = "received" => ~got'[a]
  <2>1. i \in 1..Len(pipe) /\ pipe'[i] = pipe[i] BY <1>1, <1>2, <1>4
  <2>2. CASE j \in 1..Len(pipe) /\ pipe'[j] = pipe[j]
    <3>1. Says(j, "progress", a) BY <1>4, <2>2 DEF Says
    <3>2. ~Says(i, "unlocked", a) /\ (HasAnswer(i) => ~got[a])
      BY <1>4, <2>1, <2>2, <3>1 DEF PipeInv, NoProgressAfter
    <3> QED BY <2>1, <3>2 DEF Says, HasAnswer
  <2>3. CASE pipe'[j] = m
    <3>1. ~got[a] /\ ~got'[a] BY <1>4, <2>3
    <3>2. ~Says(i, "unlocked", a) BY <2>1, <3>1 DEF PipeInv, WonAreGot
    <3> QED BY <2>1, <3>1, <3>2 DEF Says
  <2> QED BY <1>2, <2>2, <2>3
<1>5. NoProgressAfter' BY <1>4 DEF NoProgressAfter, Says, HasAnswer
<1>6. WonAreGot'
  BY <1>2 DEF PipeInv, WonAreGot, Says
<1> QED BY <1>3, <1>5, <1>6 DEF PipeInv

\* What is in the pipe after a commit: what was in it, the answer, and what was unlocked.
LEMMA CommitAdds ==
  ASSUME StatsTypes, SteamCommits, NEW i \in 1..Len(pipe')
  PROVE  \/ i \in 1..Len(pipe) /\ pipe'[i] = pipe[i]
         \/ i = Len(pipe) + 1 /\ pipe'[i] = Callback("stored", None, TRUE)
         \/ i > Len(pipe) + 1 /\ \E a \in New : pipe'[i] = Callback("unlocked", a, TRUE)
<1>1. /\ Len(pipe) \in Nat /\ Len(pipe') \in Nat
      /\ \A j \in 1..Len(pipe) : pipe'[j] = pipe[j]
      /\ pipe'[Len(pipe) + 1] = Callback("stored", None, TRUE)
      /\ \A j \in 1..Len(pipe') : j > Len(pipe) + 1 => \E a \in New : pipe'[j] = Callback("unlocked", a, TRUE)
  BY CommitIsAnnounced DEF Grows
<1>2. i \in 1..Len(pipe) \/ i = Len(pipe) + 1 \/ i > Len(pipe) + 1
  BY <1>1
<1> QED BY <1>1, <1>2

\* A commit that is performed: what the client has the backend has, and it is announced.
LEMMA CommitKeepsPipe ==
  ASSUME StatsTypes, PipeInv, SteamCommits
  PROVE  PipeInv'
<1>1. /\ op' = op /\ got' = got /\ won' = got
  BY DEF SteamCommits, Beside, queue
<1>2. /\ Len(pipe) \in Nat /\ Len(pipe') \in Nat
      /\ \A i \in 1..Len(pipe) : i \in 1..Len(pipe') /\ pipe'[i] = pipe[i]
  BY CommitIsAnnounced DEF Grows
<1>3. ASSUME NEW i \in 1..Len(pipe')
      PROVE  \/ i \in 1..Len(pipe) /\ pipe'[i] = pipe[i]
             \/ i > Len(pipe) /\ pipe'[i].what = "stored"
             \/ i > Len(pipe) /\ pipe'[i].what = "unlocked" /\ \E a \in New : pipe'[i].about = a
  <2>1. CASE i \in 1..Len(pipe) /\ pipe'[i] = pipe[i] BY <2>1
  <2>2. CASE i = Len(pipe) + 1 /\ pipe'[i] = Callback("stored", None, TRUE)
    <3>1. pipe'[i].what = "stored" BY <2>2 DEF Callback
    <3> QED BY <1>2, <2>2, <3>1 DEF Callback
  <2>3. ASSUME i > Len(pipe) + 1, NEW a \in New, pipe'[i] = Callback("unlocked", a, TRUE)
        PROVE  i > Len(pipe) /\ pipe'[i].what = "unlocked" /\ pipe'[i].about = a
    <3>1. pipe'[i].what = "unlocked" /\ pipe'[i].about = a BY <2>3 DEF Callback
    <3> QED BY <1>2, <2>3, <3>1 DEF Callback
  <2> QED BY <2>1, <2>2, <2>3, CommitAdds
<1>4. AnswersAwaited'
  BY <1>1, <1>3 DEF PipeInv, AnswersAwaited, HasAnswer, At
<1>5. ASSUME NEW a \in Achievement, NEW i \in 1..Len(pipe'), NEW j \in 1..Len(pipe'), j > i,
             pipe'[j].what = "progress" /\ pipe'[j].about = a
      PROVE  /\ ~(pipe'[i].what = "unlocked" /\ pipe'[i].about = a)
             /\ pipe'[i].what = "received" => ~got'[a]
  <2>1. j \in 1..Len(pipe) /\ pipe'[j] = pipe[j] BY <1>3, <1>5
  <2>2. i \in 1..Len(pipe) /\ pipe'[i] = pipe[i] BY <1>2, <1>5, <2>1
  <2>3. Says(j, "progress", a) BY <1>5, <2>1 DEF Says
  <2>4. ~Says(i, "unlocked", a) /\ (HasAnswer(i) => ~got[a])
    BY <1>5, <2>1, <2>2, <2>3 DEF PipeInv, NoProgressAfter
  <2> QED BY <1>1, <2>2, <2>4 DEF Says, HasAnswer
<1>6. NoProgressAfter' BY <1>5 DEF NoProgressAfter, Says, HasAnswer
<1>7. WonAreGot'
  <2>1. ASSUME NEW a \in Achievement, NEW i \in 1..Len(pipe'), pipe'[i].what = "unlocked", pipe'[i].about = a
        PROVE  got[a]
    <3>1. CASE i \in 1..Len(pipe) /\ pipe'[i] = pipe[i]
      BY <2>1, <3>1 DEF PipeInv, WonAreGot, Says
    <3>2. CASE \E b \in New : pipe'[i].about = b BY <2>1, <3>2 DEF New
    <3> QED BY <1>3, <2>1, <3>1, <3>2
  <2> QED BY <1>1, <2>1 DEF WonAreGot, Says
<1> QED BY <1>4, <1>6, <1>7 DEF PipeInv

LEMMA RejectKeepsPipe ==
  ASSUME StatsTypes, PipeInv, SteamRejects
  PROVE  PipeInv'
<1>1. op' = op /\ got' = won /\ won' = won BY DEF SteamRejects, Beside, queue
<1>2. Appends(Callback("stored", None, FALSE)) BY BesideTyped
<1> DEFINE m == Callback("stored", None, FALSE)
<1>3. m \in Message /\ m.what = "stored" BY DEF Callback, Message
<1> HIDE DEF m
<1>4. \A a \in Achievement : won[a] => got[a] BY DEF PipeInv, WonAreGot
<1> QED BY <1>1, <1>2, <1>3, <1>4, AppendKeepsPipe DEF m

LEMMA ProgressKeepsPipe ==
  ASSUME StatsTypes, PipeInv, NEW a \in Achievement, GameIndicatesProgress(a)
  PROVE  PipeInv'
<1>1. op' = op /\ ~got[a] /\ UNCHANGED <<got, won>>
  BY DEF GameIndicatesProgress, Outside, steamStats
<1>2. Appends(Callback("progress", a, TRUE)) BY BesideTyped
<1> DEFINE m == Callback("progress", a, TRUE)
<1>3. m \in Message /\ m.what = "progress" /\ m.about = a BY DEF Callback, Message
<1> HIDE DEF m
<1>4. \A b \in Achievement : won[b] => got[b] BY DEF PipeInv, WonAreGot
<1> QED BY <1>1, <1>2, <1>3, <1>4, AppendKeepsPipe DEF m

LEMMA AnswerKeepsPipe ==
  ASSUME StatsTypes, PipeInv, NEW ok \in BOOLEAN, SteamSendsStats(ok)
  PROVE  PipeInv'
<1> DEFINE m == Callback("received", None, ok)
<1>1. m \in Message /\ m.what = "received" BY DEF Callback, Message
<1>2. Appends(m) /\ UNCHANGED <<got, won>> /\ ~At("told") /\ At("told")'
  BY SteamSendsTyped DEF steamStats
<1> HIDE DEF m
<1>3. \A b \in Achievement : won[b] => got[b] BY DEF PipeInv, WonAreGot
<1> QED BY <1>1, <1>2, <1>3, AppendKeepsPipe

\* Achievements are set while no call is under way.
LEMMA UnlockKeepsPipe ==
  ASSUME PipeInv, StatsTypes, op = None, ~At("told")', pipe' = pipe, won' = won,
         \A a \in Achievement : got[a] => got'[a]
  PROVE  PipeInv'
<1>1. \A i \in 1..Len(pipe) : ~HasAnswer(i) BY NoCallNoAnswer DEF At
<1> QED BY <1>1 DEF PipeInv, AnswersAwaited, NoProgressAfter, WonAreGot, HasAnswer, Says

LEMMA PipeStep ==
  ASSUME StatsTypes, PipeInv, StatsNext
  PROVE  PipeInv'
<1>1. CASE \/ \E amounts \in Amounts : UpdateStats(amounts)
           \/ \E targets \in Targets, names \in SUBSET Stat \ {{}} : QueryStats(targets, names)
           \/ QueryAchievementDefinitions \/ QueryAchievementStates
  <2>1. ~At("told")' /\ op = None /\ UNCHANGED statVars BY <1>1, TypesHaveOps, QueriesBegin
  <2> QED BY <2>1, PipeStutters DEF At, statVars, steamStats
<1>2. CASE StatsWritten
  <2>1. Drops(1) /\ HasAnswer(1) /\ UNCHANGED <<got, won>>
    <3>1. pipe \in Seq(Message) /\ IsNext("received")
      BY <1>2 DEF StatsTypes, StatsTypeOK, Message, StatsWritten, Answered
    <3> QED BY <1>2, <3>1, HeadIsDropped DEF StatsWritten, HasAnswer
  <2> QED BY <2>1, DispatchKeepsPipe
<1>3. CASE StatsWrittenInPart \/ StoreRefused \/ StatsCommitted \/ StatsRejected
  <2>1. Drops(1) /\ UNCHANGED <<got, won>> BY <1>3, UpdateEndsTyped
  <2>2. HasAnswer(1) \/ ~At("told")
    <3>1. pipe \in Seq(Message) BY DEF StatsTypes, StatsTypeOK, Message
    <3>2. IsNext("received") \/ At("storing")
      BY <1>3 DEF StatsWrittenInPart, StoreRefused, StatsCommitted, StatsRejected, Answered, Committed
    <3> QED BY <3>1, <3>2, HeadIsDropped DEF HasAnswer, At
  <2> QED BY <2>1, <2>2, DispatchKeepsPipe
<1>4. CASE StatsRead
  <2>1. Drops(1) /\ UNCHANGED <<got, won>> BY <1>4, StatsReadTyped DEF steamStats
  <2>2. HasAnswer(1)
    <3>1. pipe \in Seq(Message) /\ IsNext("received")
      BY <1>4 DEF StatsTypes, StatsTypeOK, Message, StatsRead, Answered
    <3> QED BY <3>1, HeadIsDropped DEF HasAnswer
  <2> QED BY <2>1, <2>2, DispatchKeepsPipe
<1>5. CASE ResetStats \/ \E ids \in SUBSET Achievement : UnlockAchievements(ids)
  <2>1. op = None /\ ~At("told")' BY <1>5, SetTyped
  <2>2. pipe' = pipe /\ won' = won /\ \A a \in Achievement : got[a] => got'[a]
    BY <1>5 DEF ResetStats, UnlockAchievements
  <2> QED BY <2>1, <2>2, UnlockKeepsPipe
<1>6. CASE StatsReset \/ DefinitionsRead \/ StatesRead \/ AchievementsCommitted
           \/ OnUserAchievementStored \/ StatsCallFails \/ StoredUnheard
  <2>1. Drops(1) /\ UNCHANGED <<got, won>> BY <1>6, AnsweredTyped DEF steamStats
  <2>2. HasAnswer(1) \/ ~At("told") \/ op' = op
    <3>1. pipe \in Seq(Message) BY DEF StatsTypes, StatsTypeOK, Message
    <3>2. IsNext("received") \/ At("storing") \/ op' = op
      BY <1>6 DEF StatsReset, DefinitionsRead, StatesRead, AchievementsCommitted, OnUserAchievementStored,
                  StatsCallFails, StoredUnheard, Answered, Committed, Beside, queue
    <3> QED BY <3>1, <3>2, HeadIsDropped DEF HasAnswer, At
  <2> QED BY <2>1, <2>2, DispatchKeepsPipe
<1>7. CASE StatsTimeOut
  <2>1. pipe \in Seq(Message) /\ GivenUp /\ UNCHANGED <<got, won>>
    BY <1>7 DEF StatsTypes, StatsTypeOK, Message, StatsTimeOut, steamStats
  <2> QED BY <2>1, GivenUpKeepsPipe
<1>8. CASE \E s \in Stat : OtherPlays(s)
  <2>1. op' = op /\ UNCHANGED <<pipe, got, won>> BY <1>8 DEF OtherPlays, Outside
  <2> QED BY <2>1, PipeStutters
<1> QED BY <1>1, <1>2, <1>3, <1>4, <1>5, <1>6, <1>7, <1>8,
           AnswerKeepsPipe, CommitKeepsPipe, RejectKeepsPipe, ProgressKeepsPipe DEF StatsNext

-----------------------------------------------------------------------------
(* What the game is shown of the statistics.                               *)

Updating == Runs("UpdateStats") /\ At("storing")
Resetting == Runs("ResetStats") /\ At("storing")
Unlocking == Runs("Unlock") /\ At("storing")

\* A rejection is on its way; the last answer to a commit on its way is one.
Refusal(i) == pipe[i].what = "stored" /\ ~pipe[i].ok
Refused == \E i \in 1..Len(pipe) : Refusal(i)
LastRefused ==
  \E i \in 1..Len(pipe) : Refusal(i) /\ \A j \in 1..Len(pipe) : j > i => pipe[j].what # "stored"

StatDiffers(s) == cached[Me][s] # Unread /\ ToSteam(cached[Me][s]) # held[s]

\* A statistic that is shown otherwise than Steam holds it is one whose update or reset
\* awaits the answer, or a failure left it so.
StatsShown ==
  \A s \in Stat \ astray : StatDiffers(s) => (Updating /\ s \in DOMAIN op.with) \/ Resetting

\* What the update that waits wrote Steam holds, or a rejection is on its way.
UpdateIsHeld == Updating => Refused \/ \A s \in DOMAIN op.with : held[s] = ToSteam(op.with[s])

\* A reset whose commit was rejected, and no other has been answered since.
ResetIsOver ==
  Resetting /\ commits = 0 /\ LastRefused => \A s \in Stat \ astray : ~StatDiffers(s)

ShownInv == StatsShown /\ UpdateIsHeld /\ ResetIsOver

\* No update and no reset waits.
LEMMA ShownAtRest ==
  ASSUME ~Updating', ~Resetting', \A s \in Stat \ astray' : ~StatDiffers(s)'
  PROVE  ShownInv'
BY DEF ShownInv, StatsShown, UpdateIsHeld, ResetIsOver

LEMMA AtRestShown ==
  ASSUME ShownInv, ~Updating, ~Resetting
  PROVE  \A s \in Stat \ astray : ~StatDiffers(s)
BY DEF ShownInv, StatsShown

\* Callbacks other than answers to commits come and go.
LEMMA RefusalsPass ==
  ASSUME pipe \in Seq(Message),
         \/ pipe' = pipe
         \/ \E k \in 1..Len(pipe) : Drops(k) /\ pipe[k].what # "stored"
         \/ Appends(pipe'[Len(pipe')]) /\ pipe'[Len(pipe')].what # "stored"
  PROVE  (Refused <=> Refused') /\ (LastRefused' => LastRefused)
<1>1. CASE pipe' = pipe BY <1>1 DEF Refused, LastRefused, Refusal
<1>2. ASSUME NEW k \in 1..Len(pipe), Drops(k), pipe[k].what # "stored"
      PROVE  (Refused <=> Refused') /\ (LastRefused' => LastRefused)
  <2>1. /\ \A i \in 1..Len(pipe') : From(i, k) \in 1..Len(pipe) /\ pipe'[i] = pipe[From(i, k)]
        /\ \A i \in 1..Len(pipe) : i # k => Into(i, k) \in 1..Len(pipe') /\ pipe'[Into(i, k)] = pipe[i]
    BY <1>2 DEF Drops
  <2>2. Refused' => Refused BY <2>1 DEF Refused, Refusal
  <2>3. Refused => Refused' BY <1>2, <2>1 DEF Refused, Refusal
  <2>4. ASSUME NEW i \in 1..Len(pipe'), pipe'[i].what = "stored", ~pipe'[i].ok,
               \A j \in 1..Len(pipe') : j > i => pipe'[j].what # "stored"
        PROVE  LastRefused
    <3>1. From(i, k) \in 1..Len(pipe) /\ Refusal(From(i, k)) BY <2>1, <2>4 DEF Refusal
    <3>2. ASSUME NEW j \in 1..Len(pipe), j > From(i, k), pipe[j].what = "stored" PROVE FALSE
      <4>1. j # k BY <1>2, <3>2
      <4>2. Into(j, k) > i BY <3>2, <4>1 DEF From, Into
      <4> QED BY <2>1, <2>4, <3>2, <4>1, <4>2
    <3> QED BY <3>1, <3>2 DEF LastRefused
  <2>5. LastRefused' => LastRefused BY <2>4 DEF LastRefused, Refusal
  <2> QED BY <2>2, <2>3, <2>5
<1>3. CASE Appends(pipe'[Len(pipe')]) /\ pipe'[Len(pipe')].what # "stored"
  <2>1. /\ \A i \in 1..Len(pipe) : i \in 1..Len(pipe') /\ pipe'[i] = pipe[i]
        /\ \A i \in 1..Len(pipe') : i \in 1..Len(pipe) \/ i = Len(pipe')
    BY <1>3 DEF Appends, Grows
  <2>2. (Refused <=> Refused') BY <1>3, <2>1 DEF Refused, Refusal
  <2>3. ASSUME NEW i \in 1..Len(pipe'), pipe'[i].what = "stored", ~pipe'[i].ok,
               \A j \in 1..Len(pipe') : j > i => pipe'[j].what # "stored"
        PROVE  LastRefused
    <3>1. i \in 1..Len(pipe) /\ Refusal(i) BY <1>3, <2>1, <2>3 DEF Refusal
    <3>2. \A j \in 1..Len(pipe) : j > i => pipe[j].what # "stored" BY <2>1, <2>3
    <3> QED BY <3>1, <3>2 DEF LastRefused
  <2>4. LastRefused' => LastRefused BY <2>3 DEF LastRefused, Refusal
  <2> QED BY <2>2, <2>4
<1> QED BY <1>1, <1>2, <1>3

\* Nothing that is shown, and nothing an operation waits for, is changed.
LEMMA ShownStays ==
  ASSUME ShownInv, op' = op, commits' = commits, UNCHANGED <<cached, held>>, astray \subseteq astray',
         Refused => Refused', LastRefused' => LastRefused
  PROVE  ShownInv'
BY DEF ShownInv, StatsShown, UpdateIsHeld, ResetIsOver, StatDiffers, Updating, Resetting, Runs, At

\* An operation that does not commit statistics begins, goes on or ends.
LEMMA ShownAside ==
  ASSUME ShownInv, ~Updating, ~Resetting, ~Updating', ~Resetting', UNCHANGED <<cached, held>>, astray \subseteq astray'
  PROVE  ShownInv'
<1>1. \A s \in Stat \ astray' : ~StatDiffers(s)' BY AtRestShown DEF StatDiffers
<1> QED BY <1>1, ShownAtRest

\* What Steam holds may be shown as it is.
LEMMA HeldIsShown ==
  ASSUME NEW h \in Numbers, NEW s \in Stat
  PROVE  ToSteam(h[s]) = h[s]
BY TopType DEF Numbers, ToSteam

\* A failure leaves apart whatever it leaves apart.
LEMMA AstrayCovers ==
  ASSUME NEW s \in Stat, StatDiffers(s)'
  PROVE  s \in Differs(cached', progress', held', got')
BY DEF StatDiffers, Differs

\* Which parts of the statistics a step leaves.
LEMMA NothingWaits == op = None => ~Updating /\ ~Resetting /\ ~Unlocking
BY DEF Updating, Resetting, Unlocking, Runs

LEMMA NothingWaitsThen == (op' = None \/ ~At("storing")') => ~Updating' /\ ~Resetting' /\ ~Unlocking'
BY DEF Updating, Resetting, Unlocking, Runs, At

LEMMA PipeType == StatsTypes => /\ pipe \in Seq(Message) /\ cached \in [StatUsers -> Kept]
                                /\ held \in Numbers /\ got \in Achieved /\ won \in Achieved
                                /\ progress \in Progresses /\ commits \in Nat
BY StatsTypesParts, TypesHaveOps DEF OpTypes

\* An update writes its numbers, clamped, and waits for the commit.
LEMMA WrittenShown ==
  ASSUME StatsTypes, ShownInv, StatsWritten
  PROVE  ShownInv'
<1>1. /\ Updating' /\ ~Resetting' /\ op'.with = Folded(DOMAIN op.with) /\ DOMAIN op'.with = DOMAIN op.with
      /\ op \in UpdateOps /\ Owed
  <2>1. /\ op' \in UpdateOps /\ op' # None /\ op'.step = "storing"
        /\ op'.with = Folded(DOMAIN op.with) /\ DOMAIN op'.with = DOMAIN op.with
        /\ op \in UpdateOps /\ Owed
    BY StatsWrittenTyped
  <2>2. op'.do = "UpdateStats" BY <2>1 DEF UpdateOps
  <2> QED BY <2>1, <2>2 DEF Updating, Resetting, Runs, At
<1>2. /\ ~Updating /\ ~Resetting /\ UNCHANGED <<cached, astray>>
      /\ held' = [s \in Stat |-> IF s \in DOMAIN op.with THEN ToSteam(Folded(DOMAIN op.with)[s]) ELSE held[s]]
  BY DEF StatsWritten, Answered, At, Updating, Resetting, WriteUserStats, shown
<1>3. \A s \in Stat \ astray' : StatDiffers(s)' => s \in DOMAIN op'.with
  BY <1>1, <1>2, AtRestShown DEF StatDiffers
<1>4. \A s \in DOMAIN op'.with : held'[s] = ToSteam(op'.with[s])
  <2>1. DOMAIN op.with \subseteq Stat BY <1>1, UpdateCarries
  <2> QED BY <1>1, <1>2, <2>1
<1> QED BY <1>1, <1>3, <1>4 DEF ShownInv, StatsShown, UpdateIsHeld, ResetIsOver

\* Some of an update's numbers are written: what is shown otherwise is left so.
LEMMA PartShown ==
  ASSUME StatsTypes, ShownInv, StatsWrittenInPart
  PROVE  ShownInv'
<1>1. op' = None /\ astray' = astray \cup Differs(cached', progress', held', got')
  BY DEF StatsWrittenInPart, Ends, GoesAstray
<1>2. \A s \in Stat \ astray' : ~StatDiffers(s)' BY <1>1, AstrayCovers
<1> QED BY <1>1, <1>2, NothingWaitsThen, ShownAtRest

\* The statistics of a failed update are read again, and the others were not apart.
LEMMA AgainShown ==
  ASSUME StatsTypes, StatsTypes', ShownInv, op' = None, op \in UpdateOps, ReadAgain(DOMAIN op.with),
         astray' = astray, ~Resetting,
         \A s \in Stat : s \notin DOMAIN op.with => held'[s] = held[s]
  PROVE  ShownInv'
<1>1. held' \in Numbers
  <2>1. StatsTypeOK' BY DEF StatsTypes
  <2> QED BY <2>1 DEF StatsTypeOK, Numbers
<1>2. DOMAIN op.with \in SUBSET Stat BY UpdateCarries
<1>3. \A s \in Stat : cached'[Me][s] = IF s \in DOMAIN op.with THEN held'[s] ELSE cached[Me][s]
  BY <1>1, <1>2, PipeType, ReadAgainType
<1>4. ASSUME NEW s \in Stat \ astray' PROVE ~StatDiffers(s)'
  <2>1. CASE s \in DOMAIN op.with
    <3>1. cached'[Me][s] = held'[s] BY <1>3, <2>1
    <3>2. ToSteam(held'[s]) = held'[s] BY <1>1, HeldIsShown
    <3> QED BY <3>1, <3>2 DEF StatDiffers
  <2>2. CASE s \notin DOMAIN op.with
    <3>1. ~StatDiffers(s) BY <2>2 DEF ShownInv, StatsShown
    <3>2. cached'[Me][s] = cached[Me][s] /\ held'[s] = held[s] BY <1>3, <2>2
    <3> QED BY <3>1, <3>2 DEF StatDiffers
  <2> QED BY <2>1, <2>2
<1> QED BY <1>4, NothingWaitsThen, ShownAtRest

LEMMA RefusedShown ==
  ASSUME StatsTypes, ShownInv, StoreRefused \/ StatsRejected
  PROVE  ShownInv'
<1>1. StatsTypes' /\ op' = None /\ op \in UpdateOps BY UpdateEndsTyped
<1>2. ReadAgain(DOMAIN op.with) /\ astray' = astray BY DEF StoreRefused, StatsRejected
<1>3. ~Resetting BY <1>1 DEF Resetting, Runs, UpdateOps
<1>4. \A s \in Stat : s \notin DOMAIN op.with => held'[s] = held[s]
  BY DEF StoreRefused, StatsRejected, WriteUserStats, steamStats
<1> QED BY <1>1, <1>2, <1>3, <1>4, AgainShown

\* The answer to a commit is at the head of the pipe.
LEMMA CommitHead ==
  ASSUME pipe \in Seq(Message), commits \in Nat, NEW do, NEW ok \in BOOLEAN, Committed(do, ok)
  PROVE  /\ Drops(1) /\ 1 \in 1..Len(pipe) /\ pipe[1].what = "stored" /\ pipe[1].ok = ok
         /\ ~AnothersAnswer => commits = 0
         /\ ~AnothersAnswer => \A i \in 1..Len(pipe) : pipe[i].what = "stored" => i = 1
<1>1. Drops(1) /\ 1 \in 1..Len(pipe) /\ Head(pipe) = pipe[1] /\ pipe[1].what = "stored"
  BY HeadIsDropped DEF Committed
<1>2. pipe[1].ok = ok BY <1>1 DEF Committed
<1>3. \A i \in 1..Len(pipe) : i = 1 \/ i \in 2..Len(pipe) OBVIOUS
<1> QED BY <1>1, <1>2, <1>3 DEF AnothersAnswer

\* A commit's answer is taken: it is one's own, or what was written is doubted.
LEMMA CommittedShown ==
  ASSUME StatsTypes, ShownInv, StatsCommitted
  PROVE  ShownInv'
<1>1. op' = None /\ op \in UpdateOps /\ pipe \in Seq(Message) /\ cached \in [StatUsers -> Kept]
      /\ commits \in Nat
  BY UpdateEndsTyped, PipeType
<1>2. /\ Updating /\ ~Resetting /\ held' = held /\ CacheUserStats(Me, op.with)
      /\ Believes(DOMAIN op.with) /\ Committed("UpdateStats", TRUE)
  BY <1>1 DEF StatsCommitted, Committed, Updating, Resetting, Runs, UpdateOps, steamStats
<1>3. \A s \in Stat : cached'[Me][s] = IF s \in DOMAIN op.with THEN op.with[s] ELSE cached[Me][s]
  <2>1. \A s \in DOMAIN op.with : s \in Stat => op.with[s] \in 0..2 * Top BY <1>1, UpdateCarries
  <2>2. Me \in StatUsers BY DEF StatUsers
  <2>3. cached'[Me] = [s \in Stat |-> IF s \in DOMAIN op.with THEN op.with[s] ELSE cached[Me][s]]
    BY <1>1, <1>2, <2>1, <2>2, CacheType
  <2> QED BY <2>3
<1>4. AnothersAnswer \/ \A s \in DOMAIN op.with : held[s] = ToSteam(op.with[s])
  <2>1. /\ pipe[1].ok
        /\ ~AnothersAnswer => \A i \in 1..Len(pipe) : pipe[i].what = "stored" => i = 1
    BY <1>1, <1>2, CommitHead
  <2>2. Refused => AnothersAnswer BY <2>1 DEF Refused, Refusal
  <2> QED BY <1>2, <2>2 DEF ShownInv, UpdateIsHeld
<1>5. ASSUME NEW s \in Stat \ astray' PROVE ~StatDiffers(s)'
  <2>1. s \in Stat \ astray /\ (s \in DOMAIN op.with => ~AnothersAnswer) BY <1>2 DEF Believes
  <2>2. CASE s \in DOMAIN op.with
    BY <1>2, <1>3, <1>4, <2>1, <2>2 DEF StatDiffers
  <2>3. CASE s \notin DOMAIN op.with
    <3>1. ~StatDiffers(s) BY <1>2, <2>1, <2>3 DEF ShownInv, StatsShown
    <3> QED BY <1>2, <1>3, <2>1, <2>3, <3>1 DEF StatDiffers
  <2> QED BY <2>2, <2>3
<1> QED BY <1>1, <1>5, NothingWaitsThen, ShownAtRest

\* A reset sets everything to nought, and waits; where the commit was refused it is left apart.
LEMMA ResetShown ==
  ASSUME StatsTypes, ShownInv, ResetStats
  PROVE  ShownInv'
<1>1. CASE Begins([do |-> "ResetStats", step |-> "storing"]) /\ StoreStats
  <2>1. op' = [do |-> "ResetStats", step |-> "storing"] /\ op' # None
    BY <1>1, TypesHaveOps, ResetBegins DEF Begins, StoreStats
  <2>2. Resetting' /\ ~Updating' BY <2>1 DEF Resetting, Updating, Runs, At
  <2>3. commits' # 0 BY <1>1, PipeType DEF StoreStats
  <2> QED BY <2>2, <2>3 DEF ShownInv, StatsShown, UpdateIsHeld, ResetIsOver
<1>2. CASE AtOnce /\ GoesAstray
  <2>1. op' = None BY <1>2 DEF AtOnce, Free, Outside
  <2>2. \A s \in Stat \ astray' : ~StatDiffers(s)' BY <1>2, AstrayCovers DEF GoesAstray
  <2> QED BY <2>1, <2>2, NothingWaitsThen, ShownAtRest
<1> QED BY <1>1, <1>2 DEF ResetStats

\* The answer to a reset: nothing of the local user's is kept any more.
LEMMA ForgottenShown ==
  ASSUME op' = None, cached' = [u \in StatUsers |-> [s \in Stat |-> Unread]]
         \/ (cached \in [StatUsers -> Kept] /\ cached' = [cached EXCEPT ![Me] = [s \in Stat |-> Unread]])
  PROVE  ShownInv'
<1>1. Me \in StatUsers BY DEF StatUsers
<1>2. \A s \in Stat : cached'[Me][s] = Unread BY <1>1
<1>3. \A s \in Stat \ astray' : ~StatDiffers(s)' BY <1>2 DEF StatDiffers
<1> QED BY <1>3, NothingWaitsThen, ShownAtRest

\* A call that comes to nothing: of a reset whose answer may be another's all is doubted.
LEMMA FailsShown ==
  ASSUME StatsTypes, ShownInv, StatsCallFails
  PROVE  ShownInv'
<1>1. /\ op' = None /\ UNCHANGED <<cached, held>> /\ pipe \in Seq(Message) /\ commits \in Nat
      /\ Believes(IF Runs("ResetStats") THEN Stat ELSE {}) /\ astray \subseteq astray'
  BY PipeType DEF StatsCallFails, Ends, Believes, steamStats, shown
<1>2. CASE ~Updating /\ ~Resetting BY <1>1, <1>2, NothingWaitsThen, ShownAside
<1>3. CASE Committed("ResetStats", FALSE)
  <2>1. Runs("ResetStats") /\ Resetting BY <1>3 DEF Committed, Resetting
  <2>2. CASE AnothersAnswer
    <3>1. Stat \subseteq astray' BY <1>1, <2>1, <2>2 DEF Believes
    <3> QED BY <1>1, <3>1, NothingWaitsThen, ShownAtRest
  <2>3. CASE ~AnothersAnswer
    <3>1. /\ 1 \in 1..Len(pipe) /\ pipe[1].what = "stored" /\ pipe[1].ok = FALSE /\ commits = 0
          /\ \A i \in 1..Len(pipe) : pipe[i].what = "stored" => i = 1
      BY <1>1, <1>3, <2>3, CommitHead
    <3>2. LastRefused BY <3>1 DEF LastRefused, Refusal
    <3>3. \A s \in Stat \ astray : ~StatDiffers(s) BY <2>1, <3>1, <3>2 DEF ShownInv, ResetIsOver
    <3>4. \A s \in Stat \ astray' : ~StatDiffers(s)' BY <1>1, <3>3 DEF StatDiffers
    <3> QED BY <1>1, <3>4, NothingWaitsThen, ShownAtRest
  <2> QED BY <2>2, <2>3
<1>4. (~Updating /\ ~Resetting) \/ Committed("ResetStats", FALSE)
  BY DEF StatsCallFails, Updating, Resetting, At, Committed, Runs
<1> QED BY <1>2, <1>3, <1>4

\* An operation that is given up on.
LEMMA GivenUpShown ==
  ASSUME StatsTypes, ShownInv, StatsTimeOut
  PROVE  ShownInv'
<1>1. op' = None /\ UNCHANGED <<held>> /\ StatsTypes' BY StatsTimeOutTyped DEF StatsTimeOut, Ends, steamStats
<1>2. CASE Updating
  <2>1. ~Resetting /\ astray' = astray /\ ReadAgain(DOMAIN op.with) /\ op \in UpdateOps
    BY <1>2, OpsOfStats DEF StatsTimeOut, Updating, Resetting, Runs, StatsTypes
  <2> QED BY <1>1, <2>1, AgainShown
<1>3. CASE Runs("ResetStats")
  <2>1. \A s \in Stat \ astray' : ~StatDiffers(s)' BY <1>3, AstrayCovers DEF StatsTimeOut, GoesAstray
  <2> QED BY <1>1, <2>1, NothingWaitsThen, ShownAtRest
<1>4. CASE ~Updating /\ ~Runs("ResetStats")
  <2>1. ~Resetting /\ astray' = astray /\ cached' = cached
    BY <1>4 DEF StatsTimeOut, Resetting, Updating
  <2> QED BY <1>1, <1>4, <2>1, NothingWaitsThen, ShownAside
<1> QED BY <1>2, <1>3, <1>4

\* A statistic is read.
LEMMA ReadShown ==
  ASSUME StatsTypes, ShownInv, StatsRead
  PROVE  ShownInv'
<1>1. /\ ~At("storing")' /\ astray' = astray /\ held' = held /\ held \in Numbers
      /\ \A s \in Stat : cached'[Me][s] \in {cached[Me][s], held[s]}
  BY StatsReadTyped, PipeType DEF steamStats
<1>2. ~Updating /\ ~Resetting BY DEF StatsRead, Answered, At, Updating, Resetting
<1>3. \A s \in Stat : ToSteam(held[s]) = held[s] BY <1>1, HeldIsShown
<1>4. \A s \in Stat \ astray' : ~StatDiffers(s)'
  BY <1>1, <1>2, <1>3, AtRestShown DEF StatDiffers
<1> QED BY <1>1, <1>4, NothingWaitsThen, ShownAtRest

\* Steam performs a commit: all it holds is the backend's.
LEMMA CommitShown ==
  ASSUME StatsTypes, ShownInv, SteamCommits
  PROVE  ShownInv'
<1>1. /\ op' = op /\ UNCHANGED <<cached, held, astray>> BY DEF SteamCommits, Beside, queue, shown
<1>2. /\ Len(pipe) \in Nat /\ Len(pipe) + 1 \in 1..Len(pipe')
      /\ \A i \in 1..Len(pipe) : i \in 1..Len(pipe') /\ pipe'[i] = pipe[i]
      /\ pipe'[Len(pipe) + 1] = Callback("stored", None, TRUE)
  BY CommitIsAnnounced DEF Grows
<1>3. Refused => Refused' BY <1>2 DEF Refused, Refusal
<1>4. ~LastRefused'
  <2> SUFFICES ASSUME NEW i \in 1..Len(pipe'), pipe'[i].what = "stored", ~pipe'[i].ok,
                      \A j \in 1..Len(pipe') : j > i => pipe'[j].what # "stored"
               PROVE  FALSE
    BY DEF LastRefused, Refusal
  <2>1. pipe'[Len(pipe) + 1].what = "stored" /\ pipe'[Len(pipe) + 1].ok BY <1>2 DEF Callback
  <2>2. ~(Len(pipe) + 1 > i) /\ i # Len(pipe) + 1 BY <1>2, <2>1
  <2>3. i > Len(pipe) + 1 BY <1>2, <2>2
  <2>4. \E a \in New : pipe'[i] = Callback("unlocked", a, TRUE) BY <2>3, CommitIsAnnounced
  <2> QED BY <2>4 DEF Callback
<1> QED BY <1>1, <1>3, <1>4 DEF ShownInv, StatsShown, UpdateIsHeld, ResetIsOver, StatDiffers,
                               Updating, Resetting, Runs, At

\* Steam rejects a commit: the update that waits reads its numbers again, the rest is apart.
LEMMA RejectShown ==
  ASSUME StatsTypes, ShownInv, SteamRejects
  PROVE  ShownInv'
<1>1. /\ op' = op /\ cached' = cached /\ progress' = progress
      /\ astray' = astray \cup (Differs(cached, progress, held', got')
                                  \ (IF AwaitsTheAnswer THEN DOMAIN op.with ELSE {}))
  BY DEF SteamRejects, Beside, queue, shown
<1>2. \A s \in Stat \ astray' : StatDiffers(s)' => AwaitsTheAnswer /\ s \in DOMAIN op.with
  BY <1>1, AstrayCovers
<1>3. AwaitsTheAnswer => Updating' /\ ~Resetting' /\ Updating
  BY <1>1 DEF AwaitsTheAnswer, Updating, Resetting, Runs, At
<1>4. Refused'
  <2>1. Len(pipe') \in 1..Len(pipe') /\ pipe'[Len(pipe')] = Callback("stored", None, FALSE)
    BY BesideTyped DEF Appends
  <2>2. Len(pipe') \in 1..Len(pipe') /\ pipe'[Len(pipe')].what = "stored" /\ ~pipe'[Len(pipe')].ok
    BY <2>1 DEF Callback
  <2> QED BY <2>2 DEF Refused, Refusal
<1> QED BY <1>1, <1>2, <1>3, <1>4 DEF ShownInv, StatsShown, UpdateIsHeld, ResetIsOver

\* Callbacks that are no answers to commits, and answers nobody waits for.
LEMMA AnnouncedShown ==
  ASSUME StatsTypes, ShownInv, OnUserAchievementStored \/ StoredUnheard
  PROVE  ShownInv'
<1>1. op' = op /\ commits' = commits /\ UNCHANGED <<cached, held, astray>> /\ pipe \in Seq(Message)
  BY PipeType DEF OnUserAchievementStored, StoredUnheard, Beside, queue, steamStats, shown
<1>2. CASE OnUserAchievementStored
  <2>1. IsNext("unlocked") \/ IsNext("progress") BY <1>2 DEF OnUserAchievementStored
  <2>2. 1 \in 1..Len(pipe) /\ Drops(1) /\ pipe[1].what # "stored" BY <1>1, <2>1, HeadIsDropped
  <2>3. (Refused => Refused') /\ (LastRefused' => LastRefused) BY <1>1, <2>2, RefusalsPass
  <2> QED BY <1>1, <2>3, ShownStays
<1>3. CASE StoredUnheard
  <2>1. ~Updating /\ ~Resetting BY <1>3 DEF StoredUnheard, Updating, Resetting
  <2>2. ~Updating' /\ ~Resetting' BY <1>1, <2>1 DEF Updating, Resetting, Runs, At
  <2> QED BY <1>1, <2>1, <2>2, ShownAside
<1> QED BY <1>2, <1>3

\* Steam, the other user and the game beside the operation.
LEMMA BesideShown ==
  ASSUME StatsTypes, ShownInv,
         (\E s \in Stat : OtherPlays(s)) \/ \E a \in Achievement : GameIndicatesProgress(a)
  PROVE  ShownInv'
<1>1. op' = op /\ commits' = commits /\ UNCHANGED <<cached, held, astray>> /\ pipe \in Seq(Message)
  BY PipeType DEF OtherPlays, GameIndicatesProgress, Outside, steamStats, shown
<1>2. CASE \E s \in Stat : OtherPlays(s)
  <2>1. pipe' = pipe BY <1>2 DEF OtherPlays
  <2>2. Refused => Refused' BY <2>1 DEF Refused, Refusal
  <2>3. LastRefused' => LastRefused BY <2>1 DEF LastRefused, Refusal
  <2> QED BY <1>1, <2>2, <2>3, ShownStays
<1>3. ASSUME NEW a \in Achievement, GameIndicatesProgress(a) PROVE ShownInv'
  <2>1. Appends(Callback("progress", a, TRUE)) BY <1>3, BesideTyped
  <2>2. pipe'[Len(pipe')].what = "progress" BY <2>1 DEF Appends, Callback
  <2>3. Appends(pipe'[Len(pipe')]) BY <2>1 DEF Appends
  <2>4. (Refused => Refused') /\ (LastRefused' => LastRefused) BY <1>1, <2>2, <2>3, RefusalsPass
  <2> QED BY <1>1, <2>4, ShownStays
<1> QED BY <1>2, <1>3

\* Every step of the component keeps what is shown of the statistics.
LEMMA ShownStep ==
  ASSUME StatsTypes, ShownInv, StatsNext
  PROVE  ShownInv'
<1>1. CASE \/ \E amounts \in Amounts : UpdateStats(amounts)
           \/ \E targets \in Targets, names \in SUBSET Stat \ {{}} : QueryStats(targets, names)
           \/ QueryAchievementDefinitions \/ QueryAchievementStates
  <2>1. op = None /\ ~At("storing")' /\ UNCHANGED statVars BY <1>1, TypesHaveOps, QueriesBegin
  <2> QED BY <2>1, NothingWaits, NothingWaitsThen, ShownAside DEF statVars, steamStats, shown
<1>2. CASE DefinitionsRead \/ StatesRead \/ AchievementsCommitted
  <2>1. /\ op' = None /\ UNCHANGED <<cached, held>> /\ astray \subseteq astray'
        /\ ~Updating /\ ~Resetting
    BY <1>2 DEF DefinitionsRead, StatesRead, AchievementsCommitted, Ends, Answered, Committed, Believes,
                Updating, Resetting, Runs, steamStats
  <2> QED BY <2>1, NothingWaitsThen, ShownAside
<1>3. ASSUME NEW ids \in SUBSET Achievement, UnlockAchievements(ids) PROVE ShownInv'
  <2>1. op = None /\ UNCHANGED <<cached, held>> /\ astray \subseteq astray'
    BY <1>3 DEF UnlockAchievements, Begins, AtOnce, Free, GoesAstray, shown
  <2>2. ~Updating' /\ ~Resetting'
    <3>1. CASE op' = [do |-> "Unlock", with |-> ids, step |-> "storing"]
      BY <3>1 DEF Updating, Resetting, Runs
    <3>2. CASE op' = op BY <2>1, <3>2, NothingWaitsThen
    <3> QED BY <1>3, <3>1, <3>2 DEF UnlockAchievements, Begins, AtOnce, Outside
  <2> QED BY <2>1, <2>2, NothingWaits, ShownAside
<1>4. ASSUME NEW ok \in BOOLEAN, SteamSendsStats(ok) PROVE ShownInv'
  <2>1. ~At("storing") /\ ~At("storing")' /\ UNCHANGED <<steamStats, cached, progress, astray>>
    BY <1>4, SteamSendsTyped
  <2>2. ~Updating /\ ~Resetting BY <2>1 DEF Updating, Resetting
  <2> QED BY <2>1, <2>2, NothingWaitsThen, ShownAside DEF steamStats
<1>5. CASE StatsReset
  <2>1. op' = None /\ cached' = [cached EXCEPT ![Me] = [s \in Stat |-> Unread]]
    BY <1>5 DEF StatsReset, Ends
  <2> QED BY <2>1, PipeType, ForgottenShown
<1> QED BY <1>1, <1>2, <1>3, <1>4, <1>5, WrittenShown, PartShown, RefusedShown, CommittedShown,
           ReadShown, ResetShown, FailsShown, GivenUpShown, AnnouncedShown, BesideShown,
           CommitShown, RejectShown DEF StatsNext

-----------------------------------------------------------------------------
(* What the game is shown of the achievements.                             *)

\* What is shown as unlocked is, and no progress is still to be told of it; what is unlocked
\* and not shown so awaits its commit, or the announcement, or a failure left it so.
AchievementsShown ==
  progress # None => \A a \in Achievement \ astray :
    /\ progress[a] = Unlocked => got[a] /\ \A i \in 1..Len(pipe) : ~Says(i, "progress", a)
    /\ got[a] /\ progress[a] # Unlocked =>
         (commits > 0 /\ ~won[a]) \/ \E i \in 1..Len(pipe) : Says(i, "unlocked", a)

\* What the unlock that waits set Steam has, or a rejection is on its way.
UnlockIsGot == Unlocking => Refused \/ \A a \in op.with : got[a]

\* Its commit was performed: the answer comes after whatever progress is still to be told.
UnlockIsLast ==
  Unlocking /\ commits = 0 /\ ~Refused =>
    \A a \in op.with : \A i \in 1..Len(pipe) : Says(i, "progress", a) =>
      \E j \in 1..Len(pipe) : j > i /\ pipe[j].what = "stored"

UnlocksInv == AchievementsShown /\ UnlockIsGot /\ UnlockIsLast

\* No news of an achievement comes, and what there is of an unlock stays to be told.
QuietOf(a) ==
  /\ \A i \in 1..Len(pipe') : pipe'[i].what = "progress" /\ pipe'[i].about = a =>
       \E j \in 1..Len(pipe) : Says(j, "progress", a)
  /\ \A i \in 1..Len(pipe) : Says(i, "unlocked", a) =>
       \E j \in 1..Len(pipe') : pipe'[j].what = "unlocked" /\ pipe'[j].about = a

\* What such a step leaves of an achievement.
LEMMA AchievementsStay ==
  ASSUME AchievementsShown, commits \in Nat,
         progress' # None => progress # None,
         \A a \in Achievement \ astray' : a \notin astray,
         progress' # None => \A a \in Achievement \ astray' : progress'[a] = progress[a] /\ QuietOf(a),
         UNCHANGED <<got, won>>, commits' = commits \/ commits' = commits + 1
  PROVE  AchievementsShown'
<1> SUFFICES ASSUME progress' # None, NEW a \in Achievement \ astray'
             PROVE  /\ progress'[a] = Unlocked => got'[a] /\ \A i \in 1..Len(pipe') : ~Says(i, "progress", a)'
                    /\ got'[a] /\ progress'[a] # Unlocked =>
                         (commits' > 0 /\ ~won'[a]) \/ \E i \in 1..Len(pipe') : Says(i, "unlocked", a)'
  BY DEF AchievementsShown, Says, Unlocked
<1>1. /\ progress # None /\ a \in Achievement \ astray /\ progress'[a] = progress[a] /\ QuietOf(a)
      /\ got'[a] = got[a] /\ won'[a] = won[a] /\ (commits > 0 => commits' > 0)
  OBVIOUS
<1>2. /\ progress[a] = Unlocked => got[a] /\ \A i \in 1..Len(pipe) : ~Says(i, "progress", a)
      /\ got[a] /\ progress[a] # Unlocked =>
           (commits > 0 /\ ~won[a]) \/ \E i \in 1..Len(pipe) : Says(i, "unlocked", a)
  BY <1>1 DEF AchievementsShown
<1>3. /\ (\A i \in 1..Len(pipe) : ~Says(i, "progress", a)) => \A i \in 1..Len(pipe') : ~Says(i, "progress", a)'
      /\ (\E i \in 1..Len(pipe) : Says(i, "unlocked", a)) => \E i \in 1..Len(pipe') : Says(i, "unlocked", a)'
  BY <1>1 DEF QuietOf, Says
<1> QED BY <1>1, <1>2, <1>3

\* A callback that is gone, and was no announcement of an unlock.
LEMMA QuietWhereItDrops ==
  ASSUME NEW k \in 1..Len(pipe), Drops(k), NEW a, ~Says(k, "unlocked", a)
  PROVE  QuietOf(a)
<1>1. /\ \A i \in 1..Len(pipe') : From(i, k) \in 1..Len(pipe) /\ pipe'[i] = pipe[From(i, k)]
      /\ \A i \in 1..Len(pipe) : i # k => Into(i, k) \in 1..Len(pipe') /\ pipe'[Into(i, k)] = pipe[i]
  BY DEF Drops
<1>2. \A i \in 1..Len(pipe) : Says(i, "unlocked", a) => i # k OBVIOUS
<1> QED BY <1>1, <1>2 DEF QuietOf, Says

\* Callbacks come, and none tells of progress in it.
LEMMA QuietWhereItGrows ==
  ASSUME Grows, NEW a,
         \A i \in 1..Len(pipe') : i \in 1..Len(pipe) \/ pipe'[i].what # "progress" \/ pipe'[i].about # a
  PROVE  QuietOf(a)
BY DEF Grows, QuietOf, Says

LEMMA QuietWhereItStays == pipe' = pipe => \A a : QuietOf(a)
BY DEF QuietOf, Says

\* No unlock waits.
LEMMA UnlocksAtRest ==
  ASSUME AchievementsShown', ~Unlocking' PROVE UnlocksInv'
BY DEF UnlocksInv, UnlockIsGot, UnlockIsLast

\* What is answered is not what is announced.
LEMMA AnswerIsQuiet ==
  ASSUME StatsTypes, NEW k \in 1..Len(pipe), Drops(k), pipe[k].what \in {"received", "stored"}
  PROVE  \A a : QuietOf(a)
BY QuietWhereItDrops DEF Says

\* An answer is taken, or nobody is left to hear it, and no achievement is touched.
LEMMA AnswerLeaves ==
  ASSUME StatsTypes, UnlocksInv, ~Unlocking',
         pipe' = pipe \/ \E k \in 1..Len(pipe) : Drops(k) /\ pipe[k].what \in {"received", "stored"},
         UNCHANGED <<got, won, progress>>, astray \subseteq astray', commits' = commits \/ commits' = commits + 1
  PROVE  UnlocksInv'
<1>1. \A a : QuietOf(a) BY AnswerIsQuiet, QuietWhereItStays
<1>2. AchievementsShown /\ commits \in Nat BY PipeType DEF UnlocksInv
<1>3. AchievementsShown' BY <1>1, <1>2, AchievementsStay
<1> QED BY <1>3, UnlocksAtRest

LEMMA AnsweredHead ==
  ASSUME StatsTypes, IsNext("received") \/ IsNext("stored")
  PROVE  /\ Drops(1) /\ 1 \in 1..Len(pipe) /\ pipe[1].what \in {"received", "stored"}
         /\ IsNext("received") => HasAnswer(1)
BY PipeType, HeadIsDropped DEF HasAnswer

\* Steps that have nothing to do with achievements.
LEMMA ElsewhereUnlocks ==
  ASSUME StatsTypes, UnlocksInv,
         StatsWritten \/ StatsWrittenInPart \/ StoreRefused \/ StatsCommitted \/ StatsRejected
         \/ StatsRead \/ StatsReset \/ DefinitionsRead \/ StatsCallFails \/ StoredUnheard
  PROVE  UnlocksInv'
<1>1. IsNext("received") \/ IsNext("stored")
  BY DEF StatsWritten, StatsWrittenInPart, StoreRefused, StatsCommitted, StatsRejected, StatsRead,
         StatsReset, DefinitionsRead, StatsCallFails, StoredUnheard, Answered, Committed
<1>2. Drops(1) /\ 1 \in 1..Len(pipe) /\ pipe[1].what \in {"received", "stored"} BY <1>1, AnsweredHead
<1>3. /\ UNCHANGED <<got, won, progress>> /\ (commits' = commits \/ commits' = commits + 1)
      /\ astray \subseteq astray'
  BY DEF StatsWritten, StatsWrittenInPart, StoreRefused, StatsCommitted, StatsRejected, StatsRead,
         StatsReset, DefinitionsRead, StatsCallFails, StoredUnheard, StoreStats, GoesAstray, Believes,
         steamStats, shown
<1>4. ~Unlocking'
  <2>1. CASE StatsWritten
    <3>1. op' \in UpdateOps BY <2>1, StatsWrittenTyped
    <3> QED BY <3>1 DEF UpdateOps, Unlocking, Runs
  <2>2. CASE StatsRead BY <2>2, StatsReadTyped DEF Unlocking
  <2>3. CASE StoredUnheard
    <3>1. ~At("storing") /\ op' = op BY <2>3 DEF StoredUnheard, Beside, queue
    <3> QED BY <3>1 DEF Unlocking, Runs, At
  <2>4. CASE op' = None BY <2>4, NothingWaitsThen
  <2> QED BY <2>1, <2>2, <2>3, <2>4
          DEF StatsWrittenInPart, StoreRefused, StatsCommitted, StatsRejected, StatsReset,
              DefinitionsRead, StatsCallFails, Ends
<1> QED BY <1>2, <1>3, <1>4, AnswerLeaves

LEMMA GivenUpUnlocks ==
  ASSUME StatsTypes, UnlocksInv, StatsTimeOut
  PROVE  UnlocksInv'
<1>1. /\ op' = None /\ GivenUp /\ UNCHANGED <<got, won, progress, commits>> /\ astray \subseteq astray'
  BY DEF StatsTimeOut, Ends, GoesAstray, steamStats
<1>2. pipe' = pipe \/ \E k \in 1..Len(pipe) : Drops(k) /\ pipe[k].what \in {"received", "stored"}
  BY <1>1, PipeType, AnswerIsDropped DEF HasAnswer
<1> QED BY <1>1, <1>2, NothingWaitsThen, AnswerLeaves

\* Queries and resets begin, and Steam answers a call.
LEMMA BeginsUnlocks ==
  ASSUME StatsTypes, UnlocksInv, ~Unlocking', UNCHANGED <<got, won, progress>>, astray \subseteq astray',
         commits' = commits \/ commits' = commits + 1,
         pipe' = pipe \/ \E ok \in BOOLEAN : Appends(Callback("received", None, ok))
  PROVE  UnlocksInv'
<1>1. \A a : QuietOf(a)
  <2>1. ASSUME NEW ok \in BOOLEAN, Appends(Callback("received", None, ok)), NEW a PROVE QuietOf(a)
    <3>1. Grows /\ pipe'[Len(pipe')].what = "received" BY <2>1 DEF Appends, Callback
    <3>2. \A i \in 1..Len(pipe') : i \in 1..Len(pipe) \/ i = Len(pipe') BY <2>1 DEF Appends, Grows
    <3> QED BY <3>1, <3>2, QuietWhereItGrows
  <2> QED BY <2>1, QuietWhereItStays
<1>2. AchievementsShown /\ commits \in Nat BY PipeType DEF UnlocksInv
<1>3. AchievementsShown' BY <1>1, <1>2, AchievementsStay
<1> QED BY <1>3, UnlocksAtRest

\* The states are read: progress that is still to be told is of what is not unlocked.
LEMMA StatesReadUnlocks ==
  ASSUME StatsTypes, PipeInv, UnlocksInv, StatesRead
  PROVE  UnlocksInv'
<1>1. /\ op' = None /\ UNCHANGED <<got, won, commits, astray>> /\ IsNext("received")
      /\ progress' = [a \in Achievement |-> IF got[a] THEN Unlocked ELSE 0]
  BY DEF StatesRead, Answered, Ends, steamStats
<1>2. Drops(1) /\ 1 \in 1..Len(pipe) /\ HasAnswer(1) BY <1>1, AnsweredHead
<1>3. got \in Achieved BY PipeType
<1>4. ASSUME NEW a \in Achievement
      PROVE  /\ progress'[a] = Unlocked => got'[a] /\ \A i \in 1..Len(pipe') : ~Says(i, "progress", a)'
             /\ got'[a] => progress'[a] = Unlocked
  <2>1. got'[a] <=> progress'[a] = Unlocked BY <1>1, <1>3 DEF Unlocked, Achieved
  <2>2. ASSUME got[a], NEW i \in 1..Len(pipe'), pipe'[i].what = "progress", pipe'[i].about = a PROVE FALSE
    <3>1. From(i, 1) \in 1..Len(pipe) /\ From(i, 1) # 1 /\ pipe'[i] = pipe[From(i, 1)] BY <1>2 DEF Drops
    <3>2. From(i, 1) > 1 /\ Says(From(i, 1), "progress", a) BY <2>2, <3>1 DEF Says
    <3> QED BY <1>2, <2>2, <3>1, <3>2 DEF PipeInv, NoProgressAfter
  <2> QED BY <1>1, <2>1, <2>2 DEF Says
<1>5. AchievementsShown' BY <1>4 DEF AchievementsShown, Says, Unlocked
<1> QED BY <1>1, <1>5, NothingWaitsThen, UnlocksAtRest

\* Achievements are set, and wait for the commit; where it was refused they are left apart.
LEMMA UnlockSets ==
  ASSUME StatsTypes, PipeInv, UnlocksInv, NEW ids \in SUBSET Achievement, UnlockAchievements(ids)
  PROVE  UnlocksInv'
<1>1. /\ op = None /\ progress # None /\ \A a \in ids : progress[a] # Unlocked
      /\ UNCHANGED <<won, pipe, progress>> /\ got \in Achieved /\ commits \in Nat
  BY PipeType DEF UnlockAchievements, Begins, AtOnce, Free, shown
<1>2. CASE /\ Begins([do |-> "Unlock", with |-> ids, step |-> "storing"])
           /\ got' = [a \in Achievement |-> a \in ids \/ got[a]] /\ StoreStats /\ UNCHANGED astray
  <2>1. op' # None /\ op'.with = ids BY <1>2, TypesHaveOps, UnlockBegins DEF StoreStats
  <2>2. commits' = commits + 1 /\ commits' > 0 BY <1>1, <1>2 DEF StoreStats
  <2>3. \A a \in Achievement : got'[a] <=> (a \in ids \/ got[a]) BY <1>2
  <2>4. ASSUME NEW a \in Achievement \ astray
        PROVE  /\ progress[a] = Unlocked => got'[a] /\ \A i \in 1..Len(pipe) : ~Says(i, "progress", a)
               /\ got'[a] /\ progress[a] # Unlocked => ~won[a] \/ \E i \in 1..Len(pipe) : Says(i, "unlocked", a)
    <3>1. /\ progress[a] = Unlocked => got[a] /\ \A i \in 1..Len(pipe) : ~Says(i, "progress", a)
          /\ got[a] /\ progress[a] # Unlocked => ~won[a] \/ \E i \in 1..Len(pipe) : Says(i, "unlocked", a)
      BY <1>1 DEF UnlocksInv, AchievementsShown
    <3>2. won[a] => got[a] BY DEF PipeInv, WonAreGot
    <3> QED BY <2>3, <3>1, <3>2
  <2>5. AchievementsShown' BY <1>1, <1>2, <2>2, <2>4 DEF AchievementsShown, Says, Unlocked
  <2>6. UnlockIsGot' BY <2>1, <2>3 DEF UnlockIsGot
  <2>7. UnlockIsLast' BY <1>1, <2>2 DEF UnlockIsLast
  <2> QED BY <2>5, <2>6, <2>7 DEF UnlocksInv
<1>3. CASE AtOnce /\ UNCHANGED commits /\ GoesAstray
           /\ \E some \in SUBSET ids : got' = [a \in Achievement |-> a \in some \/ got[a]]
  <2>1. op' = None BY <1>1, <1>3 DEF AtOnce, Outside
  <2>2. ASSUME NEW a \in Achievement \ astray'
        PROVE  /\ a \notin astray /\ (progress[a] = Unlocked <=> got'[a])
    <3>1. a \notin Differs(cached', progress', held', got') /\ a \notin astray BY <1>3 DEF GoesAstray
    <3>2. ~((progress[a] = Unlocked) # got'[a]) BY <1>1, <3>1 DEF Differs
    <3>3. got'[a] \in BOOLEAN
      <4>1. PICK some \in SUBSET ids : got' = [b \in Achievement |-> b \in some \/ got[b]] BY <1>3
      <4> QED BY <4>1
    <3> QED BY <3>1, <3>2, <3>3
  <2>3. \A a \in Achievement \ astray' : progress[a] = Unlocked => \A i \in 1..Len(pipe) : ~Says(i, "progress", a)
    BY <1>1, <2>2 DEF UnlocksInv, AchievementsShown
  <2>4. AchievementsShown' BY <1>1, <2>2, <2>3 DEF AchievementsShown, Says, Unlocked
  <2> QED BY <2>1, <2>4, NothingWaitsThen, UnlocksAtRest
<1> QED BY <1>2, <1>3 DEF UnlockAchievements

\* The commit of an unlock is answered: it is one's own, or what was set is doubted.
LEMMA CommittedUnlocks ==
  ASSUME StatsTypes, UnlocksInv, AchievementsCommitted
  PROVE  UnlocksInv'
<1>1. /\ Unlocking /\ op' = None /\ Committed("Unlock", TRUE) /\ MarkAchievementUnlocked(op.with)
      /\ Believes(op.with) /\ UNCHANGED <<got, won, commits>>
      /\ pipe \in Seq(Message) /\ commits \in Nat
  BY PipeType DEF AchievementsCommitted, Committed, Unlocking, Ends, steamStats
<1>2. /\ Drops(1) /\ 1 \in 1..Len(pipe) /\ pipe[1].what = "stored" /\ pipe[1].ok = TRUE
      /\ ~AnothersAnswer => commits = 0 /\ \A i \in 1..Len(pipe) : pipe[i].what = "stored" => i = 1
  BY <1>1, CommitHead
<1>3. \A a : QuietOf(a) BY <1>2, AnswerIsQuiet
<1>4. ASSUME ~AnothersAnswer, NEW a \in op.with
      PROVE  got[a] /\ \A i \in 1..Len(pipe) : ~Says(i, "progress", a)
  <2>1. ~Refused /\ commits = 0 BY <1>2, <1>4 DEF Refused, Refusal
  <2>2. got[a] BY <1>1, <1>4, <2>1 DEF UnlocksInv, UnlockIsGot
  <2>3. ASSUME NEW i \in 1..Len(pipe), Says(i, "progress", a) PROVE FALSE
    <3>1. PICK j \in 1..Len(pipe) : j > i /\ pipe[j].what = "stored"
      BY <1>1, <1>4, <2>1, <2>3 DEF UnlocksInv, UnlockIsLast
    <3> QED BY <1>2, <1>4, <3>1
  <2> QED BY <2>2, <2>3
<1>5. AchievementsShown'
  <2> SUFFICES ASSUME progress' # None, NEW a \in Achievement \ astray'
               PROVE  /\ progress'[a] = Unlocked => got'[a] /\ \A i \in 1..Len(pipe') : ~Says(i, "progress", a)'
                      /\ got'[a] /\ progress'[a] # Unlocked =>
                           (commits' > 0 /\ ~won'[a]) \/ \E i \in 1..Len(pipe') : Says(i, "unlocked", a)'
    BY DEF AchievementsShown, Says, Unlocked
  <2>1. progress # None /\ progress'[a] = IF a \in op.with THEN Unlocked ELSE progress[a]
    BY <1>1 DEF MarkAchievementUnlocked
  <2>2. a \in Achievement \ astray /\ (a \in op.with => ~AnothersAnswer) BY <1>1 DEF Believes
  <2>3. /\ (\A i \in 1..Len(pipe) : ~Says(i, "progress", a)) => \A i \in 1..Len(pipe') : ~Says(i, "progress", a)'
        /\ (\E i \in 1..Len(pipe) : Says(i, "unlocked", a)) => \E i \in 1..Len(pipe') : Says(i, "unlocked", a)'
    BY <1>3 DEF QuietOf, Says
  <2>4. CASE a \in op.with BY <1>1, <1>4, <2>1, <2>2, <2>3, <2>4
  <2>5. CASE a \notin op.with
    <3>1. /\ progress[a] = Unlocked => got[a] /\ \A i \in 1..Len(pipe) : ~Says(i, "progress", a)
          /\ got[a] /\ progress[a] # Unlocked =>
               (commits > 0 /\ ~won[a]) \/ \E i \in 1..Len(pipe) : Says(i, "unlocked", a)
      BY <2>1, <2>2 DEF UnlocksInv, AchievementsShown
    <3> QED BY <1>1, <2>1, <2>3, <2>5, <3>1
  <2> QED BY <2>4, <2>5
<1> QED BY <1>1, <1>5, NothingWaitsThen, UnlocksAtRest

\* What an unlock waits for is as it was.
LEMMA UnlockStays ==
  ASSUME StatsTypes, UnlocksInv, UNCHANGED <<op, got, commits>>, AchievementsShown',
         \/ Drops(1) /\ 1 \in 1..Len(pipe) /\ pipe[1].what # "stored"
         \/ \E m : Appends(m) /\ m.what # "stored" /\
              (m.what = "progress" => m.about \in Achievement /\ ~got[m.about])
         \/ pipe' = pipe
  PROVE  UnlocksInv'
<1>1. pipe \in Seq(Message) BY PipeType
<1>2. Refused => Refused'
  <2>1. CASE Drops(1) /\ 1 \in 1..Len(pipe) /\ pipe[1].what # "stored" BY <1>1, <2>1, RefusalsPass
  <2>2. ASSUME NEW m, Appends(m), m.what # "stored" PROVE Refused => Refused'
    <3>1. Appends(pipe'[Len(pipe')]) /\ pipe'[Len(pipe')].what # "stored" BY <2>2 DEF Appends
    <3> QED BY <1>1, <3>1, RefusalsPass
  <2>3. CASE pipe' = pipe BY <2>3 DEF Refused, Refusal
  <2> QED BY <2>1, <2>2, <2>3
<1>3. Unlocking' <=> Unlocking BY DEF Unlocking, Runs, At
<1>4. UnlockIsGot' BY <1>2, <1>3 DEF UnlocksInv, UnlockIsGot
<1>5. ASSUME Unlocking, commits = 0, ~Refused, NEW a \in op.with, NEW i \in 1..Len(pipe'),
             pipe'[i].what = "progress", pipe'[i].about = a
      PROVE  \E j \in 1..Len(pipe') : j > i /\ pipe'[j].what = "stored"
  <2>1. got[a] BY <1>5 DEF UnlocksInv, UnlockIsGot
  <2>2. \A k \in 1..Len(pipe) : Says(k, "progress", a) => \E j \in 1..Len(pipe) : j > k /\ pipe[j].what = "stored"
    BY <1>5 DEF UnlocksInv, UnlockIsLast
  <2>3. CASE Drops(1) /\ 1 \in 1..Len(pipe) /\ pipe[1].what # "stored"
    <3>1. From(i, 1) \in 1..Len(pipe) /\ pipe'[i] = pipe[From(i, 1)] BY <2>3 DEF Drops
    <3>2. PICK j \in 1..Len(pipe) : j > From(i, 1) /\ pipe[j].what = "stored" BY <1>5, <2>2, <3>1 DEF Says
    <3>3. j # 1 BY <2>3, <3>2
    <3>4. Into(j, 1) \in 1..Len(pipe') /\ pipe'[Into(j, 1)] = pipe[j] BY <2>3, <3>3 DEF Drops
    <3>5. Into(j, 1) > i BY <3>2, <3>3 DEF From, Into
    <3> QED BY <3>2, <3>4, <3>5
  <2>4. ASSUME NEW m, Appends(m), m.what # "stored", m.what = "progress" => m.about \in Achievement /\ ~got[m.about]
        PROVE  \E j \in 1..Len(pipe') : j > i /\ pipe'[j].what = "stored"
    <3>1. i \in 1..Len(pipe) \/ pipe'[i] = m BY <2>4 DEF Appends, Grows
    <3>2. i \in 1..Len(pipe) /\ pipe'[i] = pipe[i] BY <1>5, <2>1, <2>4, <3>1 DEF Appends, Grows
    <3>3. PICK j \in 1..Len(pipe) : j > i /\ pipe[j].what = "stored" BY <1>5, <2>2, <3>2 DEF Says
    <3> QED BY <2>4, <3>3 DEF Appends, Grows
  <2>5. CASE pipe' = pipe BY <1>5, <2>2, <2>5 DEF Says
  <2> QED BY <2>3, <2>4, <2>5
<1>6. UnlockIsLast' BY <1>2, <1>3, <1>5 DEF UnlockIsLast, Says
<1> QED BY <1>4, <1>6 DEF UnlocksInv

\* An achievement is announced: as unlocked, which it is, or with progress, which it was not.
LEMMA AnnouncedUnlocks ==
  ASSUME StatsTypes, PipeInv, UnlocksInv, OnUserAchievementStored
  PROVE  UnlocksInv'
<1> DEFINE b == Head(pipe).about
<1>1. /\ UNCHANGED <<op, got, won, commits, astray>> /\ pipe \in Seq(Message) /\ progress \in Progresses
  BY PipeType DEF OnUserAchievementStored, Beside, queue, steamStats
<1>2. /\ Drops(1) /\ 1 \in 1..Len(pipe) /\ Head(pipe) = pipe[1]
      /\ IsNext("unlocked") => Says(1, "unlocked", b)
      /\ IsNext("progress") => Says(1, "progress", b)
  BY <1>1, HeadIsDropped DEF OnUserAchievementStored, Says
<1>3. ASSUME NEW a, a # b \/ IsNext("progress") PROVE QuietOf(a)
  <2>1. ~Says(1, "unlocked", a)
    <3>1. CASE a # b BY <1>2, <3>1 DEF Says
    <3>2. CASE IsNext("progress") BY <1>2, <3>2 DEF Says
    <3> QED BY <1>3, <3>1, <3>2
  <2> QED BY <1>2, <2>1, QuietWhereItDrops
<1>4. pipe[1].what # "stored" BY <1>2 DEF OnUserAchievementStored, Says
<1> HIDE DEF b
<1>5. AchievementsShown'
  <2> SUFFICES ASSUME progress' # None, NEW a \in Achievement \ astray'
               PROVE  /\ progress'[a] = Unlocked => got'[a] /\ \A i \in 1..Len(pipe') : ~Says(i, "progress", a)'
                      /\ got'[a] /\ progress'[a] # Unlocked =>
                           (commits' > 0 /\ ~won'[a]) \/ \E i \in 1..Len(pipe') : Says(i, "unlocked", a)'
    BY DEF AchievementsShown, Says, Unlocked
  <2>1. progress # None /\ progress \in [Achievement -> 0..Unlocked]
    BY <1>1 DEF OnUserAchievementStored, MarkAchievementUnlocked, Progresses
  <2>2. /\ progress[a] = Unlocked => got[a] /\ \A i \in 1..Len(pipe) : ~Says(i, "progress", a)
        /\ got[a] /\ progress[a] # Unlocked =>
             (commits > 0 /\ ~won[a]) \/ \E i \in 1..Len(pipe) : Says(i, "unlocked", a)
    BY <1>1, <2>1 DEF UnlocksInv, AchievementsShown
  <2>3. QuietOf(a) =>
          /\ (\A i \in 1..Len(pipe) : ~Says(i, "progress", a)) => \A i \in 1..Len(pipe') : ~Says(i, "progress", a)'
          /\ (\E i \in 1..Len(pipe) : Says(i, "unlocked", a)) => \E i \in 1..Len(pipe') : Says(i, "unlocked", a)'
    BY DEF QuietOf, Says
  <2>4. CASE IsNext("unlocked") /\ MarkAchievementUnlocked({b})
    <3>1. progress'[a] = IF a = b THEN Unlocked ELSE progress[a]
      BY <2>1, <2>4 DEF MarkAchievementUnlocked
    <3>2. CASE a = b
      <4>1. Says(1, "unlocked", a) BY <1>2, <2>4, <3>2
      <4>2. got[a] BY <1>2, <4>1 DEF PipeInv, WonAreGot
      <4>3. ASSUME NEW i \in 1..Len(pipe'), pipe'[i].what = "progress", pipe'[i].about = a PROVE FALSE
        <5>1. From(i, 1) \in 1..Len(pipe) /\ From(i, 1) # 1 /\ pipe'[i] = pipe[From(i, 1)] BY <1>2 DEF Drops
        <5>2. From(i, 1) > 1 /\ Says(From(i, 1), "progress", a) BY <4>3, <5>1 DEF Says
        <5> QED BY <1>2, <4>1, <5>1, <5>2 DEF PipeInv, NoProgressAfter
      <4> QED BY <1>1, <3>1, <3>2, <4>2, <4>3 DEF Says
    <3>3. CASE a # b BY <1>1, <1>3, <2>2, <2>3, <3>1, <3>3
    <3> QED BY <3>2, <3>3
  <2>5. CASE IsNext("progress") /\ progress' = [progress EXCEPT ![b] = 1]
    <3>1. QuietOf(a) BY <1>3, <2>5
    <3>2. CASE a = b
      <4>1. progress'[a] = 1 /\ progress'[a] # Unlocked BY <2>1, <2>5, <3>2 DEF Unlocked
      <4>2. progress[a] # Unlocked
        <5>1. Says(1, "progress", a) BY <1>2, <2>5, <3>2
        <5> QED BY <1>2, <2>2, <5>1
      <4> QED BY <1>1, <2>2, <2>3, <3>1, <4>1, <4>2
    <3>3. CASE a # b
      <4>1. progress'[a] = progress[a] BY <2>1, <2>5, <3>3
      <4> QED BY <1>1, <2>2, <2>3, <3>1, <4>1
    <3> QED BY <3>2, <3>3
  <2> QED BY <2>1, <2>4, <2>5 DEF OnUserAchievementStored, b
<1> QED BY <1>1, <1>2, <1>4, <1>5, UnlockStays

\* Steam performs a commit: each new unlock will be announced, after the answer.
LEMMA CommitUnlocks ==
  ASSUME StatsTypes, UnlocksInv, SteamCommits
  PROVE  UnlocksInv'
<1>1. /\ op' = op /\ UNCHANGED <<got, progress, astray>> /\ won' = got
  BY DEF SteamCommits, Beside, queue, shown
<1>2. /\ Len(pipe) \in Nat /\ Len(pipe') \in Nat /\ Len(pipe) + 1 \in 1..Len(pipe')
      /\ \A i \in 1..Len(pipe) : i \in 1..Len(pipe') /\ pipe'[i] = pipe[i]
      /\ pipe'[Len(pipe) + 1] = Callback("stored", None, TRUE)
      /\ \A a \in New : \E i \in 1..Len(pipe') : pipe'[i] = Callback("unlocked", a, TRUE)
      /\ Grows
  BY CommitIsAnnounced DEF Grows
<1>3. \A i \in 1..Len(pipe') : i \in 1..Len(pipe) \/ pipe'[i].what # "progress"
  <2> SUFFICES ASSUME NEW i \in 1..Len(pipe') PROVE i \in 1..Len(pipe) \/ pipe'[i].what # "progress"
    OBVIOUS
  <2>1. CASE pipe'[i] = Callback("stored", None, TRUE) BY <2>1 DEF Callback
  <2>2. CASE \E a \in New : pipe'[i] = Callback("unlocked", a, TRUE) BY <2>2 DEF Callback
  <2> QED BY <2>1, <2>2, CommitAdds
<1>4. \A a : QuietOf(a) BY <1>2, <1>3, QuietWhereItGrows
<1>5. AchievementsShown'
  <2> SUFFICES ASSUME progress' # None, NEW a \in Achievement \ astray'
               PROVE  /\ progress'[a] = Unlocked => got'[a] /\ \A i \in 1..Len(pipe') : ~Says(i, "progress", a)'
                      /\ got'[a] /\ progress'[a] # Unlocked => \E i \in 1..Len(pipe') : Says(i, "unlocked", a)'
    BY DEF AchievementsShown, Says, Unlocked
  <2>1. /\ progress[a] = Unlocked => got[a] /\ \A i \in 1..Len(pipe) : ~Says(i, "progress", a)
        /\ got[a] /\ progress[a] # Unlocked => a \in New \/ \E i \in 1..Len(pipe) : Says(i, "unlocked", a)
    BY <1>1 DEF UnlocksInv, AchievementsShown, New
  <2>2. /\ (\A i \in 1..Len(pipe) : ~Says(i, "progress", a)) => \A i \in 1..Len(pipe') : ~Says(i, "progress", a)'
        /\ (\E i \in 1..Len(pipe) : Says(i, "unlocked", a)) => \E i \in 1..Len(pipe') : Says(i, "unlocked", a)'
    BY <1>4 DEF QuietOf, Says
  <2>3. ASSUME a \in New PROVE \E i \in 1..Len(pipe') : Says(i, "unlocked", a)'
    <3>1. PICK i \in 1..Len(pipe') : pipe'[i] = Callback("unlocked", a, TRUE) BY <1>2, <2>3
    <3>2. pipe'[i].what = "unlocked" /\ pipe'[i].about = a BY <3>1 DEF Callback
    <3> QED BY <3>2 DEF Says
  <2> QED BY <1>1, <2>1, <2>2, <2>3
<1>6. (Unlocking' <=> Unlocking) BY <1>1 DEF Unlocking, Runs, At
<1>7. Refused => Refused' BY <1>2 DEF Refused, Refusal
<1>8. UnlockIsGot' BY <1>1, <1>6, <1>7 DEF UnlocksInv, UnlockIsGot
<1>9. ASSUME NEW i \in 1..Len(pipe'), pipe'[i].what = "progress"
      PROVE  \E j \in 1..Len(pipe') : j > i /\ pipe'[j].what = "stored"
  <2>1. Len(pipe) + 1 > i BY <1>2, <1>3, <1>9
  <2>2. pipe'[Len(pipe) + 1].what = "stored" BY <1>2 DEF Callback
  <2> QED BY <1>2, <2>1, <2>2
<1>10. UnlockIsLast' BY <1>9 DEF UnlockIsLast, Says
<1> QED BY <1>5, <1>8, <1>10 DEF UnlocksInv

\* Steam rejects a commit: what was set and not committed is taken back, and is apart.
LEMMA RejectUnlocks ==
  ASSUME StatsTypes, UnlocksInv, SteamRejects
  PROVE  UnlocksInv'
<1>1. /\ op' = op /\ got' = won /\ UNCHANGED <<won, cached, progress>>
      /\ astray' = astray \cup (Differs(cached, progress, held', got')
                                  \ (IF AwaitsTheAnswer THEN DOMAIN op.with ELSE {}))
      /\ won \in Achieved
  BY PipeType DEF SteamRejects, Beside, queue, shown
<1>2. AwaitsTheAnswer => DOMAIN op.with \cap Achievement = {}
  <2>1. AwaitsTheAnswer => op \in UpdateOps BY OpsOfStats DEF AwaitsTheAnswer, StatsTypes
  <2>2. AwaitsTheAnswer => DOMAIN op.with \subseteq Stat BY <2>1, UpdateCarries
  <2> QED BY <2>2, StatsAssumption
<1>3. Appends(Callback("stored", None, FALSE)) BY BesideTyped
<1>4. /\ Len(pipe') \in 1..Len(pipe') /\ pipe'[Len(pipe')].what = "stored" /\ ~pipe'[Len(pipe')].ok
      /\ \A i \in 1..Len(pipe') : i \in 1..Len(pipe) \/ i = Len(pipe')
      /\ \A i \in 1..Len(pipe) : i \in 1..Len(pipe') /\ pipe'[i] = pipe[i]
  BY <1>3 DEF Appends, Grows, Callback
<1>5. Refused' BY <1>4 DEF Refused, Refusal
<1>6. ASSUME progress # None, NEW a \in Achievement \ astray'
      PROVE  /\ progress[a] = Unlocked <=> got'[a]
             /\ got'[a] => \A i \in 1..Len(pipe') : ~Says(i, "progress", a)'
  <2>1. a \notin astray /\ a \notin Differs(cached, progress, held', got')
    BY <1>1, <1>2, <1>6
  <2>2. progress[a] = Unlocked <=> got'[a] BY <1>1, <1>6, <2>1 DEF Differs, Achieved
  <2>3. progress[a] = Unlocked => \A i \in 1..Len(pipe) : ~Says(i, "progress", a)
    BY <1>6, <2>1 DEF UnlocksInv, AchievementsShown
  <2> QED BY <1>4, <2>2, <2>3 DEF Says
<1>7. AchievementsShown' BY <1>1, <1>6 DEF AchievementsShown, Says, Unlocked
<1> QED BY <1>5, <1>7 DEF UnlocksInv, UnlockIsGot, UnlockIsLast

\* Progress is told of what is not unlocked.
LEMMA ProgressUnlocks ==
  ASSUME StatsTypes, UnlocksInv, NEW b \in Achievement, GameIndicatesProgress(b)
  PROVE  UnlocksInv'
<1>1. /\ UNCHANGED <<op, got, won, commits, progress, astray>> /\ ~got[b]
  BY DEF GameIndicatesProgress, Outside, steamStats, shown
<1> DEFINE m == Callback("progress", b, TRUE)
<1>2. Appends(m) BY BesideTyped
<1>3. m.what = "progress" /\ m.about = b BY DEF Callback
<1> HIDE DEF m
<1>4. /\ \A i \in 1..Len(pipe') : i \in 1..Len(pipe) \/ pipe'[i] = m
      /\ \A i \in 1..Len(pipe) : i \in 1..Len(pipe') /\ pipe'[i] = pipe[i]
  BY <1>2 DEF Appends, Grows
<1>5. AchievementsShown'
  <2> SUFFICES ASSUME progress' # None, NEW a \in Achievement \ astray'
               PROVE  /\ progress'[a] = Unlocked => got'[a] /\ \A i \in 1..Len(pipe') : ~Says(i, "progress", a)'
                      /\ got'[a] /\ progress'[a] # Unlocked =>
                           (commits' > 0 /\ ~won'[a]) \/ \E i \in 1..Len(pipe') : Says(i, "unlocked", a)'
    BY DEF AchievementsShown, Says, Unlocked
  <2>1. /\ progress[a] = Unlocked => got[a] /\ \A i \in 1..Len(pipe) : ~Says(i, "progress", a)
        /\ got[a] /\ progress[a] # Unlocked =>
             (commits > 0 /\ ~won[a]) \/ \E i \in 1..Len(pipe) : Says(i, "unlocked", a)
    BY <1>1 DEF UnlocksInv, AchievementsShown
  <2>2. (\E i \in 1..Len(pipe) : Says(i, "unlocked", a)) => \E i \in 1..Len(pipe') : Says(i, "unlocked", a)'
    BY <1>4 DEF Says
  <2>3. got[a] /\ (\A i \in 1..Len(pipe) : ~Says(i, "progress", a)) => \A i \in 1..Len(pipe') : ~Says(i, "progress", a)'
    BY <1>1, <1>3, <1>4 DEF Says
  <2> QED BY <1>1, <2>1, <2>2, <2>3
<1> QED BY <1>1, <1>2, <1>3, <1>5, UnlockStays

\* Every step of the component keeps what is shown of the achievements.
LEMMA UnlocksStep ==
  ASSUME StatsTypes, PipeInv, UnlocksInv, StatsNext
  PROVE  UnlocksInv'
<1>1. CASE \/ \E amounts \in Amounts : UpdateStats(amounts)
           \/ \E targets \in Targets, names \in SUBSET Stat \ {{}} : QueryStats(targets, names)
           \/ QueryAchievementDefinitions \/ QueryAchievementStates
  <2>1. ~At("storing")' /\ UNCHANGED statVars BY <1>1, TypesHaveOps, QueriesBegin
  <2> QED BY <2>1, NothingWaitsThen, BeginsUnlocks DEF statVars, steamStats, shown
<1>2. CASE ResetStats
  <2>1. /\ UNCHANGED <<got, won, progress, pipe>> /\ astray \subseteq astray'
        /\ commits' = commits \/ commits' = commits + 1
    BY <1>2 DEF ResetStats, StoreStats, GoesAstray, shown
  <2>2. ~Unlocking'
    <3>1. CASE op' = [do |-> "ResetStats", step |-> "storing"] BY <3>1 DEF Unlocking, Runs
    <3>2. CASE op' = None BY <3>2, NothingWaitsThen
    <3> QED BY <1>2, <3>1, <3>2 DEF ResetStats, Begins, AtOnce, Outside, Free
  <2> QED BY <2>1, <2>2, BeginsUnlocks
<1>3. ASSUME NEW ok \in BOOLEAN, SteamSendsStats(ok) PROVE UnlocksInv'
  <2>1. ~At("storing")' /\ Appends(Callback("received", None, ok))
        /\ UNCHANGED <<steamStats, cached, progress, astray>>
    BY <1>3, SteamSendsTyped
  <2> QED BY <2>1, NothingWaitsThen, BeginsUnlocks DEF steamStats
<1>4. CASE \E s \in Stat : OtherPlays(s)
  <2>1. /\ UNCHANGED <<op, got, won, commits, progress, pipe, astray>> /\ commits \in Nat
    BY <1>4, PipeType DEF OtherPlays, Outside, shown
  <2>2. AchievementsShown'
    BY <2>1, QuietWhereItStays, AchievementsStay DEF UnlocksInv
  <2> QED BY <2>1, <2>2, UnlockStays
<1> QED BY <1>1, <1>2, <1>3, <1>4, ElsewhereUnlocks, GivenUpUnlocks, StatesReadUnlocks, UnlockSets,
           CommittedUnlocks, AnnouncedUnlocks, CommitUnlocks, RejectUnlocks, ProgressUnlocks DEF StatsNext

-----------------------------------------------------------------------------
(* The component, and the others beside it.                                *)

StatsInv == StatsTypes /\ PipeInv /\ ShownInv /\ UnlocksInv

LEMMA StatsInvInit ==
  ASSUME StatsInit, op = None, moves \in {0, 1}
  PROVE  StatsInv
<1>1. moves \in 0..MaxMoves /\ moves \in Nat BY ServicesAssumption
<1>2. /\ held \in Numbers /\ stored \in Numbers /\ theirs \in [Stat -> 0..1]
      /\ got \in Achieved /\ won \in Achieved /\ definitions \in BOOLEAN /\ astray = {}
      /\ pipe = <<>> /\ commits = 0
      /\ \A a \in Achievement : ~got[a] /\ ~won[a]
  BY TopType DEF StatsInit, Numbers, Achieved
<1>3. pipe \in Seq(Message) /\ Len(pipe) = 0
  <2>1. <<>> \in Seq(Message) /\ Len(<<>>) = 0 OBVIOUS
  <2> QED BY <1>2, <2>1
<1>4. progress \in Progresses /\ (progress # None => \A a \in Achievement : progress[a] = 0)
  BY DEF StatsInit, Progresses, Unlocked
<1>5. cached \in [StatUsers -> Kept] /\ \A s \in Stat : cached[Me][s] = Unread
  <2>1. [s \in Stat |-> Unread] \in Kept BY DEF Kept
  <2>2. cached = [u \in StatUsers |-> [s \in Stat |-> Unread]] BY DEF StatsInit
  <2> QED BY <2>1, <2>2 DEF StatUsers
<1>6. ~Owed BY DEF Owed, Runs
<1>7. OpTypes BY <1>1, <1>2, <1>6 DEF OpTypes, OpType, CommitsAreMoves
<1>8. StatsTypes BY <1>2, <1>3, <1>4, <1>5, <1>7, StatsTypesParts
<1>9. PipeInv BY <1>2, <1>3 DEF PipeInv, AnswersAwaited, NoProgressAfter, WonAreGot
<1>10. ShownInv
  BY <1>5, NothingWaits DEF ShownInv, StatsShown, UpdateIsHeld, ResetIsOver, StatDiffers
<1>11. UnlocksInv
  BY <1>2, <1>4, NothingWaits DEF UnlocksInv, AchievementsShown, UnlockIsGot, UnlockIsLast, Unlocked
<1> QED BY <1>8, <1>9, <1>10, <1>11 DEF StatsInv

\* Every step of the component keeps the types, and its operations are its own.
LEMMA StatsTypesStep ==
  ASSUME StatsTypes, StatsNext
  PROVE  StatsTypes' /\ (op' = op \/ (op \in Others /\ op' \in Others))
<1>1. CASE \/ \E amounts \in Amounts : UpdateStats(amounts)
           \/ \E targets \in Targets, names \in SUBSET Stat \ {{}} : QueryStats(targets, names)
           \/ QueryAchievementDefinitions \/ QueryAchievementStates
  <2>1. OpTypes' /\ op = None /\ op' \in Others /\ UNCHANGED statVars BY <1>1, TypesHaveOps, QueriesBegin
  <2>2. /\ held \in Numbers /\ stored \in Numbers /\ theirs \in [Stat -> 0..1]
        /\ got \in Achieved /\ won \in Achieved /\ pipe \in Seq(Message)
        /\ cached \in [StatUsers -> Kept] /\ definitions \in BOOLEAN /\ progress \in Progresses
        /\ astray \subseteq Stat \cup Achievement
    BY StatsTypesParts
  <2>3. StatsTypes' BY <2>1, <2>2, StatsTypesAfter DEF statVars, steamStats, shown
  <2> QED BY <2>1, <2>3 DEF Others
<1>2. CASE StatsWritten
  <2>1. StatsTypes' /\ op \in UpdateOps /\ op' \in UpdateOps BY <1>2, StatsWrittenTyped
  <2> QED BY <2>1, StatsOpParts DEF Others
<1>3. CASE StatsWrittenInPart \/ StoreRefused \/ StatsCommitted \/ StatsRejected
  BY <1>3, UpdateEndsTyped DEF Others
<1>4. CASE StatsRead BY <1>4, StatsReadTyped
<1>5. CASE ResetStats \/ \E ids \in SUBSET Achievement : UnlockAchievements(ids)
  BY <1>5, SetTyped DEF Others
<1>6. CASE StatsReset \/ DefinitionsRead \/ StatesRead \/ AchievementsCommitted
           \/ OnUserAchievementStored \/ StatsCallFails \/ StoredUnheard
  BY <1>6, AnsweredTyped DEF OfStats
<1>7. CASE StatsTimeOut BY <1>7, StatsTimeOutTyped DEF Others
<1>8. ASSUME NEW ok \in BOOLEAN, SteamSendsStats(ok)
      PROVE  StatsTypes' /\ (op' = op \/ (op \in Others /\ op' \in Others))
  BY <1>8, SteamSendsTyped
<1>9. CASE SteamCommits \/ SteamRejects \/ (\E s \in Stat : OtherPlays(s))
           \/ \E a \in Achievement : GameIndicatesProgress(a)
  BY <1>9, BesideTyped
<1> QED BY <1>1, <1>2, <1>3, <1>4, <1>5, <1>6, <1>7, <1>8, <1>9 DEF StatsNext

LEMMA StatsInvStep ==
  ASSUME StatsInv, StatsNext
  PROVE  StatsInv' /\ (op' = op \/ (op \in Others /\ op' \in Others))
BY StatsTypesStep, PipeStep, ShownStep, UnlocksStep DEF StatsInv

\* An operation of another component.
Elses == OpType \ StatsOp

LEMMA ElsesAreApart ==
  \A o \in Elses : o = None \/ (o.step \notin {"told", "storing"} /\ o.do # "UpdateStats")
BY DEF Elses, OpType, PresenceOp, FilesOp

\* A step of another component.
LEMMA StatsStutter ==
  ASSUME StatsInv, UNCHANGED statVars, moves' = moves \/ Moves,
         op' = op \/ (op \in Elses /\ op' \in Elses)
  PROVE  StatsInv'
<1>1. /\ StatsTypes /\ PipeInv /\ ShownInv /\ UnlocksInv /\ OpTypes
  BY TypesHaveOps DEF StatsInv
<1>2. UNCHANGED <<held, got, stored, won, theirs, commits, pipe, cached, definitions, progress, astray>>
  BY DEF statVars, steamStats, shown
<1>3. CASE op' = op
  <2>1. OpTypes' BY <1>1, <1>2, <1>3, OpStaysTyped
  <2>2. StatsTypes' BY <1>1, <1>2, <2>1, StatsTypesParts, StatsTypesAfter
  <2>3. PipeInv' BY <1>1, <1>2, <1>3, PipeStutters
  <2>4. (Refused => Refused') /\ (LastRefused' => LastRefused) BY <1>2 DEF Refused, LastRefused, Refusal
  <2>5. ShownInv' BY <1>1, <1>2, <1>3, <2>4, ShownStays
  <2>6. AchievementsShown' BY <1>1, <1>2 DEF UnlocksInv, AchievementsShown, Says, Unlocked
  <2>7. UnlocksInv' BY <1>1, <1>2, <1>3, <2>6, UnlockStays
  <2> QED BY <2>2, <2>3, <2>5, <2>7 DEF StatsInv
<1>4. CASE op \in Elses /\ op' \in Elses
  <2>1. /\ ~At("told") /\ ~At("storing") /\ ~At("told")' /\ ~At("storing")' /\ ~Owed'
    BY <1>4, ElsesAreApart DEF At, Owed, Runs
  <2>2. moves' \in 0..MaxMoves /\ moves' >= moves BY <1>1, ServicesAssumption DEF Moves, OpTypes
  <2>3. commits <= moves /\ moves \in Nat /\ commits \in Nat BY <1>1, ServicesAssumption DEF OpTypes, CommitsAreMoves
  <2>4. OpTypes' BY <1>2, <1>4, <2>1, <2>2, <2>3 DEF OpTypes, Elses, CommitsAreMoves
  <2>5. StatsTypes' BY <1>1, <1>2, <2>4, StatsTypesParts, StatsTypesAfter
  <2>6. PipeInv' BY <1>1, <1>2, <2>1, PipeStutters
  <2>7. ~Updating /\ ~Resetting /\ ~Updating' /\ ~Resetting' /\ ~Unlocking'
    BY <2>1 DEF Updating, Resetting, Unlocking
  <2>8. ShownInv' BY <1>1, <1>2, <2>7, ShownAside
  <2>9. AchievementsShown' BY <1>1, <1>2 DEF UnlocksInv, AchievementsShown, Says, Unlocked
  <2> QED BY <2>5, <2>6, <2>7, <2>8, <2>9, UnlocksAtRest DEF StatsInv
<1> QED BY <1>3, <1>4

\* A new instance has been told nothing, and Steam still has what it had.
LEMMA StatsForgottenKeeps ==
  ASSUME StatsInv, StatsForgotten, Moves, op' = None
  PROVE  StatsInv'
<1>1. /\ StatsTypes /\ PipeInv /\ OpTypes
      /\ UNCHANGED <<held, got, stored, won, theirs, commits, astray>>
      /\ progress' = None /\ definitions' = FALSE /\ GivenUp
      /\ cached' = [u \in StatUsers |-> [s \in Stat |-> Unread]]
  BY TypesHaveOps DEF StatsInv, StatsForgotten, steamStats
<1>2. moves' \in 0..MaxMoves /\ commits <= moves' /\ commits \in Nat
  BY <1>1, ServicesAssumption DEF Moves, OpTypes, CommitsAreMoves
<1>3. OpTypes' BY <1>1, <1>2 DEF OpTypes, OpType, CommitsAreMoves, Owed, Runs
<1>4. cached' \in [StatUsers -> Kept]
  <2>1. [s \in Stat |-> Unread] \in Kept BY DEF Kept
  <2> QED BY <1>1, <2>1
<1>5. pipe \in Seq(Message) /\ pipe' \in Seq(Message) BY <1>1, PipeType, GivenUpTyped
<1>6. StatsTypes' BY <1>1, <1>3, <1>4, <1>5, StatsTypesParts, StatsTypesAfter DEF Progresses
<1>7. PipeInv' BY <1>1, <1>5, GivenUpKeepsPipe
<1>8. ShownInv' BY <1>1, ForgottenShown
<1>9. AchievementsShown' BY <1>1 DEF AchievementsShown
<1> QED BY <1>6, <1>7, <1>8, <1>9, NothingWaitsThen, UnlocksAtRest DEF StatsInv

-----------------------------------------------------------------------------
(* The whole.                                                              *)

\* Presence and friends take their turns in the queue, and so do logins.
LEMMA PeopleTakeTurns ==
  ASSUME op \in OpType, PresenceNext \/ SocialNext \/ LogInOrOut
  PROVE  /\ moves' = moves \/ Moves
         /\ op' = op \/ (op \in Elses \cap Others /\ op' \in Elses \cap Others)
         /\ login \in BOOLEAN => login' \in BOOLEAN
<1>1. {None} \cup PresenceOp \subseteq Elses \cap Others
  <2>1. \A o \in StatsOp : o.do # "QueryPresence" BY DEF StatsOp
  <2>2. \A o \in PresenceOp : o.do = "QueryPresence" BY DEF PresenceOp
  <2> QED BY <2>1, <2>2, StatsOpIsSome DEF Elses, Others, OpType
<1>2. ASSUME NEW targets \in SUBSET Friend, NEW listen \in BOOLEAN, QueryPresence(targets, listen)
      PROVE  op = None /\ op' \in PresenceOp /\ login' = login /\ Moves
  BY <1>2 DEF QueryPresence, Begins, Free, PresenceOp
<1>3. CASE PresenceRead
  <2>1. Runs("QueryPresence") /\ op' = None /\ login' = login /\ moves' = moves BY <1>3 DEF PresenceRead, Ends
  <2>2. op \in PresenceOp
    <3>1. \A o \in StatsOp \cup FilesOp : o.do # "QueryPresence" BY DEF StatsOp, FilesOp
    <3> QED BY <2>1, <3>1 DEF Runs, OpType
  <2> QED BY <1>1, <2>1, <2>2
<1>4. CASE \/ \E text \in [Field -> Value] : UpdatePresence(text)
           \/ \E fields \in SUBSET Field \ {{}} : \E mutations \in [fields -> Value] : PartialUpdatePresence(mutations)
           \/ RefreshPresence \/ \E u \in Person : AccountChanges(u)
  BY <1>4 DEF UpdatePresence, PartialUpdatePresence, RefreshPresence, AccountChanges, AtOnce, Outside, Beside, queue
<1>5. CASE SocialNext
  BY <1>5 DEF SocialNext, QueryFriends, QueryBlockedUsers, OnPersonaStateChange, SendFriendInvite,
     AcceptFriendInvite, RejectFriendInvite, AskUserToChangeRelationship, UserAnswers,
     RelationshipChanges, AtOnce, Outside, Beside, queue
<1>6. CASE LogInOrOut
  BY <1>6 DEF LogInOrOut, LogsInOrOut
<1> QED BY <1>1, <1>2, <1>3, <1>4, <1>5, <1>6 DEF PresenceNext

\* So do files.
LEMMA FilesTakeTurns ==
  ASSUME op \in OpType, op' \in OpType, FilesNext
  PROVE  /\ moves' = moves \/ Moves
         /\ op' = op \/ (op \in Elses /\ op' \in Elses)
         /\ login' = login
<1>1. \A o \in StatsOp : o.do \notin {"ReadFile", "WriteFile", "CopyFile"} BY DEF StatsOp
<1>2. \A o \in FilesOp : o.do \in {"ReadFile", "WriteFile", "CopyFile"} BY DEF FilesOp
<1>3. None \in Elses BY StatsOpIsSome DEF Elses, OpType
<1>4. At("reading") \/ At("writing") \/ At("written") \/ At("refused") => op \in Elses /\ op.do \in {"ReadFile", "WriteFile", "CopyFile"}
  <2>1. At("reading") \/ At("writing") \/ At("written") \/ At("refused") => op \in FilesOp
    BY StepsOfFiles DEF Writing
  <2> QED BY <1>1, <1>2, <2>1 DEF Elses
<1>5. CASE \/ EnumerateFiles \/ CloudIsSwitched \/ \E f \in File : DeleteFile(f)
  BY <1>5 DEF EnumerateFiles, CloudIsSwitched, DeleteFile, AtOnce, Outside
<1>6. CASE \/ \E f \in File : ReadFile(f)
           \/ \E f \in File, c \in Content : WriteFile(f, c)
           \/ \E source, target \in File : CopyFile(source, target)
  <2>1. op = None /\ Moves /\ login' = login BY <1>6 DEF ReadFile, WriteFile, CopyFile, Begins, Free
  <2>2. ASSUME NEW f, ReadFile(f) PROVE op'.do = "ReadFile" BY <2>2 DEF ReadFile, Begins
  <2>3. ASSUME NEW f, NEW c, WriteFile(f, c) PROVE op'.do = "WriteFile" BY <2>3 DEF WriteFile, Begins
  <2>4. ASSUME NEW source, NEW target, CopyFile(source, target) PROVE op'.do = "CopyFile"
    BY <2>4 DEF CopyFile, Begins
  <2>5. op'.do \in {"ReadFile", "WriteFile", "CopyFile"} BY <1>6, <2>2, <2>3, <2>4
  <2> QED BY <1>1, <1>3, <2>1, <2>5 DEF Elses
<1>7. CASE FileWritten \/ FileCallEnds \/ WriteTimesOut
  BY <1>3, <1>4, <1>7 DEF FileWritten, FileCallEnds, WriteTimesOut, Ends
<1>8. ASSUME NEW s, Goes(s), op \in FilesOp
      PROVE  moves' = moves /\ login' = login /\ op \in Elses /\ op' \in Elses
  <2>1. moves' = moves /\ login' = login /\ op' = [op EXCEPT !.step = s] BY <1>8 DEF Goes
  <2>2. op'.do = op.do
    <3>1. "do" \in DOMAIN op BY <1>8 DEF FilesOp
    <3> QED BY <2>1, <3>1
  <2> QED BY <1>1, <1>2, <1>8, <2>1, <2>2 DEF Elses
<1>9. CASE SourceRead \/ SteamWrites \/ SteamRefuses
  <2>1. (\E s : Goes(s) /\ op \in FilesOp) \/ Beside
    <3>1. At("reading") \/ At("writing") => op \in FilesOp BY StepsOfFiles DEF Writing
    <3> QED BY <1>9, <3>1 DEF SourceRead, SteamWrites, SteamRefuses, SteamAnswers, IsAwaited
  <2> QED BY <1>8, <2>1 DEF Beside, queue
<1> QED BY <1>5, <1>6, <1>7, <1>9 DEF FilesNext

\* An operation of this component leaves the login alone.
LEMMA StatsKeepLogin == StatsNext => login' = login
BY DEF StatsNext, UpdateStats, StatsWritten, StatsWrittenInPart, StoreRefused, StatsCommitted, StatsRejected,
       QueryStats, StatsRead, ResetStats, StatsReset, QueryAchievementDefinitions, DefinitionsRead,
       QueryAchievementStates, StatesRead, UnlockAchievements, AchievementsCommitted,
       OnUserAchievementStored, StatsCallFails, StoredUnheard, StatsTimeOut, SteamSendsStats,
       SteamCommits, SteamRejects, OtherPlays, GameIndicatesProgress, AsksForStats, Begins, AtOnce,
       Outside, Ends, Goes, Beside, queue

\* The types of the whole, and what is true of each component.
DataInv == IInv /\ login \in BOOLEAN /\ StatsInv /\ FilesInv

LEMMA DataInvInit == Init => DataInv
<1> SUFFICES ASSUME Init PROVE DataInv
  OBVIOUS
<1>1. login = TRUE /\ op = None /\ StatsInit /\ FilesInit BY DEF Init
<1>2. moves \in {0, 1}
  <2>1. Cardinality(used) \in {1, 2} /\ moves = Cardinality(used) - 1 BY DEF Init
  <2> QED BY <2>1
<1> QED BY <1>1, <1>2, IInvInit, StatsInvInit, FilesInvInit DEF DataInv

LEMMA DataInvStep == DataInv /\ [Next]_vars => DataInv'
<1> SUFFICES ASSUME DataInv, [Next]_vars PROVE DataInv'
  OBVIOUS
<1>1. IInv' /\ StatsInv /\ FilesInv /\ login \in BOOLEAN BY IInvStep DEF DataInv
<1>2. op \in OpType BY <1>1 DEF StatsInv, StatsTypes
<1>3. CASE StatsNext /\ UNCHANGED <<presenceVars, fileVars, socialVars, used>>
  <2>1. StatsInv' /\ (op' = op \/ (op \in Others /\ op' \in Others)) BY <1>1, <1>3, StatsInvStep
  <2>2. FilesInv' BY <1>1, <1>3, <2>1, FilesStutter
  <2> QED BY <1>1, <1>3, <2>1, <2>2, StatsKeepLogin DEF DataInv
<1>4. CASE (PresenceNext \/ SocialNext \/ LogInOrOut) /\ UNCHANGED <<statVars, fileVars>>
  <2>1. /\ moves' = moves \/ Moves
        /\ op' = op \/ (op \in Elses \cap Others /\ op' \in Elses \cap Others)
        /\ login' \in BOOLEAN
    BY <1>1, <1>2, <1>4, PeopleTakeTurns
  <2>2. StatsInv' BY <1>1, <1>4, <2>1, StatsStutter
  <2>3. FilesInv' BY <1>1, <1>4, <2>1, FilesStutter
  <2> QED BY <1>1, <2>1, <2>2, <2>3 DEF DataInv
<1>5. CASE FilesNext /\ UNCHANGED <<statVars, presenceVars, socialVars, used>>
  <2>1. FilesInv' /\ op' \in OpType BY <1>1, <1>2, <1>5, FilesStep
  <2>2. /\ moves' = moves \/ Moves
        /\ op' = op \/ (op \in Elses /\ op' \in Elses)
        /\ login' = login
    BY <1>2, <1>5, <2>1, FilesTakeTurns
  <2>3. StatsInv' BY <1>1, <1>5, <2>2, StatsStutter
  <2> QED BY <1>1, <2>1, <2>2, <2>3 DEF DataInv
<1>6. CASE Restart
  <2>1. Moves /\ login' = FALSE /\ op' = None /\ StatsForgotten /\ FilesForgotten BY <1>6 DEF Restart
  <2>2. StatsInv' BY <1>1, <2>1, StatsForgottenKeeps
  <2>3. FilesInv' BY <1>1, <1>2, <2>1, FilesForgottenKeeps
  <2> QED BY <1>1, <2>1, <2>2, <2>3 DEF DataInv
<1>7. CASE UNCHANGED vars
  <2>1. UNCHANGED <<login, op, moves, statVars, fileVars>> BY <1>7 DEF vars, queue
  <2>2. StatsInv' BY <1>1, <2>1, StatsStutter
  <2>3. FilesInv' BY <1>1, <2>1, FilesStutter
  <2> QED BY <1>1, <2>1, <2>2, <2>3 DEF DataInv
<1>8. LogInOrOut => UNCHANGED <<statVars, fileVars>> BY DEF LogInOrOut
<1> QED BY <1>3, <1>4, <1>5, <1>6, <1>7, <1>8 DEF Next

\* DataInv is true in every state.
THEOREM DataInvHolds == Spec => []DataInv
BY DataInvInit, DataInvStep, PTL DEF Spec

\* Whatever is called, answered, announced, rejected, given up on or begun again, for any
\* number of users, statistics, achievements and files, the queue and each component hold
\* what their types say: numbers stay within what Steam stores, and commits on their way
\* within the moves that asked for them.
THEOREM ServicesTypes == Spec => []TypeOK
<1>1. DataInv => TypeOK
  <2>1. DataInv => /\ login \in BOOLEAN /\ PresenceTypeOK /\ SocialTypeOK /\ FilesTypeOK /\ StatsTypes
    BY DEF DataInv, IInv, PresenceInv, SocialInv, StatsInv, FilesInv
  <2> QED BY <2>1 DEF TypeOK, StatsTypes, OpType
<1> QED BY <1>1, DataInvHolds, PTL

\* With no operation under way every file is as the writes, copies and deletions that
\* succeeded say (FUserFileSteam), for any number of files, packed or not, and however
\* late Steam performs a write that was given up on.
THEOREM FilesAreTheGamesHolds == Spec => []FilesAreTheGames
<1>1. DataInv => FilesAreTheGames
  <2> SUFFICES ASSUME DataInv, op = None, NEW f \in File \ unsure PROVE Agrees(f)
    BY DEF FilesAreTheGames, Agrees, Fits
  <2> QED BY DEF DataInv, FilesInv, FilesAgree, At
<1> QED BY <1>1, DataInvHolds, PTL

\* With nothing under way and nothing on its way from Steam, the game is shown the local
\* user's statistics and achievements as Steam holds them, but for what a named failure
\* left apart (FStatsSteam, FAchievementsSteam): whichever answer was taken for whichever
\* commit, for any number of statistics, achievements and commits.
THEOREM StatsAreSteamsHolds == Spec => []StatsAreSteams
<1>1. DataInv => StatsAreSteams
  <2> SUFFICES ASSUME DataInv, op = None, pipe = <<>>, commits = 0
               PROVE  Differs(cached, progress, held, got) \subseteq astray
    BY DEF StatsAreSteams
  <2>1. StatsTypes /\ ShownInv /\ UnlocksInv BY DEF DataInv, StatsInv
  <2>2. \A s \in Stat \ astray : ~StatDiffers(s) BY <2>1, NothingWaits, AtRestShown
  <2>3. ASSUME NEW a \in Achievement \ astray, progress # None PROVE ~((progress[a] = Unlocked) # got[a])
    <3>1. Len(pipe) = 0 OBVIOUS
    <3>2. (progress[a] = Unlocked => got[a]) /\ (got[a] => progress[a] = Unlocked)
      BY <2>1, <2>3, <3>1 DEF UnlocksInv, AchievementsShown
    <3>3. got[a] \in BOOLEAN BY <2>1, PipeType DEF Achieved
    <3> QED BY <3>2, <3>3
  <2> QED BY <2>2, <2>3 DEF Differs, StatDiffers
<1> QED BY <1>1, DataInvHolds, PTL
=============================================================================
