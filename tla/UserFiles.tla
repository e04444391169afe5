------------------------------ MODULE UserFiles ------------------------------
(***************************************************************************)
(* FUserFileSteam: the local user's files in Steam's cloud.                *)
(*                                                                         *)
(* Contents are packed on the way out, when the configuration says so and  *)
(* it saves anything; what is read is unpacked when it carries the mark of *)
(* a packed file, whatever the configuration has become.  Steam performs   *)
(* writes in order, a write the game gave up on among them.  The list of   *)
(* files is kept up to date by this side alone.                            *)
(***************************************************************************)
EXTENDS ServiceQueue

CONSTANTS
  File,
  Absent,      \* no such file
  Unreadable   \* what cannot be unpacked

VARIABLES
  bCompressBeforeUpload, \* the configuration
  cloudEnabled,          \* Steam: whether the cloud is on, for the account and the game
  cloud,                 \* Steam: each file as it is stored
  writes,                \* Steam: writes to perform, in order
  enumerated,            \* EnumeratedFiles
  contents,              \* history: what the game was told each file holds
  unsure                 \* history: files with a write that was given up on

fileVars == <<bCompressBeforeUpload, cloudEnabled, cloud, writes, enumerated, contents, unsure>>

\* Contents that shrink when packed, and contents that begin with the mark.
Content == {"plain", "long", "marked"}
Shrinks(c) == c = "long"

Stored(c, packed) == [of |-> c, packed |-> packed]

Compress(c) == Stored(c, Shrinks(c))

StoredFile == {Stored(c, FALSE) : c \in Content} \cup {Stored("long", TRUE)}

ASSUME FilesAssumption == Absent \notin Content /\ Absent \notin StoredFile

\* Eight bytes or more that begin with STZ1.
IsCompressed(stored) == stored.packed \/ stored.of = "marked"

\* Mutant of Decompress: the configuration decides and not the file.
DecompressAsConfigured(stored) ==
  IF bCompressBeforeUpload = stored.packed THEN stored.of ELSE Unreadable

Decompress(stored) ==
  IF ~IsCompressed(stored) \/ stored.packed THEN stored.of ELSE Unreadable

\* CheckLocalUser, before anything is asked of Steam.
CheckLocalUser == login /\ cloudEnabled

-----------------------------------------------------------------------------

EnumerateFiles ==
  /\ CheckLocalUser /\ AtOnce
  /\ enumerated' = {f \in File : cloud[f] # Absent}
  /\ UNCHANGED <<bCompressBeforeUpload, cloudEnabled, cloud, writes, contents, unsure>>

ReadFile(f) ==
  /\ CheckLocalUser /\ Begins([do |-> "ReadFile", step |-> "reading", from |-> f])
  /\ UNCHANGED fileVars

\* FSteamWriteUserFile: Steam takes a copy.
WriteUserFile(f, stored) == writes' = Append(writes, [file |-> f, stored |-> stored])

WriteFile(f, c) ==
  /\ CheckLocalUser
  /\ Begins([do |-> "WriteFile", step |-> "writing", file |-> f, contents |-> c, sure |-> TRUE])
  /\ WriteUserFile(f, IF bCompressBeforeUpload THEN Compress(c) ELSE Stored(c, FALSE))
  /\ UNCHANGED <<bCompressBeforeUpload, cloudEnabled, cloud, enumerated, contents, unsure>>

CopyFile(source, target) ==
  /\ CheckLocalUser
  /\ Begins([do |-> "CopyFile", step |-> "reading", from |-> source, file |-> target,
             contents |-> contents[source], sure |-> source \notin unsure])
  /\ UNCHANGED fileVars

\* The source's bytes, exactly as they are stored, go out under the other name.
SourceRead ==
  /\ Runs("CopyFile") /\ At("reading") /\ cloud[op.from] # Absent /\ Goes("writing")
  /\ WriteUserFile(op.file, cloud[op.from])
  /\ UNCHANGED <<bCompressBeforeUpload, cloudEnabled, cloud, enumerated, contents, unsure>>

\* Mutant of AddUnique: a list that was read is left as it was read.
AddNothing(f) == enumerated' = enumerated

\* A file that was not there before is now.
AddUnique(f) == enumerated' = IF enumerated = None THEN None ELSE enumerated \cup {f}

\* WriteFile and CopyFile succeed.
FileWritten ==
  /\ At("written") /\ Ends
  /\ AddUnique(op.file)
  /\ contents' = [contents EXCEPT ![op.file] = op.contents]
  /\ unsure' = IF op.sure THEN unsure \ {op.file} ELSE unsure \cup {op.file}
  /\ UNCHANGED <<bCompressBeforeUpload, cloudEnabled, cloud, writes>>

\* Steam deletes at once, or there is no such file.
DeleteFile(f) ==
  /\ CheckLocalUser /\ AtOnce /\ cloud[f] # Absent
  /\ cloud' = [cloud EXCEPT ![f] = Absent]
  /\ enumerated' = IF enumerated = None THEN None ELSE enumerated \ {f}
  /\ contents' = [contents EXCEPT ![f] = Absent]
  /\ UNCHANGED <<bCompressBeforeUpload, cloudEnabled, writes, unsure>>

\* What becomes of the file an operation that is given up on was writing.
GivenUpOn == IF At("writing") \/ At("written") THEN {op.file} ELSE {}

\* A read that is answered, either way; a file that is not there; a write Steam refuses.
FileCallEnds ==
  /\ At("reading") \/ At("refused")
  /\ Ends /\ UNCHANGED fileVars

\* The deadline of a write.
WriteTimesOut ==
  /\ At("writing") \/ At("written")
  /\ Ends /\ unsure' = unsure \cup GivenUpOn
  /\ UNCHANGED <<bCompressBeforeUpload, cloudEnabled, cloud, writes, enumerated, contents>>

-----------------------------------------------------------------------------
(* Steam and the account.                                                  *)

\* Only the last of the writes can be one somebody waits for.
IsAwaited == At("writing") /\ Len(writes) = 1
SteamAnswers(step) == IF IsAwaited THEN Goes(step) ELSE Beside

SteamWrites ==
  /\ writes # <<>> /\ writes' = Tail(writes)
  /\ cloud' = [cloud EXCEPT ![Head(writes).file] = Head(writes).stored]
  /\ SteamAnswers("written")
  /\ UNCHANGED <<bCompressBeforeUpload, cloudEnabled, enumerated, contents, unsure>>

SteamRefuses ==
  /\ writes # <<>> /\ writes' = Tail(writes)
  /\ SteamAnswers("refused")
  /\ UNCHANGED <<bCompressBeforeUpload, cloudEnabled, cloud, enumerated, contents, unsure>>

CloudIsSwitched ==
  /\ Outside /\ cloudEnabled' = ~cloudEnabled
  /\ UNCHANGED <<bCompressBeforeUpload, cloud, writes, enumerated, contents, unsure>>

-----------------------------------------------------------------------------

\* Files may be there from before, packed or not.
FilesInit ==
  /\ bCompressBeforeUpload \in BOOLEAN /\ cloudEnabled = TRUE
  /\ cloud \in {[f \in File |-> Absent], [f \in File |-> Compress("long")], [f \in File |-> Stored("plain", FALSE)]}
  /\ contents = [f \in File |-> IF cloud[f] = Absent THEN Absent ELSE cloud[f].of]
  /\ writes = <<>> /\ enumerated = None /\ unsure = {}

\* A new instance reads the configuration again and has enumerated nothing.
FilesForgotten ==
  /\ bCompressBeforeUpload' \in BOOLEAN
  /\ enumerated' = None
  /\ unsure' = unsure \cup GivenUpOn
  /\ UNCHANGED <<cloudEnabled, cloud, writes, contents>>

FilesNext ==
  \/ EnumerateFiles
  \/ \E f \in File : ReadFile(f) \/ DeleteFile(f)
  \/ \E f \in File, c \in Content : WriteFile(f, c)
  \/ \E source, target \in File : CopyFile(source, target)
  \/ SourceRead \/ FileWritten \/ FileCallEnds \/ WriteTimesOut
  \/ SteamWrites \/ SteamRefuses \/ CloudIsSwitched

-----------------------------------------------------------------------------
(* Properties.                                                             *)

FilesOp ==
  [do : {"ReadFile"}, step : {"reading"}, from : File]
  \cup [do : {"WriteFile"}, step : {"writing", "written", "refused"}, file : File, contents : Content, sure : {TRUE}]
  \cup [do : {"CopyFile"}, step : {"reading", "writing", "written", "refused"}, from : File, file : File,
        contents : Content \cup {Absent}, sure : BOOLEAN]

FilesTypeOK ==
  /\ bCompressBeforeUpload \in BOOLEAN /\ cloudEnabled \in BOOLEAN
  /\ cloud \in [File -> StoredFile \cup {Absent}]
  /\ writes \in Seq([file : File, stored : StoredFile])
  /\ enumerated \in {None} \cup SUBSET File
  /\ contents \in [File -> Content \cup {Absent}]
  /\ unsure \subseteq File

\* With no operation under way, a file is in the cloud exactly if the game's writes, copies
\* and deletions that succeeded say so, a list that was read names it exactly then, and it
\* reads as the game last wrote it, whichever way it was stored and the configuration has
\* changed since.  Left out are files with a write that was given up on, until one
\* succeeds, and contents that begin with the mark and are stored as they are.
FilesAreTheGames ==
  op = None => \A f \in File \ unsure :
    /\ (cloud[f] = Absent) <=> (contents[f] = Absent)
    /\ enumerated # None => (f \in enumerated <=> cloud[f] # Absent)
    /\ cloud[f] # Absent => Decompress(cloud[f]) \in {contents[f]} \cup
                              (IF contents[f] = "marked" THEN {Unreadable} ELSE {})
=============================================================================
