----------------------------- MODULE CommandFile -----------------------------
(***************************************************************************)
(* The shell scripts that are generated from Command messages in the       *)
(* Content Addressable Storage.                                            *)
(*                                                                         *)
(* A script is never stored.  LookupFile() generates it to compute its     *)
(* size, and every VirtualRead() generates it again, keeping the part that *)
(* was asked for.  It is written as a series of strings, the boundaries of *)
(* which have nothing to do with those of the reads.                       *)
(*                                                                         *)
(* A process copies a script, skipping holes like cp(1) does.              *)
(***************************************************************************)
EXTENDS Integers, Sequences, SequencesExt

CONSTANTS
    Strings,     \* the strings that a script may consist of
    MaxStrings,  \* bound: the number of strings in a script
    MaxRead      \* bound: the size of the buffer of a read

ASSUME CommandFileAssumption ==
    /\ Strings \subseteq Seq(STRING)
    /\ MaxStrings \in Nat
    /\ MaxRead \in Nat

VARIABLES
    script,    \* the strings that ConvertCommandToShellScript() writes
    state,     \* the progress of the process
    size,      \* commandFile.size
    offset,    \* the offset of the process in the file
    region,    \* the end of the data region it is copying
    copied     \* what it has copied

commandVars == <<script, state, size, offset, region, copied>>

CommandInit ==
    /\ script \in UNION {[1 .. n -> Strings] : n \in 0 .. MaxStrings}
    /\ state = "lookup"
    /\ size = 0
    /\ offset = 0
    /\ region = 0
    /\ copied = <<>>

Least(x, y) == IF x < y THEN x ELSE y

-----------------------------------------------------------------------------
(* LookupFile(): the size is counted by sizeCountingWriter.                *)
SizeCounted ==
    LET count[k \in 0 .. Len(script)] ==
            IF k = 0 THEN 0 ELSE count[k - 1] + Len(script[k])
    IN  count[Len(script)]

LookupFile ==
    /\ state = "lookup"
    /\ size' = SizeCounted
    /\ state' = "found"
    /\ UNCHANGED <<script, offset, region, copied>>

(* The message cannot be loaded or converted: StatusErrIO.                 *)
LookupFileFails ==
    /\ state = "lookup"
    /\ state' = "failed"
    /\ UNCHANGED <<script, size, offset, region, copied>>

(* The kernel no longer has the file, and resolves its handle, for which   *)
(* handleAllocatingCommandFileFactory looks the file up again.             *)
ResolveFile ==
    /\ state \in {"found", "seek", "copy"}
    /\ size' = SizeCounted
    /\ UNCHANGED <<script, state, offset, region, copied>>

(* VirtualOpenSelf(): anything but reading is refused.                     *)
VirtualOpenSelf(write, truncate) ==
    /\ state = "found"
    /\ state' = IF write \/ truncate THEN "refused" ELSE "seek"
    /\ UNCHANGED <<script, size, offset, region, copied>>

(* VirtualSeek(): there is data from the offset to the end of the file.    *)
(* StatusErrNXIO tells the process that it is at the end.                  *)
VirtualSeek ==
    /\ state = "seek"
    /\ IF offset >= size
         THEN state' = "end" /\ UNCHANGED region
         ELSE state' = "copy" /\ region' = size
    /\ UNCHANGED <<script, size, offset, copied>>

(* virtual.BoundReadToFileSize(): the number of bytes to read.             *)
BoundReadToFileSize(length) == Least(length, IF offset < size THEN size - offset
                                             ELSE 0)

(* Mutant: the offset is kept, and applied to every string.                *)
WriteStringKept(w, s) ==
    IF w.offset >= Len(s) THEN [w EXCEPT !.offset = @ - Len(s)]
    ELSE LET n == Least(w.space, Len(s) - w.offset)
         IN  [w EXCEPT !.space = @ - n,
                       !.data = @ \o SubSeq(s, w.offset + 1, w.offset + n)]

(* regionExtractingWriter.WriteString().                                   *)
WriteString(w, s) ==
    IF w.offset >= Len(s) THEN [w EXCEPT !.offset = @ - Len(s)]
    ELSE LET n == Least(w.space, Len(s) - w.offset)
         IN  [space  |-> w.space - n,
              offset |-> 0,
              data   |-> w.data \o SubSeq(s, w.offset + 1, w.offset + n)]

(* What is left of the writer after all strings.                           *)
Written(n) ==
    LET writer[k \in 0 .. Len(script)] ==
            IF k = 0 THEN [space |-> n, offset |-> offset, data |-> <<>>]
            ELSE WriteString(writer[k - 1], script[k])
    IN  writer[Len(script)]

(* VirtualRead() panics if the script ends before the buffer is full.      *)
VirtualRead(length) ==
    /\ state = "copy"
    /\ LET n == BoundReadToFileSize(Least(length, region - offset))
           w == Written(n)
       IN  IF n > 0 /\ w.space # 0
             THEN state' = "panic" /\ UNCHANGED <<offset, copied>>
             ELSE /\ copied' = copied \o w.data
                  /\ offset' = offset + n
                  /\ state' = IF offset' = region THEN "seek" ELSE "copy"
    /\ UNCHANGED <<script, size, region>>

(* The message cannot be loaded: StatusErrIO.                              *)
VirtualReadFails ==
    /\ state = "copy"
    /\ state' = "failed"
    /\ UNCHANGED <<script, size, offset, region, copied>>

CommandNext ==
    \/ LookupFile
    \/ LookupFileFails
    \/ ResolveFile
    \/ \E write, truncate \in BOOLEAN : VirtualOpenSelf(write, truncate)
    \/ VirtualSeek
    \/ \E length \in 1 .. MaxRead : VirtualRead(length)
    \/ VirtualReadFails

-----------------------------------------------------------------------------
(* A process that copies a command file ends up with exactly the script,   *)
(* no matter the sizes of its reads and of the strings, some of which are  *)
(* empty; a read never finds less than the size promised, which makes      *)
(* VirtualRead() panic.                                                    *)
CopiedExactly ==
    LET whole == FlattenSeq(script)
    IN  /\ state # "panic"
        /\ copied = SubSeq(whole, 1, offset)
        /\ state = "end" => copied = whole
=============================================================================
