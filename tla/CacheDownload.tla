--------------------------- MODULE CacheDownload ----------------------------
(***************************************************************************)
(* One official file in the creator's image cache: Store.EnsureFile and    *)
(* Store.download of src/creator/internal/cache/cache.go.  Jobs call it    *)
(* again and again; each call may be cancelled, cut off by the network or  *)
(* end with its process, and leaves <file>.part for the next one.  The     *)
(* mirror may serve another version of the file, with or without ranges.   *)
(*                                                                         *)
(* A file is a length in blocks and whether all of it is the pinned file's *)
(* (a prefix of it, for the part).                                         *)
(***************************************************************************)
EXTENDS Integers

CONSTANTS
    Size,        \* blocks of the pinned file
    OtherSizes,  \* blocks of the other versions the mirror may serve
    MaxChanges   \* bound: how often the mirror changes

ASSUME CacheConstants ==
    /\ Size \in Nat \ {0} /\ OtherSizes \subseteq Nat \ {0}
    /\ MaxChanges \in Nat

NoPart == -1
Versions == [size : {Size} \cup OtherSizes, pinned : BOOLEAN]
Pinned == [size |-> Size, pinned |-> TRUE]
Others == {v \in Versions : v.size \in OtherSizes /\ ~v.pinned}

VARIABLES
    pc, cancelled,
    dest,             \* the finished file
    partLen, partOk,  \* <file>.part
    body,             \* the version that the open response carries
    mirror, changes, steady

vars == <<pc, cancelled, dest, partLen, partOk, body, mirror, changes, steady>>
outside == <<mirror, changes, steady>>

TypeOK ==
    /\ pc \in {"idle", "request", "read", "verify", "rename"}
    /\ cancelled \in BOOLEAN
    /\ dest \in {"none", "other", "pinned"}
    /\ partLen # NoPart => \E v \in Versions : partLen \in 0 .. v.size
    /\ pc = "request" => partLen <= Size
    /\ partOk \in BOOLEAN
    /\ body \in Versions /\ mirror \in Versions
    /\ changes \in 0 .. MaxChanges /\ steady \in BOOLEAN

\* The catalog of a newer creator pins a file that an older one has stored
\* under the same name.
Init ==
    /\ pc = "idle" /\ cancelled = FALSE
    /\ dest \in {"none", "other"}
    /\ partLen = NoPart /\ partOk = TRUE
    /\ body = Pinned
    /\ mirror \in {Pinned} \cup Others /\ changes = 0 /\ steady = FALSE

\* Mutant: only a part of the right length is looked at.
EnsureKeepsAny ==
    /\ pc = "idle" /\ dest # "pinned"
    /\ pc' = "request" /\ cancelled' = FALSE
    /\ UNCHANGED <<dest, partLen, partOk, body, outside>>

\* A call of EnsureFile for a file that is not there or not the pinned one.
\* A part that is too long is removed.
Ensure ==
    /\ pc = "idle" /\ dest # "pinned"
    /\ IF partLen > Size THEN partLen' = NoPart /\ partOk' = TRUE
       ELSE UNCHANGED <<partLen, partOk>>
    /\ pc' = "request" /\ cancelled' = FALSE
    /\ UNCHANGED <<dest, body, outside>>

\* 206, with the rest of the file
AnswerRange ==
    /\ pc = "request" /\ ~cancelled
    /\ partLen > 0 /\ partLen < mirror.size
    /\ body' = mirror /\ pc' = "read"
    /\ UNCHANGED <<cancelled, dest, partLen, partOk, outside>>

\* 200, because nothing else was asked for or the mirror does not do ranges:
\* the part is written anew.
AnswerWhole ==
    /\ pc = "request" /\ ~cancelled
    /\ body' = mirror /\ pc' = "read"
    /\ partLen' = 0 /\ partOk' = TRUE
    /\ UNCHANGED <<cancelled, dest, outside>>

\* 416: there is nothing behind the part.
AnswerNoRange ==
    /\ pc = "request"
    /\ partLen > 0 /\ partLen >= mirror.size
    /\ pc' = "idle"
    /\ UNCHANGED <<cancelled, dest, partLen, partOk, body, outside>>

\* No connection, another status, or ctx.
AnswerError ==
    /\ pc = "request"
    /\ ~steady \/ cancelled
    /\ pc' = "idle"
    /\ UNCHANGED <<cancelled, dest, partLen, partOk, body, outside>>

ReadBlock ==
    /\ pc = "read" /\ ~cancelled /\ partLen < body.size
    /\ partLen' = partLen + 1
    /\ partOk' = (partOk /\ body.pinned)
    /\ UNCHANGED <<pc, cancelled, dest, body, outside>>

\* io.EOF, also of a body that is too short
ReadEnd ==
    /\ pc = "read" /\ ~cancelled
    /\ ~steady \/ partLen = body.size
    /\ pc' = "verify"
    /\ UNCHANGED <<cancelled, dest, partLen, partOk, body, outside>>

\* An error of the connection or of the disk, or ctx at the top of the loop
ReadFails ==
    /\ pc = "read"
    /\ ~steady \/ cancelled
    /\ pc' = "idle"
    /\ UNCHANGED <<cancelled, dest, partLen, partOk, body, outside>>

\* Mutant: a short part is thrown away with the wrong ones.
WrongSizeRemoves ==
    /\ pc = "verify" /\ partLen # Size
    /\ partLen' = NoPart /\ partOk' = TRUE
    /\ pc' = "idle"
    /\ UNCHANGED <<cancelled, dest, body, outside>>

WrongSize ==
    /\ pc = "verify" /\ partLen # Size
    /\ pc' = "idle"
    /\ UNCHANGED <<cancelled, dest, partLen, partOk, body, outside>>

WrongSum ==
    /\ pc = "verify" /\ partLen = Size /\ ~partOk
    /\ partLen' = NoPart /\ partOk' = TRUE
    /\ pc' = "idle"
    /\ UNCHANGED <<cancelled, dest, body, outside>>

\* Mutant: the checksum covers what this call has received.
SumOfTheBody ==
    /\ pc = "verify" /\ partLen = Size /\ body.pinned
    /\ pc' = "rename"
    /\ UNCHANGED <<cancelled, dest, partLen, partOk, body, outside>>

\* The hash was fed with the old part before the body.
RightSum ==
    /\ pc = "verify" /\ partLen = Size /\ partOk
    /\ pc' = "rename"
    /\ UNCHANGED <<cancelled, dest, partLen, partOk, body, outside>>

Rename ==
    /\ pc = "rename"
    /\ dest' = IF partOk THEN "pinned" ELSE "other"
    /\ partLen' = NoPart /\ partOk' = TRUE
    /\ pc' = "idle"
    /\ UNCHANGED <<cancelled, body, outside>>

Download ==
    \/ Ensure \/ AnswerRange \/ AnswerWhole \/ AnswerNoRange \/ AnswerError
    \/ ReadBlock \/ ReadEnd \/ ReadFails
    \/ WrongSize \/ WrongSum \/ RightSum \/ Rename

\* The retailer cancels the job.
CancelJob ==
    /\ pc # "idle" /\ ~steady /\ ~cancelled
    /\ cancelled' = TRUE
    /\ UNCHANGED <<pc, dest, partLen, partOk, body, outside>>

\* The creator is closed or killed.
Exit ==
    /\ pc # "idle" /\ ~steady
    /\ pc' = "idle"
    /\ UNCHANGED <<cancelled, dest, partLen, partOk, body, outside>>

MirrorChanges ==
    /\ changes < MaxChanges /\ ~steady
    /\ changes' = changes + 1
    /\ mirror' \in ({Pinned} \cup Others) \ {mirror}
    /\ UNCHANGED <<pc, cancelled, dest, partLen, partOk, body, steady>>

\* From here on the mirror has the pinned file, the network works, and
\* nobody cancels a job: nothing but left-overs can be in the way.
Settle ==
    /\ ~steady /\ mirror = Pinned
    /\ steady' = TRUE
    /\ UNCHANGED <<pc, cancelled, dest, partLen, partOk, body, mirror, changes>>

Next == Download \/ CancelJob \/ Exit \/ MirrorChanges \/ Settle

\* A call runs to its end, and the retailer tries again.
Spec == Init /\ [][Next]_vars /\ WF_vars(Download)

-----------------------------------------------------------------------------
(* Properties.                                                             *)

\* Whatever part earlier calls left and whichever versions they read, only
\* the pinned file takes the place in the cache (hash over old part and body).
OnlyThePinned == [][dest' # dest => dest' = "pinned"]_vars

\* What was received of the pinned file is not given up while the mirror does
\* ranges: only a 200 writes the part anew (no error path of download removes
\* a part that is a prefix of the pinned file).
KeepsWhatIsGood ==
    [][partOk /\ partLen > 0 /\ partLen' < partLen
        => dest' = "pinned" \/ (pc = "request" /\ pc' = "read")]_vars

\* The file is in the way of its own download: all of it, not yet renamed.
Complete == pc = "idle" /\ partLen = Size

\* Once the mirror and the network are steady the retailer gets the file by
\* trying again, unless a part of the full length was left.
SettlesUnlessComplete == steady ~> dest = "pinned" \/ Complete

\* Once the mirror and the network are steady the retailer gets the file by
\* trying again.
Settles == steady ~> dest = "pinned"
=============================================================================
