---------------------------- MODULE CacheProofs -----------------------------
(***************************************************************************)
(* For every size of the pinned file and of what the mirror may serve      *)
(* instead: only the pinned file gets a place in the cache.                *)
(***************************************************************************)
EXTENDS CacheDownload, TLAPS

\* The rename follows the check of the hash, and nothing comes in between
\* that touches the part.
CheckedInv == pc = "rename" => partOk

LEMMA InitChecked == Init => CheckedInv
  BY DEF Init, CheckedInv

\* One step per action.
LEMMA NextChecked == ASSUME CheckedInv, [Next]_vars PROVE CheckedInv'
<1>. USE DEF CheckedInv, outside
<1>1. CASE Ensure \/ AnswerRange \/ AnswerWhole \/ AnswerNoRange \/ AnswerError
  BY <1>1 DEF Ensure, AnswerRange, AnswerWhole, AnswerNoRange, AnswerError
<1>2. CASE ReadBlock \/ ReadEnd \/ ReadFails
  BY <1>2 DEF ReadBlock, ReadEnd, ReadFails
<1>3. CASE WrongSize \/ WrongSum \/ RightSum \/ Rename
  BY <1>3 DEF WrongSize, WrongSum, RightSum, Rename
<1>4. CASE CancelJob \/ Exit \/ MirrorChanges \/ Settle
  BY <1>4 DEF CancelJob, Exit, MirrorChanges, Settle
<1>5. CASE UNCHANGED vars
  BY <1>5 DEF vars
<1>. QED  BY <1>1, <1>2, <1>3, <1>4, <1>5 DEF Next, Download

\* Only Rename changes the file in the cache.
LEMMA OthersLeaveDest ==
    ASSUME [Next]_vars, ~Rename PROVE dest' = dest
<1>1. CASE Download
  BY <1>1 DEF Download, Ensure, AnswerRange, AnswerWhole, AnswerNoRange,
              AnswerError, ReadBlock, ReadEnd, ReadFails, WrongSize,
              WrongSum, RightSum
<1>2. CASE CancelJob \/ Exit \/ MirrorChanges \/ Settle
  BY <1>2 DEF CancelJob, Exit, MirrorChanges, Settle
<1>3. CASE UNCHANGED vars
  BY <1>3 DEF vars
<1>. QED  BY <1>1, <1>2, <1>3 DEF Next

\* Whatever earlier calls left and the mirror serves, the file that takes the
\* place in the cache is the pinned one (download's hash over part and body).
THEOREM OnlyThePinnedHolds == Spec => OnlyThePinned
<1>1. Spec => []CheckedInv
  BY InitChecked, NextChecked, PTL DEF Spec
<1>2. CheckedInv /\ [Next]_vars => [dest' # dest => dest' = "pinned"]_vars
  <2>1. SUFFICES ASSUME CheckedInv, [Next]_vars, dest' # dest
                 PROVE  dest' = "pinned"
    OBVIOUS
  <2>2. Rename
    BY <2>1, OthersLeaveDest
  <2>. QED  BY <2>1, <2>2 DEF CheckedInv, Rename
<1>. QED  BY <1>1, <1>2, PTL DEF Spec, OnlyThePinned
-----------------------------------------------------------------------------
(* What was received is kept.                                              *)

\* A part that is a prefix of the pinned file is not longer than it, and
\* only the pinned file has blocks of it.
PrefixInv ==
    /\ {mirror, body} \subseteq {Pinned} \cup Others
    /\ partLen \in Nat \cup {NoPart}
    /\ partOk => partLen <= Size

LEMMA InitPrefix == Init => PrefixInv
  BY CacheConstants DEF Init, PrefixInv, NoPart

LEMMA NextPrefix == ASSUME PrefixInv, [Next]_vars PROVE PrefixInv'
<1>. USE CacheConstants DEF PrefixInv, outside, NoPart
<1>1. CASE Ensure \/ AnswerRange \/ AnswerWhole \/ AnswerNoRange \/ AnswerError
  BY <1>1 DEF Ensure, AnswerRange, AnswerWhole, AnswerNoRange, AnswerError
<1>2. CASE ReadBlock
  <2>1. body.size \in Nat /\ (body.pinned => body.size = Size)
    <3>1. CASE body = Pinned
      BY <3>1 DEF Pinned
    <3>2. CASE body \in Others
      BY <3>2 DEF Others, Versions
    <3>. QED  BY <3>1, <3>2
  <2>2. /\ partLen' = partLen + 1 /\ partLen < body.size
        /\ partOk' => body.pinned
        /\ UNCHANGED <<mirror, body>>
    BY <1>2 DEF ReadBlock
  <2>3. partLen' \in Nat
    BY <2>2
  <2>4. partOk' => partLen' <= Size
    BY <2>1, <2>2
  <2>. QED  BY <2>2, <2>3, <2>4
<1>3. CASE ReadEnd \/ ReadFails
  BY <1>3 DEF ReadEnd, ReadFails
<1>4. CASE WrongSize \/ WrongSum \/ RightSum \/ Rename
  BY <1>4 DEF WrongSize, WrongSum, RightSum, Rename
<1>5. CASE CancelJob \/ Exit \/ MirrorChanges \/ Settle
  BY <1>5 DEF CancelJob, Exit, MirrorChanges, Settle
<1>6. CASE UNCHANGED vars
  BY <1>6 DEF vars
<1>. QED  BY <1>1, <1>2, <1>3, <1>4, <1>5, <1>6 DEF Next, Download

\* What was received of the pinned file is not given up while the mirror does
\* ranges: only a 200 writes the part anew, and what EnsureFile removes for
\* its length or its sum was no prefix of the pinned file (download).
THEOREM KeepsWhatIsGoodHolds == Spec => KeepsWhatIsGood
<1>1. Spec => []PrefixInv
  BY InitPrefix, NextPrefix, PTL DEF Spec
<1>2. PrefixInv /\ [Next]_vars =>
         [partOk /\ partLen > 0 /\ partLen' < partLen
            => dest' = "pinned" \/ (pc = "request" /\ pc' = "read")]_vars
  <2>. SUFFICES ASSUME PrefixInv, Next, partOk, partLen > 0, partLen' < partLen
                PROVE  dest' = "pinned" \/ (pc = "request" /\ pc' = "read")
    OBVIOUS
  <2>1. partLen \in Nat /\ partLen <= Size /\ Size \in Nat
    BY CacheConstants DEF PrefixInv, NoPart
  <2>2. partLen' # partLen /\ ~(partLen > Size) /\ ~(partLen' = partLen + 1)
    <3>1. partLen' # partLen /\ ~(partLen > Size)
      BY <2>1
    <3>2. ASSUME partLen' = partLen + 1 PROVE FALSE
      BY <2>1, <3>2
    <3>. QED  BY <3>1, <3>2
  <2>3. CASE Download
    <3>1. AnswerWhole \/ Rename
      BY <2>2, <2>3
         DEF Download, Ensure, AnswerRange, AnswerNoRange, AnswerError,
             ReadBlock, ReadEnd, ReadFails, WrongSize, WrongSum, RightSum
    <3>. QED  BY <3>1 DEF AnswerWhole, Rename
  <2>4. CASE CancelJob \/ Exit \/ MirrorChanges \/ Settle
    BY <2>2, <2>4 DEF CancelJob, Exit, MirrorChanges, Settle
  <2>. QED  BY <2>3, <2>4 DEF Next
<1>. QED  BY <1>1, <1>2, PTL DEF Spec, KeepsWhatIsGood
-----------------------------------------------------------------------------
\* A part grows within the version that is being received.
ReadingInv == TypeOK /\ PrefixInv /\ (pc = "read" => partLen <= body.size)

LEMMA SizesAre == \A v \in Versions : v.size \in Nat
  BY CacheConstants DEF Versions

LEMMA InitReading == Init => ReadingInv
<1>. SUFFICES ASSUME Init PROVE ReadingInv
  OBVIOUS
<1>1. Pinned \in Versions /\ Others \subseteq Versions
  BY CacheConstants DEF Pinned, Others, Versions
<1>2. /\ pc = "idle" /\ cancelled = FALSE /\ dest \in {"none", "other"}
      /\ partLen = NoPart /\ partOk = TRUE /\ body = Pinned
      /\ mirror \in {Pinned} \cup Others /\ changes = 0 /\ steady = FALSE
  BY DEF Init
<1>3. 0 \in 0 .. MaxChanges /\ mirror \in Versions
  BY <1>1, <1>2, CacheConstants
<1>4. TypeOK
  BY <1>1, <1>2, <1>3 DEF TypeOK
<1>. QED  BY <1>2, <1>4, InitPrefix DEF ReadingInv

LEMMA NextReading == ASSUME ReadingInv, [Next]_vars PROVE ReadingInv'
<1>1. Pinned \in Versions /\ Others \subseteq Versions /\ Pinned.size = Size
  BY CacheConstants DEF Pinned, Others, Versions
<1>2. PrefixInv'
  BY NextPrefix DEF ReadingInv
<1>3. Size \in Nat /\ partLen \in Int /\ changes \in Nat /\ MaxChanges \in Nat
      /\ body.size \in Nat /\ mirror.size \in Nat
  BY SizesAre, CacheConstants DEF ReadingInv, PrefixInv, TypeOK, NoPart
<1>4. (pc = "read" => partLen <= body.size)' /\ TypeOK'
  <2>. USE <1>1, <1>3 DEF ReadingInv, TypeOK, outside, NoPart
  <2>1. CASE Ensure
    <3>1. /\ pc' = "request" /\ cancelled' = FALSE
          /\ UNCHANGED <<dest, body, mirror, changes, steady>>
      BY <2>1 DEF Ensure
    <3>2. CASE partLen > Size
      <4>1. partLen' = NoPart /\ partOk' = TRUE
        BY <2>1, <3>2 DEF Ensure
      <4>2. partLen' <= Size
        BY <4>1
      <4>. QED  BY <3>1, <4>1, <4>2
    <3>3. CASE ~(partLen > Size)
      <4>1. partLen' = partLen /\ partOk' = partOk
        BY <2>1, <3>3 DEF Ensure
      <4>2. partLen' <= Size
        BY <3>3, <4>1
      <4>. QED  BY <3>1, <4>1, <4>2
    <3>. QED  BY <3>2, <3>3
  <2>2. CASE AnswerRange
    BY <2>2 DEF AnswerRange
  <2>3. CASE AnswerWhole
    BY <2>3 DEF AnswerWhole
  <2>4. CASE AnswerNoRange \/ AnswerError \/ ReadEnd \/ ReadFails
    BY <2>4 DEF AnswerNoRange, AnswerError, ReadEnd, ReadFails
  <2>5. CASE ReadBlock
    <3>1. /\ pc = "read" /\ partLen < body.size /\ partLen' = partLen + 1
          /\ partOk' = (partOk /\ body.pinned)
          /\ UNCHANGED <<pc, cancelled, dest, body, mirror, changes, steady>>
      BY <2>5 DEF ReadBlock
    <3>2. partLen' # NoPart => partLen' \in 0 .. body.size
      <4>1. partLen \in Nat \cup {NoPart}
        BY DEF PrefixInv
      <4>. QED  BY <3>1, <4>1
    <3>3. partOk' \in BOOLEAN
      BY <3>1
    <3>. QED  BY <3>1, <3>2, <3>3
  <2>6. CASE WrongSize \/ WrongSum \/ RightSum \/ Rename
    BY <2>6 DEF WrongSize, WrongSum, RightSum, Rename
  <2>7. CASE CancelJob \/ Exit \/ Settle
    BY <2>7 DEF CancelJob, Exit, Settle
  <2>8. CASE MirrorChanges
    BY <2>8 DEF MirrorChanges
  <2>9. CASE UNCHANGED vars
    BY <2>9 DEF vars
  <2>. QED  BY <2>1, <2>2, <2>3, <2>4, <2>5, <2>6, <2>7, <2>8, <2>9 DEF Next, Download
<1>. QED  BY <1>2, <1>4 DEF ReadingInv

\* The state of a download has its shape, and a request is sent for a part that
\* is not longer than the file (EnsureFile).
THEOREM TypeCorrect == Spec => []TypeOK
<1>1. ReadingInv => TypeOK
  BY DEF ReadingInv
<1>. QED  BY <1>1, InitReading, NextReading, PTL DEF Spec
=============================================================================
