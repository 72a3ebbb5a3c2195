----------------------------- MODULE WriteWindow -----------------------------
(***************************************************************************)
(* fletcher::WriteBuffer (core/write_buffer.hpp): the byte window rows are *)
(* encoded into, over a vector that grows and over a fixed payload, with   *)
(* back-patching and with AppendInPlace, which lends the window's free end *)
(* to a producer that may call the buffer again.                           *)
(*                                                                         *)
(* A window is [kind, data, storage, pos, moved]: data is the whole window *)
(* (its length is capacity_), and moved tells that the address data_ is    *)
(* not the one a producer was last lent: a vector moves when its storage   *)
(* is too small.  An operation yields NoResult or <<window>>.  A uint32     *)
(* takes WordBytes bytes, and a byte is 0 or 1.                            *)
(***************************************************************************)
EXTENDS Integers, Sequences

CONSTANTS
  WordBytes,      \* sizeof(uint32_t)
  Chunk,          \* VectorWriteBuffer::kChunk
  FixedCapacity,  \* the capacity of the fixed buffers
  MaxWindow,      \* bound on the bytes a behaviour appends
  Scratch         \* whether a producer may use more of the window than it reports

ASSUME WriteWindowAssumption ==
  /\ WordBytes \in Nat \ {0} /\ Chunk \in Nat \ {0}
  /\ FixedCapacity \in Nat /\ MaxWindow \in Nat /\ Scratch \in BOOLEAN

VARIABLES
  window,   \* the WriteBuffer
  lent,     \* <<>>, or the lend in progress: the window as it was lent, and
            \* how much the producer has used
  meant     \* history: the bytes the calls that succeeded were to write

windowVars == <<window, lent, meant>>

NoResult == <<>>
ZeroBytes(n) == [i \in 1..n |-> 0]
Overwrite(s, at, bytes) ==
  [i \in DOMAIN s |-> IF i \in at + 1 .. at + Len(bytes) THEN bytes[i - at] ELSE s[i]]

NewVector == [kind |-> "vector", data |-> <<>>, storage |-> 0, pos |-> 0, moved |-> FALSE]
NewFixed(stale) == [kind |-> "fixed", data |-> stale, storage |-> Len(stale), pos |-> 0,
                    moved |-> FALSE]
Room(w) == Len(w.data) - w.pos

\* ReserveStorage, resize to size and Sync: the bytes stay, at a new address
\* when the storage is too small, and those past the old size are zero.
Resize(w, size) ==
  LET moves == w.storage < size
  IN  [w EXCEPT !.data = [i \in 1..size |-> IF i <= Len(w.data) THEN w.data[i] ELSE 0],
                !.storage = IF moves THEN 2 * size ELSE @,
                !.moved = @ \/ moves]

Refill(w, len) == Resize(w, w.pos + IF len > Chunk THEN len ELSE Chunk)

Put(w, bytes) == [w EXCEPT !.data = Overwrite(w.data, w.pos, bytes), !.pos = @ + Len(bytes)]

\* VectorWriteBuffer::AppendSlow and FixedWriteBuffer::AppendSlow.
AppendSlow(w, bytes) ==
  IF w.kind = "fixed" THEN NoResult
  ELSE IF Len(bytes) >= Chunk THEN <<Put(Resize(w, w.pos + Len(bytes)), bytes)>>
  ELSE <<Put(Refill(w, Len(bytes)), bytes)>>

AppendZerosSlow(w, len) ==
  IF w.kind = "fixed" THEN NoResult
  ELSE LET r == Refill(w, len) IN <<[r EXCEPT !.pos = @ + len]>>

AppendBytes(w, bytes) == IF Len(bytes) > Room(w) THEN AppendSlow(w, bytes) ELSE <<Put(w, bytes)>>

AppendZeros(w, len) ==
  IF len > Room(w) THEN AppendZerosSlow(w, len) ELSE <<Put(w, ZeroBytes(len))>>

\* The bytes of the row so far, handed over; the buffer starts again.
Finish(w) == [NewVector EXCEPT !.moved = TRUE]

PatchU32(w, offset, word) ==
  IF w.pos < Len(word) \/ offset > w.pos - Len(word) THEN NoResult
  ELSE <<[w EXCEPT !.data = Overwrite(w.data, offset, word)]>>

PatchByte(w, offset) ==
  IF offset >= w.pos THEN NoResult ELSE <<[w EXCEPT !.data[offset + 1] = 1]>>

WindowInit ==
  /\ window \in {NewVector} \cup {NewFixed(stale) : stale \in [1..FixedCapacity -> {1}]}
  /\ lent = <<>>
  /\ meant = <<>>

\* The caller's row is at most MaxWindow long.
Fits(n) == Len(meant) + n <= MaxWindow

Bytes == {<<1>>, [i \in 1..Chunk |-> 1]}
Word == [i \in 1..WordBytes |-> 1]

\* A call of the buffer, by its user or by the producer it is lent to; one
\* that is refused changes nothing, and its caller may go on.
Call(result, bytes) ==
  /\ window' = IF result = NoResult THEN window ELSE result[1]
  /\ meant' = IF result = NoResult THEN meant ELSE bytes
  /\ UNCHANGED lent

CallAppend ==
  \E bytes \in Bytes : Fits(Len(bytes)) /\ Call(AppendBytes(window, bytes), meant \o bytes)

CallAppendZeros ==
  \E n \in 1..WordBytes :
    Fits(n) /\ Call(AppendZeros(window, n), meant \o ZeroBytes(n))

\* WriteLengthPlaceholder's word is patched, a null bit is set.
CallPatch ==
  \E offset \in 0..MaxWindow :
    \/ Call(PatchU32(window, offset, Word), Overwrite(meant, offset, Word))
    \/ Call(PatchByte(window, offset), Overwrite(meant, offset, <<1>>))

CallFinish ==
  /\ window.kind = "vector"
  /\ window' = Finish(window)
  /\ meant' = <<>>
  /\ UNCHANGED lent

\* AppendInPlace up to the producer's call: the window is made long enough and
\* its position put back.  A nested call is refused before it does anything.
CallInPlace ==
  \E min \in 1..2 :
    /\ lent = <<>>
    /\ Fits(min)
    /\ LET made == IF min > Room(window) THEN AppendZerosSlow(window, min) ELSE <<window>>
           w == [made[1] EXCEPT !.pos = window.pos, !.moved = FALSE]
       IN  /\ made # NoResult
           /\ Room(w) >= min
           /\ window' = w
           /\ lent' = <<[window |-> w, used |-> 0]>>
    /\ UNCHANGED meant

\* The producer writes the next byte of the room it was lent, at the address
\* it was given: nobody's window any more when the buffer has moved.
Produce ==
  /\ lent # <<>>
  /\ LET l == lent[1] IN
     /\ l.used < Room(l.window)
     /\ Fits(l.used + 1)
     /\ window' = IF ~window.moved /\ Len(window.data) > l.window.pos + l.used
                  THEN [window EXCEPT !.data[l.window.pos + l.used + 1] = 1]
                  ELSE window
  /\ lent' = <<[lent[1] EXCEPT !.used = @ + 1]>>
  /\ UNCHANGED meant

\* Mutant: only a window that moved is refused.
SameWindowLoose(w, l) == ~w.moved

\* The lend was not disturbed: data_, pos_ and capacity_ are what they were.
SameWindow(w, l) == ~w.moved /\ w.pos = l.pos /\ Len(w.data) = Len(l.data)

\* An exception leaves the encoder and ends the row: the next one starts in a
\* new buffer, or in the same payload with whatever bytes are left in it.
Abandon ==
  /\ window' = IF window.kind = "vector" THEN NewVector ELSE NewFixed(window.data)
  /\ meant' = <<>>

\* The producer returns, reporting what it used or, with Scratch, less; a
\* report past the room and a window that is not the one lent are refused.
InPlaceReturns ==
  /\ lent # <<>>
  /\ LET l == lent[1] IN
     \E report \in (IF Scratch THEN 0..l.used ELSE {l.used}) \cup {Room(l.window) + 1} :
       IF SameWindow(window, l.window) /\ report <= Room(l.window)
       THEN /\ window' = [window EXCEPT !.pos = l.window.pos + report]
            /\ meant' = meant \o [i \in 1..report |-> 1]
       ELSE Abandon
  /\ lent' = <<>>

InPlaceThrows ==
  /\ lent # <<>>
  /\ Abandon
  /\ lent' = <<>>

WindowNext ==
  \/ CallAppend \/ CallAppendZeros \/ CallPatch \/ CallFinish
  \/ CallInPlace \/ Produce \/ InPlaceReturns \/ InPlaceThrows

WindowSpec == WindowInit /\ [][WindowNext]_windowVars

-----------------------------------------------------------------------------
(***************************************************************************)
(* Properties.                                                             *)
(***************************************************************************)

\* Between the calls, the bytes below the position are the ones the successful
\* calls wrote and patched, whatever refills moved the window, whatever a
\* producer did to the buffer while it was lent, and whatever was in the
\* memory before: a refused call commits nothing, and the zeros AppendZeros
\* writes for a null bitfield are zeros.
WindowHoldsWhatWasWritten ==
  /\ window.pos <= Len(window.data)
  /\ lent = <<>> => SubSeq(window.data, 1, window.pos) = meant

\* write_buffer.hpp:331: "resize() zero-fills the new bytes, which is the
\* value wanted here."  Every byte that AppendZeros was the last to write is
\* zero, also when an earlier producer had used more of the window than it
\* reported.
ZerosAreZeros ==
  lent = <<>> => \A i \in 1..window.pos : meant[i] = 0 => window.data[i] = 0
=============================================================================
