------------------------------- MODULE BitBuf --------------------------------
(***************************************************************************)
(* The buffers of src/source/modules/bitbuf.cpp: bf_read and bf_write of   *)
(* the engine over memory the module allocates, and the strings that go    *)
(* from one to the other through Lua.                                      *)
(*                                                                         *)
(* Everything is counted in bytes, since the sizes are, and a value is     *)
(* read and written as a whole.  What an operation of the engine does is   *)
(* external, and the overflow flag, which is only reported, is left out.   *)
(* Who frees a buffer is the matter of UserData.                           *)
(***************************************************************************)
EXTENDS Integers, Sequences, SequencesExt

CONSTANTS
    Buf,     \* the buffers of one Lua state
    Byte,    \* values of bytes
    Junk,    \* the value of memory that was never written
    MinSize, \* MIN_BUFFER_SIZE
    MaxSize, \* MAX_BUFFER_SIZE
    MaxText  \* bound on the length of the script's own strings

ASSUME JunkAssumption == Junk \notin Byte
ASSUME SizeAssumption == MinSize \in Nat /\ MaxSize \in Nat /\ 0 < MinSize /\ MinSize <= MaxSize
ASSUME TextAssumption == MaxText \in Nat

VARIABLES
    bufs,   \* the buffers: memory, m_iCurBit; and what they should hold
    long,   \* history: a string was longer than the largest buffer
    overrun \* history: more was copied than was allocated

buffers == <<bufs, long, overrun>>

Cell   == Byte \union {Junk}
Buffer == [kind: {"none", "read", "write"}, data: Seq(Cell), cur: Nat, text: Seq(Byte), moved: BOOLEAN]

BuffersTypeOK ==
    /\ bufs \in [Buf -> Buffer]
    /\ \A b \in Buf :
         /\ bufs[b].cur <= Len(bufs[b].data)
         /\ bufs[b].kind # "none" => Len(bufs[b].data) \in MinSize..MaxSize
    /\ long \in BOOLEAN /\ overrun \in BOOLEAN

NoBuffer == [kind |-> "none", data |-> <<>>, cur |-> 0, text |-> <<>>, moved |-> FALSE]

BuffersInit ==
    /\ bufs = [b \in Buf |-> NoBuffer]
    /\ long = FALSE /\ overrun = FALSE

-----------------------------------------------------------------------------
Least(a, b)   == IF a < b THEN a ELSE b
Largest(a, b) == IF a > b THEN a ELSE b

\* Mutant: the upper bound is taken before one is added.
ClampBF_Before(n) == Largest(Least(n, MaxSize) + 1, MinSize)

\* Mutant: the largest size is not allowed.
ClampBF_Below(n) == Largest(Least(n + 1, MaxSize - 1), MinSize)

\* CLAMP_BF
ClampBF(n) == Largest(Least(n + 1, MaxSize), MinSize)

\* malloc of a clamped size, and memcpy of the whole string.
Memory(n, bytes) == [i \in 1..ClampBF(n) |-> IF i <= Len(bytes) THEN bytes[i] ELSE Junk]

Make(b, kind, bytes, text, moved) ==
    /\ bufs[b].kind = "none"
    /\ bufs' = [bufs EXCEPT ![b] = [kind |-> kind, data |-> Memory(Len(bytes), bytes), cur |-> 0,
                                    text |-> text, moved |-> moved]]
    /\ overrun' = (overrun \/ Len(bytes) > ClampBF(Len(bytes)))
    /\ long' = (long \/ Len(bytes) > MaxSize)

\* GetData of either kind: what was written, or everything.
GetData(b) == IF bufs[b].kind = "write" THEN SubSeq(bufs[b].data, 1, bufs[b].cur) ELSE bufs[b].data

\* bitbuf.CreateReadBuffer of a string of the script, or of GetData
CreateReadBuffer(b) ==
    \/ \E t \in SeqOf(Byte, MaxText) : Make(b, "read", t, t, FALSE)
    \/ \E c \in Buf : bufs[c].kind # "none" /\ Make(b, "read", GetData(c), bufs[c].text, bufs[c].moved)

\* bitbuf.CreateWriteBuffer: writing begins at the first byte, whatever the
\* string put there.
CreateWriteBuffer(b) ==
    \/ /\ bufs[b].kind = "none"
       /\ \E n \in -1..MaxText :
            bufs' = [bufs EXCEPT ![b] = [NoBuffer EXCEPT !.kind = "write", !.data = Memory(n, <<>>)]]
       /\ UNCHANGED <<long, overrun>>
    \/ \E t \in SeqOf(Byte, MaxText) : Make(b, "write", t, <<>>, FALSE)

\* Mutant: a copy is as long as what is left to be read.
CopySize_Left(b) == Len(bufs[b].data) - bufs[b].cur

\* GetNumBytesRead and GetNumBytesLeft
CopySize(b) == bufs[b].cur + (Len(bufs[b].data) - bufs[b].cur)

\* bitbuf.CopyReadBuffer, from the base of the memory
CopyReadBuffer(b) ==
    \E c \in Buf : /\ bufs[c].kind = "read"
                   /\ Make(b, "read", SubSeq(bufs[c].data, 1, CopySize(c)), bufs[c].text, bufs[c].moved)

-----------------------------------------------------------------------------
(* Operations of the engine's classes. *)

Put(b, x) ==
    /\ bufs[b].kind = "write"
    /\ LET buf == bufs[b]
           n   == buf.cur + 1
       IN  bufs' = [bufs EXCEPT ![b] =
                      IF n <= Len(buf.data)
                      THEN [buf EXCEPT !.data = ReplaceAt(buf.data, n, x), !.cur = n,
                                       !.text = Append(buf.text, x)]
                      ELSE buf]
    /\ UNCHANGED <<long, overrun>>

ResetWriter(b) ==
    /\ bufs[b].kind = "write"
    /\ bufs' = [bufs EXCEPT ![b] = [@ EXCEPT !.cur = 0, !.text = <<>>, !.moved = FALSE]]
    /\ UNCHANGED <<long, overrun>>

SeekToBit(b) ==
    /\ bufs[b].kind = "write"
    /\ \E n \in 0..Len(bufs[b].data) :
         bufs' = [bufs EXCEPT ![b] = [@ EXCEPT !.cur = n, !.text = <<>>, !.moved = TRUE]]
    /\ UNCHANGED <<long, overrun>>

\* The reader goes on by n bytes, or to the end if there are fewer.
Advance(b, n) ==
    /\ bufs[b].kind = "read"
    /\ bufs' = [bufs EXCEPT ![b] = [@ EXCEPT !.cur = Least(bufs[b].cur + n, Len(bufs[b].data))]]
    /\ UNCHANGED <<long, overrun>>

Seek(b) ==
    /\ bufs[b].kind = "read"
    /\ \E n \in 0..Len(bufs[b].data) : bufs' = [bufs EXCEPT ![b] = [@ EXCEPT !.cur = n]]
    /\ UNCHANGED <<long, overrun>>

\* __gc
CollectBuffer(b) ==
    /\ bufs[b].kind # "none"
    /\ bufs' = [bufs EXCEPT ![b] = NoBuffer]
    /\ UNCHANGED <<long, overrun>>

-----------------------------------------------------------------------------
(* Properties. *)

\* What was written to a buffer is at the beginning of each reader made from it,
\* through GetData, CreateReadBuffer and CopyReadBuffer, also if the copy is made
\* half-way through reading; what follows was never written.  Nothing is copied
\* past the memory allocated for it, which stays within the two bounds although
\* each copy has one byte more than its original.  Unless a string of the script
\* was longer than the largest buffer.
TextKept ==
    ~long =>
        /\ ~overrun
        /\ \A b \in Buf : bufs[b].kind # "none" => Len(bufs[b].data) \in MinSize..MaxSize
        /\ \A b \in Buf : bufs[b].kind # "none" /\ ~bufs[b].moved =>
             LET text == bufs[b].text data == GetData(b)
             IN  /\ IsPrefix(text, data)
                 /\ bufs[b].kind = "read" => \A i \in Len(text) + 1..Len(data) : data[i] = Junk
=============================================================================
