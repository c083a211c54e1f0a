------------------------------- MODULE Buffer -------------------------------
(***************************************************************************)
(* The byte buffer of a connection (Memorys/Buffer.h): a vector with a     *)
(* read and a write index, grown or compacted when the room behind the     *)
(* write index is too small.  Integers are appended and read as bytes of   *)
(* their width.  The connection's thread is the only one to use it.        *)
(***************************************************************************)
EXTENDS Integers, Sequences

CONSTANTS
    Byte,         \* byte values
    Initial,      \* initSize, InitialSize in the code
    Extra,        \* size of readFd's second buffer (65536 in the code)
    MaxLen,       \* bound: bytes of one append or read
    MaxReadable   \* bound: bytes kept in the buffer

ASSUME BufferAssumption ==
    /\ Byte # {} /\ Initial \in Nat /\ Extra \in Nat
    /\ MaxLen \in Nat /\ MaxReadable \in Nat

VARIABLES
    vec,  \* [buf, read_idx, write_idx]
    call  \* the last call, and the bytes it was given or returned

bufferVars == <<vec, call>>

NewBuffer(size) ==
    [buf |-> [i \in 1..size |-> CHOOSE x \in Byte : TRUE], read_idx |-> 0, write_idx |-> 0]

Call(name, data) == [name |-> name, data |-> data]

BufferInit == vec = NewBuffer(Initial) /\ call = Call("new", <<>>)

readableBytes(k) == k.write_idx - k.read_idx
writableBytes(k) == Len(k.buf) - k.write_idx

\* What the buffer holds.
Contents(k) == SubSeq(k.buf, k.read_idx + 1, k.write_idx)

-----------------------------------------------------------------------------
(* The functions of Buffer, from a buffer to a buffer. *)

\* Mutant: the vector grows although compacting it would do.
addCapGrows(k, len) ==
    LET n == readableBytes(k)
    IN  [buf |-> [i \in 1..(len + Len(k.buf)) |->
                    IF i <= n THEN k.buf[k.read_idx + i] ELSE CHOOSE x \in Byte : TRUE],
         read_idx |-> 0, write_idx |-> n]

\* addCap: more room unless moving the bytes to the front frees enough.
addCap(k, len) ==
    LET size == IF k.read_idx < len THEN len + Len(k.buf) ELSE Len(k.buf)
        n    == readableBytes(k)
    IN  [buf |-> [i \in 1..size |-> IF i <= n THEN k.buf[k.read_idx + i]
                                    ELSE IF i <= Len(k.buf) THEN k.buf[i]
                                    ELSE CHOOSE x \in Byte : TRUE],
         read_idx |-> 0, write_idx |-> n]

ensureWritableBytes(k, len) ==
    IF writableBytes(k) < len THEN addCap(k, len - writableBytes(k)) ELSE k

\* std::copy to writeBegin(), and hasWritten.
Written(k, data) ==
    [k EXCEPT !.buf = [i \in 1..Len(k.buf) |->
                          IF k.write_idx < i /\ i <= k.write_idx + Len(data)
                          THEN data[i - k.write_idx] ELSE k.buf[i]],
              !.write_idx = @ + Len(data)]

append(k, data) == Written(ensureWritableBytes(k, Len(data)), data)

retrieve(k, len) ==
    IF len < readableBytes(k) THEN [k EXCEPT !.read_idx = @ + len]
    ELSE [k EXCEPT !.read_idx = 0, !.write_idx = 0]

unwrite(k, len) == [k EXCEPT !.write_idx = @ - len]

\* Mutant: write_idx is not moved before the second buffer is appended.
readFdOver(k, data) ==
    LET writable == writableBytes(k)
    IN  IF Len(data) <= writable THEN Written(k, data)
        ELSE append(k, SubSeq(data, writable + 1, Len(data)))

\* readFd: what does not fit behind write_idx goes through the second buffer.
readFd(k, data) ==
    LET writable == writableBytes(k)
    IN  IF Len(data) <= writable THEN Written(k, data)
        ELSE append(Written(k, SubSeq(data, 1, writable)), SubSeq(data, writable + 1, Len(data)))

\* shrink: a new buffer with the contents and room for reserve bytes.
shrink(k, reserve) ==
    append(ensureWritableBytes(NewBuffer(Initial), readableBytes(k) + reserve), Contents(k))

-----------------------------------------------------------------------------

Data == UNION {[1..n -> Byte] : n \in 0..MaxLen}
Fits(n) == readableBytes(vec) + n <= MaxReadable

Append_ ==
    \E data \in Data : Fits(Len(data)) /\ vec' = append(vec, data) /\ call' = Call("put", data)

\* readv fills the room there is, and the second buffer if it is larger than that.
ReadFd ==
    \E data \in Data :
        /\ Fits(Len(data))
        /\ Len(data) <= writableBytes(vec) + (IF writableBytes(vec) < Extra THEN Extra ELSE 0)
        /\ vec' = readFd(vec, data) /\ call' = Call("put", data)

\* retrieveAsString; retrieveUntil, retrieveAll and readInt of any width are its
\* kin.  The bytes are copied from readBegin() before retrieve.
Retrieve ==
    \E n \in 0..readableBytes(vec) :
        /\ vec' = retrieve(vec, n)
        /\ call' = Call("take", SubSeq(vec.buf, vec.read_idx + 1, vec.read_idx + n))

Unwrite ==
    \E n \in 0..readableBytes(vec) :
        /\ vec' = unwrite(vec, n)
        /\ call' = Call("takeback", SubSeq(vec.buf, vec.write_idx - n + 1, vec.write_idx))

EnsureWritable ==
    \E n \in 0..MaxLen : vec' = ensureWritableBytes(vec, n) /\ call' = Call("arrange", <<>>)

Shrink == \E n \in 0..MaxLen : vec' = shrink(vec, n) /\ call' = Call("arrange", <<>>)

BufferNext == Append_ \/ ReadFd \/ Retrieve \/ Unwrite \/ EnsureWritable \/ Shrink

BufferSpec == BufferInit /\ [][BufferNext]_bufferVars

-----------------------------------------------------------------------------

\* Growing, compacting, reading around the end of the vector and shrinking lose,
\* double or reorder no byte: the buffer implements a queue of bytes.
Q == INSTANCE ByteQueue WITH bytes <- Contents(vec), op <- call
ImplementsQueue == Q!Spec

\* After ensureWritableBytes(n) there is room for n bytes (its own assertion) behind
\* indices that delimit a part of the vector, and the vector grows only when the bytes
\* would not fit in it otherwise.
RoomAsPromised ==
    \A n \in 0..MaxLen :
        LET e == ensureWritableBytes(vec, n)
        IN  /\ writableBytes(e) >= n /\ e.read_idx <= e.write_idx
            /\ Len(e.buf) > Len(vec.buf) => readableBytes(vec) + n > Len(vec.buf)
=============================================================================
