------------------------------ MODULE WriteBio ------------------------------
(***************************************************************************)
(* crypto/bio.go, WriteBio: the memory BIO the library writes its output   *)
(* to.  go_write_bio_write appends under dataMtx; WriteTo, which several   *)
(* goroutines run, holds opMtx for its whole length but dataMtx only while *)
(* it takes its snapshot and while it trims: the wrapped connection reads  *)
(* the snapshot with no lock that an append would respect.                 *)
(*                                                                         *)
(* The model keeps Go's slices: a slice is an array of the heap, a length  *)
(* and (the length of the array) a capacity; append writes in place when   *)
(* the capacity allows and moves to a new array otherwise.  Byte i of the  *)
(* stream is the number i, and 0 is a byte never written.                  *)
(***************************************************************************)
EXTENDS Naturals, Sequences

CONSTANTS
  Flushers,       \* goroutines that call WriteTo
  Nobody,         \* a free mutex
  Arrays,         \* the arrays of the heap
  Nil,            \* the array of a nil slice
  ReleaseBuffers, \* WriteBio.releaseBuffers
  MaxChunk,       \* bound: bytes of one write of the library
  MaxBytes,       \* bound: bytes written in all
  MaxSlack,       \* bound: capacity append adds to what it needs
  MaxFlushes,     \* bound: calls of WriteTo by each goroutine
  MaxFaults       \* bound: failed writes of the wrapped connection

ASSUME WriteBioAssumption ==
  /\ Nobody \notin Flushers
  /\ Nil \notin Arrays
  /\ ReleaseBuffers \in BOOLEAN
  /\ MaxChunk \in Nat /\ MaxBytes \in Nat /\ MaxSlack \in Nat
  /\ MaxFlushes \in Nat /\ MaxFaults \in Nat

VARIABLES
  heap,   \* array -> its bytes
  buf,    \* WriteBio.buf: [arr, len]
  opMtx,  \* holder of opMtx
  pc,     \* flusher -> where it is in WriteTo
  data,   \* flusher -> its snapshot of buf
  n,      \* flusher -> bytes its writer.Write took
  result, \* flusher -> the error of its last WriteTo
  calls,  \* flusher -> calls of WriteTo made
  faults,
  total,  \* history: bytes the library wrote
  mark,   \* history: flusher -> total when its WriteTo was called
  wire    \* history: bytes the wrapped connection took

callVars == <<calls, mark>>
vars == <<heap, buf, opMtx, pc, data, n, result, callVars, faults, total, wire>>

Slice(a, l) == [arr |-> a, len |-> l]
NilSlice == Slice(Nil, 0)
Cap(s) == IF s.arr = Nil THEN 0 ELSE Len(heap[s.arr])

Init ==
  /\ heap = [a \in Arrays |-> <<>>]
  /\ buf = NilSlice
  /\ opMtx = Nobody
  /\ pc = [f \in Flushers |-> "idle"]
  /\ data = [f \in Flushers |-> NilSlice]
  /\ n = [f \in Flushers |-> 0]
  /\ result = [f \in Flushers |-> "none"]
  /\ calls = [f \in Flushers |-> 0]
  /\ mark = [f \in Flushers |-> 0]
  /\ faults = 0 /\ total = 0 /\ wire = <<>>

(***************************************************************************)
(* go_write_bio_write.                                                     *)
(***************************************************************************)
\* An array the collector may hand out: no slice refers to it.
Unreferenced(a) == a # buf.arr /\ \A f \in Flushers : data[f].arr # a

\* Whether append keeps the array.
Fits(k) == buf.len + k <= Cap(buf)

\* append(buf, the next k bytes of the stream...)
AppendInPlace(k) ==
  /\ Fits(k)
  /\ heap' = [heap EXCEPT ![buf.arr] =
       [i \in 1..Cap(buf) |->
          IF i \in (buf.len + 1)..(buf.len + k) THEN total + i - buf.len
          ELSE heap[buf.arr][i]]]
  /\ buf' = Slice(buf.arr, buf.len + k)

AppendMoving(k) ==
  /\ ~Fits(k)
  /\ \E a \in Arrays, slack \in 0..MaxSlack :
       /\ Unreferenced(a)
       /\ heap' = [heap EXCEPT ![a] =
            [i \in 1..(buf.len + k + slack) |->
               IF i <= buf.len THEN heap[buf.arr][i]
               ELSE IF i <= buf.len + k THEN total + i - buf.len ELSE 0]]
       /\ buf' = Slice(a, buf.len + k)

LibraryWrite(k) ==
  /\ total + k <= MaxBytes
  /\ AppendInPlace(k) \/ AppendMoving(k)
  /\ total' = total + k
  /\ UNCHANGED <<opMtx, pc, data, n, result, callVars, faults, wire>>

(***************************************************************************)
(* WriteTo.                                                                *)
(***************************************************************************)
Goto(f, p) == pc' = [pc EXCEPT ![f] = p]

FlushCall(f) ==
  /\ pc[f] = "idle" /\ calls[f] < MaxFlushes
  /\ Goto(f, "lock")
  /\ calls' = [calls EXCEPT ![f] = @ + 1]
  /\ mark' = [mark EXCEPT ![f] = total]
  /\ result' = [result EXCEPT ![f] = "none"]
  /\ UNCHANGED <<heap, buf, opMtx, data, n, faults, total, wire>>

\* opMtx.Lock can proceed.  (The slip: two flushes at once.)
BadOpFree == TRUE
OpFree == opMtx = Nobody

FlushLock(f) ==
  /\ pc[f] = "lock" /\ OpFree
  /\ opMtx' = f
  /\ Goto(f, "snapshot")
  /\ UNCHANGED <<heap, buf, data, n, result, callVars, faults, total, wire>>

\* WriteTo returns e and its deferred Unlock runs.
FlushReturn(f, e) ==
  /\ opMtx' = Nobody
  /\ data' = [data EXCEPT ![f] = NilSlice]
  /\ n' = [n EXCEPT ![f] = 0]
  /\ result' = [result EXCEPT ![f] = e]
  /\ Goto(f, "idle")

Snapshot(f) ==
  /\ pc[f] = "snapshot"
  /\ IF buf.len = 0
     THEN FlushReturn(f, "nil")
     ELSE /\ data' = [data EXCEPT ![f] = buf]
          /\ Goto(f, "write")
          /\ UNCHANGED <<opMtx, n, result>>
  /\ UNCHANGED <<heap, buf, callVars, faults, total, wire>>

\* writer.Write(data), a byte at a time: appends come in between.
WriteByte(f) ==
  /\ pc[f] = "write" /\ n[f] < data[f].len
  /\ wire' = Append(wire, heap[data[f].arr][n[f] + 1])
  /\ n' = [n EXCEPT ![f] = @ + 1]
  /\ UNCHANGED <<heap, buf, opMtx, pc, data, result, callVars, faults, total>>

\* It returns n < len(data) with an error, or all of them without.
WriteFail(f) ==
  /\ pc[f] = "write" /\ n[f] < data[f].len /\ faults < MaxFaults
  /\ faults' = faults + 1
  /\ Goto(f, "trim")
  /\ UNCHANGED <<heap, buf, opMtx, data, n, result, callVars, total, wire>>

WriteDone(f) ==
  /\ pc[f] = "write" /\ n[f] = data[f].len
  /\ Goto(f, "trim")
  /\ UNCHANGED <<heap, buf, opMtx, data, n, result, callVars, faults, total,
                 wire>>

\* What is left of the buffer.  (The slip: of the snapshot.)
BadLeft(f) == data[f].len - n[f]
Left(f) == buf.len - n[f]

\* The error WriteTo answers with.  (The slip: the error is dropped.)
BadWriteErr(f) == "nil"
WriteErr(f) == IF n[f] = data[f].len THEN "nil" ELSE "err"

\* buf = buf[:copy(buf, buf[n:])], which moves bytes within the array.
Trim(f) ==
  /\ pc[f] = "trim"
  /\ heap' = [heap EXCEPT ![buf.arr] =
       [i \in 1..Cap(buf) |->
          IF i <= Left(f) THEN heap[buf.arr][i + n[f]] ELSE heap[buf.arr][i]]]
  /\ buf' = IF ReleaseBuffers /\ Left(f) = 0
            THEN NilSlice ELSE Slice(buf.arr, Left(f))
  /\ FlushReturn(f, WriteErr(f))
  /\ UNCHANGED <<callVars, faults, total, wire>>

FlushStep(f) ==
  \/ FlushLock(f) \/ Snapshot(f) \/ WriteByte(f) \/ WriteFail(f)
  \/ WriteDone(f) \/ Trim(f)

(***************************************************************************)
(* The specification.                                                      *)
(***************************************************************************)
Done ==
  /\ total = MaxBytes
  /\ \A f \in Flushers : pc[f] = "idle" /\ calls[f] = MaxFlushes
  /\ UNCHANGED vars

Next ==
  \/ \E k \in 1..MaxChunk : LibraryWrite(k)
  \/ \E f \in Flushers : FlushCall(f) \/ FlushStep(f)
  \/ Done

Spec == Init /\ [][Next]_vars

(***************************************************************************)
(* Properties.                                                             *)
(***************************************************************************)
TypeOK ==
  /\ heap \in [Arrays -> Seq(Nat)]
  /\ buf \in [arr : Arrays \cup {Nil}, len : Nat] /\ buf.len <= Cap(buf)
  /\ opMtx \in Flushers \cup {Nobody}
  /\ pc \in [Flushers -> {"idle", "lock", "snapshot", "write", "trim"}]
  /\ data \in [Flushers -> [arr : Arrays \cup {Nil}, len : Nat]]
  /\ n \in [Flushers -> Nat]
  /\ result \in [Flushers -> {"none", "nil", "err"}]
  /\ calls \in [Flushers -> Nat] /\ mark \in [Flushers -> Nat]
  /\ faults \in Nat /\ total \in Nat /\ wire \in Seq(Nat)

\* The bytes of the stream that buf[0] comes after.
InFlight(f) == pc[f] \in {"write", "trim"}
Base == Len(wire) - (IF opMtx = Nobody THEN 0 ELSE n[opMtx])

\* While the wrapped connection reads a snapshot with no lock held, the bytes
\* of the snapshot stay what they were: appends write behind them or move to
\* another array, and only the goroutine that flushes slides the buffer.
SnapshotStable ==
  \A f \in Flushers : InFlight(f) =>
    \A i \in 1..data[f].len : heap[data[f].arr][i] = Base + i

\* The buffer holds, in order, the bytes that the connection did not take yet
\* (and those it took in the WriteTo under way).
BufferIsTail ==
  /\ Base + buf.len = total
  /\ \A i \in 1..buf.len : heap[buf.arr][i] = Base + i

\* A WriteTo that returns without an error leaves on the wire all that had
\* been written when it was called, even when it found the buffer empty or
\* waited for another WriteTo (Conn.Write and Conn.Close rely on it).
FlushCovers ==
  \A f \in Flushers : result[f] = "nil" => mark[f] <= Len(wire)

\* The BIO and its flushes implement a byte stream from the library to the
\* wrapped connection.
Stream == INSTANCE ByteStream WITH accepted <- total, delivered <- wire
StreamSpec == Stream!Spec
=============================================================================
