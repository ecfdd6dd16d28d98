--------------------------- MODULE WriteBioProofs ---------------------------
(***************************************************************************)
(* WriteBio implements ByteStream, and each WriteTo covers what was        *)
(* written before it, for any number of goroutines and bytes, any growth   *)
(* policy of append and any pattern of write errors.                       *)
(***************************************************************************)
EXTENDS WriteBio, TLAPS

\* opMtx is held exactly in the part of WriteTo that it protects.
LockInv ==
  \A f \in Flushers :
    opMtx = f <=> pc[f] \in {"snapshot", "write", "trim"}

\* The slices in use: the snapshot is a non-empty prefix of what the buffer
\* holds, and lies within its array.
SliceInv ==
  /\ buf.arr = Nil => buf.len = 0
  /\ \A f \in Flushers :
       IF InFlight(f)
       THEN /\ data[f].arr \in Arrays /\ buf.arr \in Arrays
            /\ n[f] <= data[f].len /\ n[f] <= Len(wire)
            /\ 0 < data[f].len /\ data[f].len <= buf.len
            /\ data[f].len <= Len(heap[data[f].arr])
       ELSE data[f] = NilSlice /\ n[f] = 0

\* What a WriteTo has to cover is in the buffer when it starts to write.
MarkInv ==
  \A f \in Flushers :
    /\ mark[f] <= total
    /\ InFlight(f) => mark[f] <= Base + data[f].len

IInv ==
  /\ TypeOK /\ LockInv /\ SliceInv /\ SnapshotStable /\ BufferIsTail
  /\ MarkInv /\ FlushCovers

\* Where the stream stands, in the two states of opMtx.
LEMMA BaseIsNat ==
  ASSUME IInv
  PROVE  /\ Base \in Nat
         /\ opMtx = Nobody => Base = Len(wire)
         /\ \A f \in Flushers : opMtx = f => Base = Len(wire) - n[f]
         /\ \A f \in Flushers : InFlight(f) => opMtx = f
<1>1. \A f \in Flushers : InFlight(f) => opMtx = f
  BY DEF IInv, LockInv, InFlight
<1>2. \A f \in Flushers : n[f] \in Nat /\ n[f] <= Len(wire)
  <2> TAKE f \in Flushers
  <2> QED BY DEF IInv, TypeOK, SliceInv
<1> QED
  BY <1>1, <1>2, WriteBioAssumption DEF IInv, TypeOK, Base

LEMMA InitInv == Init => IInv
BY WriteBioAssumption
DEF Init, IInv, TypeOK, LockInv, SliceInv, SnapshotStable, BufferIsTail,
    MarkInv, FlushCovers, InFlight, Base, NilSlice, Slice, Cap

LEMMA AppendInPlaceInv ==
  ASSUME IInv, NEW k \in 1..MaxChunk, LibraryWrite(k), AppendInPlace(k)
  PROVE  IInv'
<1> USE WriteBioAssumption
<1>1. buf.arr \in Arrays /\ buf.len \in Nat /\ Cap(buf) = Len(heap[buf.arr])
      /\ Cap(buf) \in Nat /\ total \in Nat /\ k \in Nat /\ k > 0
  BY DEF IInv, TypeOK, AppendInPlace, Fits, Cap
<1> DEFINE new == [i \in 1..Cap(buf) |->
                     IF i \in (buf.len + 1)..(buf.len + k)
                     THEN total + i - buf.len ELSE heap[buf.arr][i]]
<1>2. new \in Seq(Nat) /\ Len(new) = Cap(buf)
  <2>1. \A i \in 1..Cap(buf) : heap[buf.arr][i] \in Nat
    BY <1>1, SMTT(30) DEF IInv, TypeOK
  <2>2. new \in [1..Cap(buf) -> Nat]
    BY <1>1, <2>1, SMTT(30)
  <2> QED BY <1>1, <2>2
<1>3. heap' = [heap EXCEPT ![buf.arr] = new] /\ buf' = Slice(buf.arr, buf.len + k)
      /\ buf.len + k <= Cap(buf)
  BY DEF AppendInPlace, Fits
<1>4. /\ UNCHANGED <<opMtx, pc, data, n, result, calls, mark, faults, wire>>
      /\ total' = total + k
  BY DEF LibraryWrite, callVars
<1> HIDE DEF new
<1>5. Base' = Base /\ Base \in Nat /\ \A f \in Flushers : InFlight(f)' <=> InFlight(f)
  BY <1>4, BaseIsNat DEF Base, InFlight
<1>6. TypeOK'
  BY <1>1, <1>2, <1>3, <1>4, SMTT(30) DEF IInv, TypeOK, Slice, Cap
<1>7. LockInv'
  BY <1>4 DEF IInv, LockInv
<1>8. SliceInv'
  <2> SUFFICES ASSUME NEW f \in Flushers, InFlight(f)
               PROVE  /\ data[f].len <= buf.len + k
                      /\ data[f].len <= Len(heap'[data[f].arr])
    BY <1>1, <1>3, <1>4, <1>5 DEF IInv, SliceInv, Slice, NilSlice
  <2>1. /\ data[f].arr \in Arrays /\ data[f].len \in Nat
        /\ data[f].len <= buf.len /\ data[f].len <= Len(heap[data[f].arr])
    BY DEF IInv, TypeOK, SliceInv
  <2>2. Len(heap'[data[f].arr]) = Len(heap[data[f].arr])
    BY <1>1, <1>2, <1>3, <2>1 DEF IInv, TypeOK
  <2> QED BY <1>1, <2>1, <2>2
<1>9. SnapshotStable'
  <2> SUFFICES ASSUME NEW f \in Flushers, InFlight(f),
                      NEW i \in 1..data[f].len
               PROVE  heap'[data[f].arr][i] = Base + i
    BY <1>4, <1>5 DEF SnapshotStable
  <2>1. heap[data[f].arr][i] = Base + i
    BY DEF IInv, SnapshotStable
  <2>2. i \in Nat /\ i > 0 /\ i <= buf.len /\ data[f].arr \in Arrays
    BY DEF IInv, TypeOK, SliceInv
  <2>3. CASE data[f].arr = buf.arr
    <3>1. new[i] = heap[buf.arr][i]
      BY <1>1, <1>3, <2>2 DEF new
    <3> QED BY <1>1, <1>3, <2>1, <2>3, <3>1 DEF IInv, TypeOK
  <2>4. CASE data[f].arr # buf.arr
    BY <1>1, <1>3, <2>1, <2>2, <2>4 DEF IInv, TypeOK
  <2> QED BY <2>3, <2>4
<1>10. BufferIsTail'
  <2>0. buf'.len = buf.len + k /\ heap'[buf'.arr] = new
    <3>1. buf'.arr = buf.arr /\ buf'.len = buf.len + k
      BY <1>3 DEF Slice
    <3> QED BY <1>1, <1>3, <3>1 DEF IInv, TypeOK
  <2>9. Base' + buf'.len = total'
    <3>1. Base + buf.len = total
      BY DEF IInv, BufferIsTail
    <3> QED BY <1>1, <1>4, <1>5, <2>0, <3>1
  <2> SUFFICES ASSUME NEW i \in 1..(buf.len + k)
               PROVE  new[i] = Base + i
    BY <1>5, <2>0, <2>9 DEF BufferIsTail
  <2>1. i \in 1..Cap(buf)
    BY <1>1, <1>3
  <2>2. Base + buf.len = total
    BY DEF IInv, BufferIsTail
  <2>3. i <= buf.len => heap[buf.arr][i] = Base + i
    BY <1>1 DEF IInv, BufferIsTail
  <2> QED BY <1>1, <1>5, <2>1, <2>2, <2>3 DEF new
<1>11. MarkInv' /\ FlushCovers'
  BY <1>1, <1>4, <1>5 DEF IInv, TypeOK, MarkInv, FlushCovers
<1> QED
  BY <1>6, <1>7, <1>8, <1>9, <1>10, <1>11 DEF IInv

LEMMA AppendMovingInv ==
  ASSUME IInv, NEW k \in 1..MaxChunk, LibraryWrite(k), AppendMoving(k)
  PROVE  IInv'
<1> USE WriteBioAssumption
<1>0. PICK a \in Arrays, slack \in 0..MaxSlack :
        /\ Unreferenced(a)
        /\ heap' = [heap EXCEPT ![a] =
             [i \in 1..(buf.len + k + slack) |->
                IF i <= buf.len THEN heap[buf.arr][i]
                ELSE IF i <= buf.len + k THEN total + i - buf.len ELSE 0]]
        /\ buf' = Slice(a, buf.len + k)
  BY DEF AppendMoving
<1>1. buf.len \in Nat /\ total \in Nat /\ k \in Nat /\ k > 0 /\ slack \in Nat
  BY DEF IInv, TypeOK
<1> DEFINE cap == buf.len + k + slack
           new == [i \in 1..cap |->
                     IF i <= buf.len THEN heap[buf.arr][i]
                     ELSE IF i <= buf.len + k THEN total + i - buf.len ELSE 0]
<1>2. new \in Seq(Nat) /\ Len(new) = cap /\ cap \in Nat
  <2>1. \A i \in 1..cap : i <= buf.len => heap[buf.arr][i] \in Nat
    BY <1>1, SMTT(30) DEF IInv, TypeOK, SliceInv, Cap
  <2>2. new \in [1..cap -> Nat]
    BY <1>1, <2>1
  <2>3. cap \in Nat
    BY <1>1
  <2> HIDE DEF new, cap
  <2> QED BY <2>2, <2>3
<1>3. heap' = [heap EXCEPT ![a] = new] /\ buf' = Slice(a, buf.len + k)
  BY <1>0
<1>4. /\ UNCHANGED <<opMtx, pc, data, n, result, calls, mark, faults, wire>>
      /\ total' = total + k
  BY DEF LibraryWrite, callVars
<1>5. Base' = Base /\ Base \in Nat /\ \A f \in Flushers : InFlight(f)' <=> InFlight(f)
  BY <1>4, BaseIsNat DEF Base, InFlight
<1> HIDE DEF new
<1>6. TypeOK'
  <2>1. heap' \in [Arrays -> Seq(Nat)] /\ heap'[a] = new
    BY <1>2, <1>3 DEF IInv, TypeOK
  <2>2. buf' \in [arr : Arrays \cup {Nil}, len : Nat] /\ buf'.arr = a
        /\ buf'.len = buf.len + k
    BY <1>1, <1>3 DEF Slice
  <2>3. buf'.len <= Cap(buf)'
    BY <1>1, <1>2, <2>1, <2>2, SMTT(30) DEF Cap
  <2> QED BY <1>1, <1>4, <2>1, <2>2, <2>3, SMTT(30) DEF IInv, TypeOK
<1>7. LockInv'
  BY <1>4 DEF IInv, LockInv
<1>8. SliceInv'
  <2> SUFFICES ASSUME NEW f \in Flushers, InFlight(f)
               PROVE  /\ data[f].len <= buf.len + k
                      /\ data[f].len <= Len(heap'[data[f].arr])
    BY <1>1, <1>3, <1>4, <1>5 DEF IInv, SliceInv, Slice, NilSlice
  <2>1. data[f].arr # a
    BY <1>0 DEF Unreferenced
  <2> QED BY <1>1, <1>3, <2>1 DEF IInv, TypeOK, SliceInv
<1>9. SnapshotStable'
  <2> SUFFICES ASSUME NEW f \in Flushers, InFlight(f),
                      NEW i \in 1..data[f].len
               PROVE  heap'[data[f].arr][i] = Base + i
    BY <1>4, <1>5 DEF SnapshotStable
  <2>1. data[f].arr # a
    BY <1>0 DEF Unreferenced
  <2> QED BY <1>3, <2>1 DEF IInv, TypeOK, SliceInv, SnapshotStable
<1>10. BufferIsTail'
  <2>0. buf'.len = buf.len + k /\ heap'[buf'.arr] = new
    <3>1. buf'.arr = a /\ buf'.len = buf.len + k
      BY <1>3 DEF Slice
    <3> QED BY <1>1, <1>3, <3>1 DEF IInv, TypeOK
  <2>9. Base' + buf'.len = total'
    <3>1. Base + buf.len = total
      BY DEF IInv, BufferIsTail
    <3> QED BY <1>1, <1>4, <1>5, <2>0, <3>1
  <2> SUFFICES ASSUME NEW i \in 1..(buf.len + k)
               PROVE  new[i] = Base + i
    BY <1>5, <2>0, <2>9 DEF BufferIsTail
  <2>1. i \in 1..cap
    BY <1>1
  <2>2. Base + buf.len = total
    BY DEF IInv, BufferIsTail
  <2>3. i <= buf.len => heap[buf.arr][i] = Base + i
    BY <1>1 DEF IInv, BufferIsTail
  <2> QED BY <1>1, <1>5, <2>1, <2>2, <2>3 DEF new
<1>11. MarkInv' /\ FlushCovers'
  BY <1>1, <1>4, <1>5, SMTT(30) DEF IInv, TypeOK, MarkInv, FlushCovers
<1> QED
  BY <1>6, <1>7, <1>8, <1>9, <1>10, <1>11 DEF IInv
LEMMA LibraryWriteInv ==
  ASSUME IInv, NEW k \in 1..MaxChunk, LibraryWrite(k)
  PROVE  IInv'
BY AppendInPlaceInv, AppendMovingInv DEF LibraryWrite

LEMMA FlushCallInv ==
  ASSUME IInv, NEW f \in Flushers, FlushCall(f)
  PROVE  IInv'
<1>1. /\ UNCHANGED <<heap, buf, opMtx, data, n, faults, total, wire>>
      /\ pc[f] = "idle" /\ pc' = [pc EXCEPT ![f] = "lock"]
      /\ calls' = [calls EXCEPT ![f] = @ + 1]
      /\ mark' = [mark EXCEPT ![f] = total]
      /\ result' = [result EXCEPT ![f] = "none"]
  BY DEF FlushCall, Goto
<1>2. Base' = Base /\ \A g \in Flushers : InFlight(g)' <=> InFlight(g)
  BY <1>1 DEF Base, InFlight, IInv, TypeOK
<1>3. TypeOK'
  BY <1>1, SMTT(30) DEF IInv, TypeOK, Cap
<1>4. LockInv' /\ SliceInv' /\ SnapshotStable' /\ BufferIsTail'
  BY <1>1, <1>2, SMTT(30)
  DEF IInv, TypeOK, LockInv, SliceInv, SnapshotStable, BufferIsTail, NilSlice,
      Slice
<1>5. MarkInv' /\ FlushCovers'
  <2>1. ~InFlight(f) /\ total \in Nat
    BY <1>1 DEF InFlight, IInv, TypeOK
  <2> QED BY <1>1, <1>2, <2>1, SMTT(30) DEF IInv, TypeOK, MarkInv, FlushCovers
<1> QED BY <1>3, <1>4, <1>5 DEF IInv

LEMMA FlushLockInv ==
  ASSUME IInv, NEW f \in Flushers, FlushLock(f)
  PROVE  IInv'
<1> USE WriteBioAssumption
<1>1. /\ UNCHANGED <<heap, buf, data, n, result, calls, mark, faults, total,
                     wire>>
      /\ pc[f] = "lock" /\ opMtx = Nobody /\ opMtx' = f
      /\ pc' = [pc EXCEPT ![f] = "snapshot"]
  BY DEF FlushLock, OpFree, Goto, callVars
<1>2. n[f] = 0 /\ Len(wire) \in Nat
  <2>1. ~InFlight(f)
    BY <1>1 DEF InFlight
  <2> QED BY <2>1 DEF IInv, SliceInv, TypeOK
<1>3. Base' = Base /\ \A g \in Flushers : InFlight(g)' <=> InFlight(g)
  BY <1>1, <1>2 DEF Base, InFlight, IInv, TypeOK
<1>4. TypeOK'
  BY <1>1 DEF IInv, TypeOK, Cap
<1>5. LockInv'
  BY <1>1 DEF IInv, TypeOK, LockInv
<1>6. SliceInv' /\ SnapshotStable' /\ BufferIsTail' /\ MarkInv' /\ FlushCovers'
  BY <1>1, <1>3
  DEF IInv, SliceInv, SnapshotStable, BufferIsTail, MarkInv, FlushCovers,
      NilSlice, Slice
<1> QED BY <1>4, <1>5, <1>6 DEF IInv

LEMMA SnapshotInv ==
  ASSUME IInv, NEW f \in Flushers, Snapshot(f)
  PROVE  IInv'
<1> USE WriteBioAssumption
<1>1. /\ UNCHANGED <<heap, buf, calls, mark, faults, total, wire>>
      /\ pc[f] = "snapshot" /\ opMtx = f /\ ~InFlight(f)
      /\ n[f] = 0 /\ data[f] = NilSlice
  BY DEF Snapshot, callVars, IInv, LockInv, SliceInv, InFlight
<1>2. Base = Len(wire) /\ Len(wire) \in Nat
  BY <1>1, BaseIsNat DEF IInv, TypeOK
<1>3. CASE buf.len = 0
  <2>1. /\ opMtx' = Nobody /\ data' = [data EXCEPT ![f] = NilSlice]
        /\ n' = [n EXCEPT ![f] = 0] /\ result' = [result EXCEPT ![f] = "nil"]
        /\ pc' = [pc EXCEPT ![f] = "idle"]
    BY <1>3 DEF Snapshot, FlushReturn, Goto
  <2>2. data' = data /\ n' = n
    BY <1>1, <2>1 DEF IInv, TypeOK
  <2>3. Base' = Base /\ \A g \in Flushers : InFlight(g)' <=> InFlight(g)
    BY <1>1, <1>2, <2>1 DEF Base, InFlight, IInv, TypeOK
  <2>4. TypeOK'
    BY <1>1, <2>1, <2>2 DEF IInv, TypeOK, Cap
  <2>5. LockInv'
    BY <1>1, <2>1 DEF IInv, TypeOK, LockInv
  <2>6. SliceInv' /\ SnapshotStable' /\ BufferIsTail' /\ MarkInv'
    BY <1>1, <2>2, <2>3
    DEF IInv, SliceInv, SnapshotStable, BufferIsTail, MarkInv, NilSlice, Slice
  <2>7. FlushCovers'
    <3>1. mark[f] <= Len(wire)
      BY <1>2, <1>3 DEF IInv, TypeOK, MarkInv, BufferIsTail
    <3> QED BY <1>1, <2>1, <3>1 DEF IInv, TypeOK, FlushCovers
  <2> QED BY <2>4, <2>5, <2>6, <2>7 DEF IInv
<1>4. CASE buf.len # 0
  <2>1. /\ data' = [data EXCEPT ![f] = buf] /\ pc' = [pc EXCEPT ![f] = "write"]
        /\ UNCHANGED <<opMtx, n, result>>
    BY <1>4 DEF Snapshot, Goto
  <2>2. /\ Base' = Base /\ InFlight(f)'
        /\ \A g \in Flushers \ {f} : ~InFlight(g) /\ ~InFlight(g)'
    BY <1>1, <2>1, BaseIsNat DEF Base, InFlight, IInv, TypeOK
  <2>3. /\ buf.len \in Nat /\ buf.len > 0 /\ buf.arr \in Arrays
        /\ buf.len <= Len(heap[buf.arr])
    BY <1>4 DEF IInv, TypeOK, SliceInv, Cap
  <2>4. TypeOK'
    BY <1>1, <2>1 DEF IInv, TypeOK, Cap
  <2>5. LockInv'
    BY <1>1, <2>1 DEF IInv, TypeOK, LockInv
  <2>6. data'[f] = buf /\ \A g \in Flushers \ {f} : data'[g] = data[g]
    BY <2>1 DEF IInv, TypeOK
  <2>7. SliceInv'
    BY <1>1, <1>2, <2>1, <2>2, <2>3, <2>6
    DEF IInv, TypeOK, SliceInv, NilSlice, Slice
  <2>8. SnapshotStable' /\ BufferIsTail'
    BY <1>1, <2>1, <2>2, <2>6 DEF IInv, SnapshotStable, BufferIsTail
  <2>9. MarkInv' /\ FlushCovers'
    BY <1>1, <2>1, <2>2, <2>6
    DEF IInv, TypeOK, MarkInv, FlushCovers, BufferIsTail
  <2> QED BY <2>4, <2>5, <2>7, <2>8, <2>9 DEF IInv
<1> QED BY <1>3, <1>4

LEMMA WriteByteInv ==
  ASSUME IInv, NEW f \in Flushers, WriteByte(f)
  PROVE  /\ IInv'
         /\ wire' = Append(wire, Len(wire) + 1) /\ Len(wire) < total
<1> USE WriteBioAssumption
<1> DEFINE byte == heap[data[f].arr][n[f] + 1]
<1>1. /\ UNCHANGED <<heap, buf, opMtx, pc, data, result, calls, mark, faults,
                     total>>
      /\ pc[f] = "write" /\ n[f] < data[f].len
      /\ wire' = Append(wire, byte) /\ n' = [n EXCEPT ![f] = @ + 1]
  BY DEF WriteByte, callVars
<1>2. /\ InFlight(f) /\ opMtx = f
      /\ \A g \in Flushers \ {f} : ~InFlight(g)
  <2>1. InFlight(f)
    BY <1>1 DEF InFlight
  <2> QED BY <2>1, BaseIsNat
<1>3. /\ n[f] \in Nat /\ data[f].len \in Nat /\ data[f].arr \in Arrays
      /\ data[f].len <= Len(heap[data[f].arr]) /\ data[f].len <= buf.len
      /\ Len(wire) \in Nat /\ wire \in Seq(Nat)
      /\ buf.len \in Nat /\ total \in Nat
  BY <1>2 DEF IInv, TypeOK, SliceInv
<1>4. Base = Len(wire) - n[f] /\ Base \in Nat
  BY <1>2, BaseIsNat
<1>5. byte = Len(wire) + 1 /\ Len(wire) < total
  <2>1. byte = Base + (n[f] + 1)
    BY <1>1, <1>2, <1>3 DEF IInv, SnapshotStable
  <2>2. Base + buf.len = total
    BY DEF IInv, BufferIsTail
  <2> QED BY <1>1, <1>3, <1>4, <2>1, <2>2, SMTT(30)
<1> HIDE DEF byte
<1>6. /\ wire' \in Seq(Nat) /\ Len(wire') = Len(wire) + 1
      /\ n' \in [Flushers -> Nat] /\ n'[f] = n[f] + 1
      /\ \A g \in Flushers \ {f} : n'[g] = n[g]
  <2>1. wire' \in Seq(Nat) /\ Len(wire') = Len(wire) + 1
    <3>1. byte \in Nat /\ wire \in Seq(Nat)
      BY <1>3, <1>5
    <3> QED BY <1>1, <3>1
  <2>2. n \in [Flushers -> Nat]
    BY DEF IInv, TypeOK
  <2>3. n' \in [Flushers -> Nat] /\ n'[f] = n[f] + 1
    BY <1>1, <1>3, <2>2
  <2>4. \A g \in Flushers \ {f} : n'[g] = n[g]
    BY <1>1, <2>2
  <2> QED BY <2>1, <2>3, <2>4
<1>7. Base' = Base /\ \A g \in Flushers : InFlight(g)' <=> InFlight(g)
  <2>1. Base' = Len(wire') - n'[f]
    BY <1>1, <1>2 DEF Base
  <2> QED BY <1>1, <1>3, <1>4, <1>6, <2>1 DEF InFlight
<1>8. TypeOK'
  BY <1>1, <1>6 DEF IInv, TypeOK, Cap
<1>9. LockInv' /\ SnapshotStable' /\ BufferIsTail' /\ MarkInv'
  BY <1>1, <1>7 DEF IInv, LockInv, SnapshotStable, BufferIsTail, MarkInv
<1>10. SliceInv'
  <2>1. ASSUME NEW g \in Flushers, InFlight(g)
        PROVE  n'[g] <= data[g].len /\ n'[g] <= Len(wire')
    <3>1. g = f
      BY <1>2, <2>1
    <3>2. n[f] <= Len(wire)
      BY <1>2 DEF IInv, SliceInv
    <3> QED BY <1>1, <1>3, <1>6, <3>1, <3>2
  <2>2. ASSUME NEW g \in Flushers, ~InFlight(g)
        PROVE  n'[g] = n[g]
    BY <1>2, <1>6, <2>2
  <2> QED BY <1>1, <1>7, <2>1, <2>2 DEF IInv, SliceInv, NilSlice, Slice
<1>11. FlushCovers'
  BY <1>1, <1>3, <1>6 DEF IInv, TypeOK, FlushCovers
<1> QED BY <1>1, <1>5, <1>8, <1>9, <1>10, <1>11 DEF IInv

LEMMA WriteEndInv ==
  ASSUME IInv, NEW f \in Flushers, WriteFail(f) \/ WriteDone(f)
  PROVE  IInv' /\ UNCHANGED <<total, wire>>
<1>1. /\ UNCHANGED <<heap, buf, opMtx, data, n, result, calls, mark, total,
                     wire>>
      /\ pc[f] = "write" /\ pc' = [pc EXCEPT ![f] = "trim"]
      /\ faults' \in {faults, faults + 1}
  BY DEF WriteFail, WriteDone, Goto, callVars
<1>2. Base' = Base /\ \A g \in Flushers : InFlight(g)' <=> InFlight(g)
  BY <1>1 DEF Base, InFlight, IInv, TypeOK
<1>3. TypeOK'
  BY <1>1 DEF IInv, TypeOK, Cap
<1>4. LockInv'
  BY <1>1 DEF IInv, TypeOK, LockInv
<1>5. SliceInv' /\ SnapshotStable' /\ BufferIsTail' /\ MarkInv' /\ FlushCovers'
  BY <1>1, <1>2
  DEF IInv, SliceInv, SnapshotStable, BufferIsTail, MarkInv, FlushCovers,
      NilSlice, Slice
<1> QED BY <1>1, <1>3, <1>4, <1>5 DEF IInv

LEMMA TrimInv ==
  ASSUME IInv, NEW f \in Flushers, Trim(f)
  PROVE  IInv' /\ UNCHANGED <<total, wire>>
<1> USE WriteBioAssumption
<1> DEFINE left == buf.len - n[f]
           new == [i \in 1..Cap(buf) |->
                     IF i <= left THEN heap[buf.arr][i + n[f]]
                     ELSE heap[buf.arr][i]]
           res == WriteErr(f)
<1>1. /\ UNCHANGED <<calls, mark, faults, total, wire>>
      /\ pc[f] = "trim" /\ pc' = [pc EXCEPT ![f] = "idle"]
      /\ opMtx' = Nobody /\ data' = [data EXCEPT ![f] = NilSlice]
      /\ n' = [n EXCEPT ![f] = 0] /\ result' = [result EXCEPT ![f] = res]
      /\ heap' = [heap EXCEPT ![buf.arr] = new]
      /\ buf' = IF ReleaseBuffers /\ left = 0 THEN NilSlice
                ELSE Slice(buf.arr, left)
  BY DEF Trim, FlushReturn, Goto, callVars, Left
<1>2. /\ InFlight(f) /\ opMtx = f
      /\ \A g \in Flushers \ {f} : ~InFlight(g)
  <2>1. InFlight(f)
    BY <1>1 DEF InFlight
  <2> QED BY <2>1, BaseIsNat
<1>3. /\ n[f] \in Nat /\ data[f].len \in Nat /\ buf.arr \in Arrays
      /\ n[f] <= data[f].len /\ data[f].len <= buf.len
      /\ Len(wire) \in Nat /\ buf.len \in Nat /\ total \in Nat
  BY <1>2 DEF IInv, TypeOK, SliceInv
<1>4. /\ Cap(buf) = Len(heap[buf.arr]) /\ Cap(buf) \in Nat
      /\ buf.len <= Cap(buf) /\ left \in Nat /\ left <= Cap(buf)
  BY <1>3, SMTT(30) DEF IInv, TypeOK, Cap
<1>5. new \in Seq(Nat) /\ Len(new) = Cap(buf)
  <2>1. \A i \in 1..Cap(buf) : heap[buf.arr][i] \in Nat
    BY <1>3, <1>4, SMTT(30) DEF IInv, TypeOK
  <2>2. \A i \in 1..Cap(buf) : i <= left => i + n[f] \in 1..Cap(buf)
    BY <1>3, <1>4
  <2>3. new \in [1..Cap(buf) -> Nat]
    BY <2>1, <2>2
  <2> QED BY <1>4, <2>3
<1>6. Base = Len(wire) - n[f] /\ Base \in Nat /\ Base + buf.len = total
  BY <1>2, BaseIsNat DEF IInv, BufferIsTail
<1>7. \A i \in 1..left : new[i] = Len(wire) + i
  <2> TAKE i \in 1..left
  <2>1. i \in 1..Cap(buf) /\ i <= left /\ i + n[f] \in 1..buf.len /\ i \in Nat
    BY <1>3, <1>4
  <2>2. heap[buf.arr][i + n[f]] = Base + (i + n[f])
    BY <2>1 DEF IInv, BufferIsTail
  <2> QED BY <1>3, <1>6, <2>1, <2>2
<1>8. res \in {"nil", "err"} /\ (res = "nil" => mark[f] <= Len(wire))
  <2>1. mark[f] <= Base + data[f].len /\ mark[f] \in Nat
    BY <1>2 DEF IInv, TypeOK, MarkInv
  <2> QED BY <1>3, <1>6, <2>1 DEF WriteErr
<1> HIDE DEF new, left, res
<1>9. /\ \A g \in Flushers : ~InFlight(g)' /\ data'[g] = NilSlice /\ n'[g] = 0
      /\ Base' = Len(wire)
  <2>1. \A g \in Flushers \ {f} : data[g] = NilSlice /\ n[g] = 0
    BY <1>2 DEF IInv, SliceInv
  <2> QED BY <1>1, <1>2, <2>1 DEF IInv, TypeOK, InFlight, Base
<1>10. buf'.len = left /\ (left > 0 => buf'.arr = buf.arr)
       /\ buf' \in [arr : Arrays \cup {Nil}, len : Nat]
  <2>1. CASE ReleaseBuffers /\ left = 0
    <3>1. buf' = [arr |-> Nil, len |-> 0]
      BY <1>1, <2>1 DEF NilSlice, Slice
    <3> QED BY <2>1, <3>1
  <2>2. CASE ~(ReleaseBuffers /\ left = 0)
    <3>1. buf' = [arr |-> buf.arr, len |-> left]
      BY <1>1, <2>2 DEF Slice
    <3> QED BY <1>3, <1>4, <3>1
  <2> QED BY <2>1, <2>2
<1>11. heap' \in [Arrays -> Seq(Nat)] /\ heap'[buf.arr] = new
  BY <1>1, <1>3, <1>5 DEF IInv, TypeOK
<1>12. TypeOK'
  <2>1. buf'.len <= Cap(buf)'
    <3>1. CASE left = 0
      BY <1>10, <1>11, <3>1 DEF Cap
    <3>2. CASE left > 0
      BY <1>3, <1>4, <1>5, <1>10, <1>11, <3>2, WriteBioAssumption DEF Cap
    <3> QED BY <1>4, <3>1, <3>2
  <2>2. data' \in [Flushers -> [arr : Arrays \cup {Nil}, len : Nat]]
    BY <1>1 DEF IInv, TypeOK, NilSlice, Slice
  <2> QED BY <1>1, <1>8, <1>10, <1>11, <2>1, <2>2 DEF IInv, TypeOK
<1>13. LockInv'
  BY <1>1, <1>2 DEF IInv, TypeOK, LockInv
<1>14. SliceInv' /\ SnapshotStable'
  BY <1>3, <1>9, <1>10 DEF SliceInv, SnapshotStable, NilSlice, Slice
<1>15. BufferIsTail'
  <2>1. Len(wire) + left = total
    BY <1>3, <1>6 DEF left
  <2>2. \A i \in 1..left : heap'[buf'.arr][i] = Len(wire) + i
    BY <1>7, <1>10, <1>11, <1>4
  <2> QED BY <1>1, <1>9, <1>10, <2>1, <2>2 DEF BufferIsTail
<1>16. MarkInv' /\ FlushCovers'
  BY <1>1, <1>8, <1>9 DEF IInv, TypeOK, MarkInv, FlushCovers
<1> QED BY <1>1, <1>12, <1>13, <1>14, <1>15, <1>16 DEF IInv

\* The invariant is inductive, and what each step does to the stream: it
\* accepts, it delivers the next byte, or it leaves the stream alone.
LEMMA StepInv ==
  ASSUME IInv, [Next]_vars
  PROVE  /\ IInv'
         /\ \/ \E k \in 1..MaxChunk : total' = total + k /\ wire' = wire
            \/ /\ wire' = Append(wire, Len(wire) + 1) /\ Len(wire) < total
               /\ total' = total
            \/ UNCHANGED <<total, wire>>
<1>1. ASSUME NEW k \in 1..MaxChunk, LibraryWrite(k)
      PROVE  IInv' /\ total' = total + k /\ wire' = wire
  BY <1>1, LibraryWriteInv DEF LibraryWrite
<1>2. ASSUME NEW f \in Flushers, FlushCall(f)
      PROVE  IInv' /\ UNCHANGED <<total, wire>>
  BY <1>2, FlushCallInv DEF FlushCall
<1>3. ASSUME NEW f \in Flushers, FlushLock(f)
      PROVE  IInv' /\ UNCHANGED <<total, wire>>
  BY <1>3, FlushLockInv DEF FlushLock
<1>4. ASSUME NEW f \in Flushers, Snapshot(f)
      PROVE  IInv' /\ UNCHANGED <<total, wire>>
  BY <1>4, SnapshotInv DEF Snapshot
<1>5. ASSUME NEW f \in Flushers, WriteByte(f)
      PROVE  /\ IInv' /\ total' = total
             /\ wire' = Append(wire, Len(wire) + 1) /\ Len(wire) < total
  BY <1>5, WriteByteInv DEF WriteByte
<1>6. ASSUME NEW f \in Flushers, WriteFail(f) \/ WriteDone(f)
      PROVE  IInv' /\ UNCHANGED <<total, wire>>
  BY <1>6, WriteEndInv
<1>7. ASSUME NEW f \in Flushers, Trim(f)
      PROVE  IInv' /\ UNCHANGED <<total, wire>>
  BY <1>7, TrimInv
<1>8. CASE UNCHANGED vars
  <2>1. UNCHANGED <<heap, buf, opMtx, pc, data, n, result, calls, mark, faults,
                    total, wire>>
    BY <1>8 DEF vars, callVars
  <2> QED
    BY <2>1
    DEF IInv, TypeOK, LockInv, SliceInv, SnapshotStable, BufferIsTail, MarkInv,
        FlushCovers, InFlight, Base, Cap, NilSlice, Slice
<1> QED
  BY <1>1, <1>2, <1>3, <1>4, <1>5, <1>6, <1>7, <1>8 DEF Next, FlushStep, Done

THEOREM Invariance == Spec => []IInv
<1>1. Init => IInv
  BY InitInv
<1>2. IInv /\ [Next]_vars => IInv'
  BY StepInv
<1> QED BY <1>1, <1>2, PTL DEF Spec

\* The variables keep their types, and the buffer stays within its array.
THEOREM TypeCorrect == Spec => []TypeOK
<1>1. IInv => TypeOK
  BY DEF IInv
<1> QED BY <1>1, Invariance, PTL

\* The bytes a WriteTo hands to the wrapped connection without a lock do not
\* change under it.
THEOREM SnapshotsAreStable == Spec => []SnapshotStable
<1>1. IInv => SnapshotStable
  BY DEF IInv
<1> QED BY <1>1, Invariance, PTL

\* The buffer is the tail of the stream.
THEOREM BufferIsAlwaysTail == Spec => []BufferIsTail
<1>1. IInv => BufferIsTail
  BY DEF IInv
<1> QED BY <1>1, Invariance, PTL

\* A WriteTo without an error covers what was written before it was called.
THEOREM FlushesCover == Spec => []FlushCovers
<1>1. IInv => FlushCovers
  BY DEF IInv
<1> QED BY <1>1, Invariance, PTL

\* Refinement: the BIO and its flushes are a byte stream, whatever goroutines
\* append and flush at the same time.
THEOREM ImplementsByteStream == Spec => StreamSpec
<1>1. Init => Stream!Init
  BY DEF Init, Stream!Init
<1>2. IInv /\ [Next]_vars => [Stream!Next]_<<total, wire>>
  <2> SUFFICES ASSUME IInv, [Next]_vars
               PROVE  [Stream!Next]_<<total, wire>>
    OBVIOUS
  <2>1. CASE \E k \in 1..MaxChunk : total' = total + k /\ wire' = wire
    BY <2>1, WriteBioAssumption
    DEF IInv, TypeOK, Stream!Next, Stream!Accept
  <2>2. CASE /\ wire' = Append(wire, Len(wire) + 1) /\ Len(wire) < total
             /\ total' = total
    BY <2>2 DEF Stream!Next, Stream!Deliver
  <2>3. CASE UNCHANGED <<total, wire>>
    BY <2>3
  <2> QED BY <2>1, <2>2, <2>3, StepInv
<1> QED
  BY <1>1, <1>2, Invariance, PTL DEF Spec, StreamSpec, Stream!Spec
=============================================================================
