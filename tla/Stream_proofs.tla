----------------------------- MODULE Stream_proofs -----------------------------
(***************************************************************************)
(* Proofs about the two streams, for buffers of any size, any packets and  *)
(* any script: first the outgoing one, then the incoming one.              *)
(***************************************************************************)
EXTENDS InputStream, OutputStream, TLAPS

(***************************************************************************)
(* The outgoing stream.                                                    *)
(***************************************************************************)

\* What was written is exactly what the packet holds, and what is missing is
\* known to be missing.
OutInv ==
    /\ OutTypeOK
    /\ InBuffer
    /\ fresh = 0 .. outEnd - 1
    /\ lost => outError
    /\ NothingStale
    /\ NothingLost

LEMMA OutInitInv == OutInit => OutInv
<1> SUFFICES ASSUME OutInit PROVE OutInv
  OBVIOUS
<1>1. NoPacket \in [size : Nat, fresh : SUBSET Nat, lost : BOOLEAN]
  BY DEF NoPacket
<1>2. outPos = 0 /\ outEnd = 0 /\ fresh = {} /\ packet = NoPacket /\ outError = FALSE /\ lost = FALSE
  BY DEF OutInit
<1>3. OutTypeOK
  BY <1>1, <1>2 DEF OutTypeOK
<1>4. InBuffer /\ fresh = 0 .. outEnd - 1
  BY <1>2, CapAssumption DEF InBuffer
<1>5. packet.size = 0 /\ packet.lost = FALSE
  BY <1>2 DEF NoPacket
<1>6. NothingStale /\ NothingLost
  BY <1>5 DEF NothingStale, NothingLost
<1>7. QED
  BY <1>2, <1>3, <1>4, <1>6 DEF OutInv

LEMMA ResetKeeps ==
    ASSUME OutTypeOK, NothingStale', NothingLost', Reset,
           packet' \in [size : Nat, fresh : SUBSET Nat, lost : BOOLEAN]
    PROVE  OutInv'
<1>1. outPos' = 0 /\ outEnd' = 0 /\ outError' = FALSE /\ fresh' = {} /\ lost' = FALSE
  BY DEF Reset
<1>2. OutTypeOK'
  BY <1>1 DEF OutTypeOK
<1>3. InBuffer' /\ fresh' = 0 .. outEnd' - 1
  BY <1>1, CapAssumption DEF InBuffer
<1>4. QED
  BY <1>1, <1>2, <1>3 DEF OutInv

LEMMA Intervals ==
    ASSUME NEW a \in Nat, NEW b \in Nat, a <= b
    PROVE  0 .. a - 1 \subseteq 0 .. b - 1 /\ 0 .. a - 1 \subseteq Nat
OBVIOUS

LEMMA PutKeeps ==
    ASSUME OutInv, NEW n \in Nat, n <= CAP - outPos, Put(n), UNCHANGED packet,
           outError' \in BOOLEAN, lost' \in BOOLEAN, lost' => outError'
    PROVE  OutInv'
<1>1. /\ outPos \in Nat /\ outEnd \in Nat /\ outPos <= outEnd /\ outEnd <= CAP /\ CAP \in Nat
      /\ fresh = 0 .. outEnd - 1
  BY CapAssumption DEF OutInv, OutTypeOK, InBuffer
<1>2. /\ outPos' = outPos + n /\ outEnd' = IF outPos + n > outEnd THEN outPos + n ELSE outEnd
      /\ fresh' = fresh \cup outPos .. outPos + n - 1
  BY DEF Put
<1>3. outPos' \in Nat /\ outEnd' \in Nat /\ outPos' <= outEnd' /\ outEnd' <= CAP
  BY <1>1, <1>2
<1>4. fresh' = 0 .. outEnd' - 1
  <2>1. CASE outPos + n > outEnd
    BY <1>1, <1>2, <2>1
  <2>2. CASE ~(outPos + n > outEnd)
    BY <1>1, <1>2, <2>2
  <2>3. QED
    BY <2>1, <2>2
<1>5. fresh' \subseteq 0 .. CAP - 1 /\ fresh' \subseteq Nat
  <2>1. CAP \in Nat /\ outEnd' \in Nat /\ outEnd' <= CAP
    BY <1>1, <1>3
  <2>2. 0 .. outEnd' - 1 \subseteq 0 .. CAP - 1 /\ 0 .. outEnd' - 1 \subseteq Nat
    BY <2>1, Intervals
  <2>3. QED
    BY <1>4, <2>2
<1>6. OutTypeOK' /\ NothingStale' /\ NothingLost'
  BY <1>3, <1>5 DEF OutInv, OutTypeOK, NothingStale, NothingLost
<1>7. QED
  BY <1>3, <1>4, <1>5, <1>6 DEF OutInv, InBuffer

LEMMA FailKeeps ==
    ASSUME OutInv, Fail, UNCHANGED packet
    PROVE  OutInv'
BY DEF OutInv, Fail, OutTypeOK, InBuffer, NothingStale, NothingLost

LEMMA WriteValueInv ==
    ASSUME OutInv, NEW n \in Nat, WriteValue(n)
    PROVE  OutInv'
<1>1. CASE ~CanWrite(n) /\ Fail
  BY <1>1, FailKeeps DEF WriteValue
<1>2. CASE CanWrite(n) /\ Put(n) /\ UNCHANGED <<outError, lost>>
  <2>1. n <= CAP - outPos /\ outError' \in BOOLEAN /\ lost' \in BOOLEAN /\ (lost' => outError')
    BY <1>2 DEF CanWrite, OutInv, OutTypeOK
  <2>2. QED
    BY <1>2, <2>1, PutKeeps DEF WriteValue
<1>3. QED
  BY <1>1, <1>2 DEF WriteValue

LEMMA WriteStringInv ==
    ASSUME OutInv, NEW n \in Nat, WriteString(n)
    PROVE  OutInv'
<1>1. CASE ~CanWrite(2) /\ Fail
  BY <1>1, FailKeeps DEF WriteString
<1>2. CASE /\ CanWrite(2) /\ Put(2 + Stored(n)) /\ outError' = Cut(n)
           /\ lost' = (lost \/ Stored(n) < n)
  <2>1. /\ outPos \in Nat /\ CAP \in Nat /\ MaxUInt16 \in Nat /\ CAP <= MaxUInt16
        /\ 2 <= CAP - outPos /\ outError \in BOOLEAN /\ lost \in BOOLEAN /\ (lost => outError)
    BY <1>2, CapAssumption DEF OutInv, OutTypeOK, CanWrite
  <2>2. Stored(n) \in Nat /\ Stored(n) <= CAP - outPos - 2
    BY <2>1 DEF Stored, Declared, MaxChars, Smaller
  <2>3. Stored(n) < n => Declared(n) > MaxChars
    BY <2>1 DEF Stored, Declared, MaxChars, Smaller
  <2>4. outError' \in BOOLEAN /\ lost' \in BOOLEAN /\ (lost' => outError')
    BY <1>2, <2>1, <2>3 DEF Cut
  <2>5. 2 + Stored(n) \in Nat /\ 2 + Stored(n) <= CAP - outPos
    BY <2>1, <2>2
  <2>6. QED
    BY <1>2, <2>4, <2>5, PutKeeps DEF WriteString
<1>3. QED
  BY <1>1, <1>2 DEF WriteString

LEMMA SendStreamInv ==
    ASSUME OutInv, NEW player \in BOOLEAN, SendStream(player)
    PROVE  OutInv'
<1>1. packet' = IF player /\ ~outError
                THEN [size |-> outEnd, fresh |-> fresh, lost |-> lost]
                ELSE packet
  BY DEF SendStream, Sendable
<1>2. CASE ~(player /\ ~outError)
  <2>1. UNCHANGED packet
    BY <1>1, <1>2
  <2>2. QED
    BY <2>1, ResetKeeps DEF SendStream, OutInv, OutTypeOK, NothingStale, NothingLost
<1>3. CASE player /\ ~outError
  <2>1. packet' = [size |-> outEnd, fresh |-> fresh, lost |-> lost]
    BY <1>1, <1>3
  <2>2. /\ packet' \in [size : Nat, fresh : SUBSET Nat, lost : BOOLEAN]
        /\ NothingStale' /\ NothingLost'
    BY <1>3, <2>1 DEF OutInv, OutTypeOK, NothingStale, NothingLost
  <2>3. QED
    BY <2>2, ResetKeeps DEF SendStream, OutInv
<1>4. QED
  BY <1>2, <1>3

LEMMA SetWritePositionInv ==
    ASSUME OutInv, NEW p \in Int, SetWritePosition(p)
    PROVE  OutInv'
<1>1. Clamped(p) \in Nat /\ Clamped(p) <= outEnd
  BY DEF Clamped, OutInv, OutTypeOK
<1>2. QED
  BY <1>1 DEF SetWritePosition, OutInv, OutTypeOK, InBuffer, NothingStale, NothingLost

LEMMA OutInvariance == OutSpec => []OutInv
<1>1. OutInv /\ [OutNext]_outVars => OutInv'
  <2> SUFFICES ASSUME OutInv, [OutNext]_outVars PROVE OutInv'
    OBVIOUS
  <2>1. CASE StartWrite
    BY <2>1, ResetKeeps DEF StartWrite, OutInv, OutTypeOK, NothingStale, NothingLost
  <2>2. CASE \E p \in Position : SetWritePosition(p)
    BY <2>2, SetWritePositionInv, ArgumentAssumption
  <2>3. CASE \E n \in {1, 4} : WriteValue(n)
    BY <2>3, WriteValueInv
  <2>4. CASE \E n \in Length : WriteString(n)
    BY <2>4, WriteStringInv, ArgumentAssumption
  <2>5. CASE WriteNull
    BY <2>5, WriteValueInv DEF WriteNull
  <2>6. CASE \E player \in BOOLEAN : SendStream(player)
    BY <2>6, SendStreamInv
  <2>7. CASE UNCHANGED outVars
    BY <2>7 DEF outVars, OutInv, OutTypeOK, InBuffer, NothingStale, NothingLost
  <2>8. QED
    BY <2>1, <2>2, <2>3, <2>4, <2>5, <2>6, <2>7 DEF OutNext
<1>2. QED
  BY OutInitInv, <1>1, PTL DEF OutSpec

\* Write, whatever is asked of it, writes inside outputStreamData.
THEOREM InBufferCorrect == OutSpec => []InBuffer
BY OutInvariance, PTL DEF OutInv

\* SendStream sends no byte left from an earlier packet.
THEOREM NothingStaleCorrect == OutSpec => []NothingStale
BY OutInvariance, PTL DEF OutInv

\* SendStream sends no packet from which a write is missing; the buffer must
\* not be larger than the length field of a string can say.
THEOREM NothingLostCorrect == OutSpec => []NothingLost
BY OutInvariance, PTL DEF OutInv

(***************************************************************************)
(* The incoming stream.                                                    *)
(***************************************************************************)

\* A packet that can be read is long enough for every read.
Readable ==
    loaded /\ ~error => /\ size > 0 /\ size <= CAP
                        /\ \A r \in Read : Width(r) <= size

InInv ==
    /\ TypeOK
    /\ size <= CAP
    /\ pos <= size
    /\ Readable
    /\ InPacket

LEMMA InInitInv == Init => InInv
<1> SUFFICES ASSUME Init PROVE InInv
  OBVIOUS
<1>1. 0 \in 0 .. Word - 1 /\ 0 <= CAP
  BY SizeAssumption
<1>2. /\ size = 0 /\ pos = 0 /\ touched = 0
      /\ error = FALSE /\ loaded = FALSE /\ whole = TRUE
  BY DEF Init
<1> TypeOK
  BY <1>1, <1>2 DEF TypeOK
<1> InPacket
  BY <1>2 DEF InPacket
<1>3. Readable
  BY DEF Init, Readable
<1>4. QED
  BY <1>1, <1>2, <1>3 DEF InInv

\* The comparison of size_t values is the one meant as long as the packet is
\* not shorter than what is read.
LEMMA OutsideMeans ==
    ASSUME NEW n \in Nat, NEW k \in Nat, k <= n, n < Word
    PROVE  (n - k) % Word = n - k
<1>1. n - k \in 0 .. Word - 1
  BY SizeAssumption
<1>2. QED
  BY <1>1, SizeAssumption

LEMMA ReadValueInv ==
    ASSUME NoShortPacket, InInv, NEW r \in Read, ReadValue(r)
    PROVE  InInv'
<1> DEFINE k == Width(r)
<1>1. /\ loaded /\ ~error /\ k <= size /\ k \in Nat
      /\ size \in Nat /\ pos \in Nat /\ size <= CAP /\ CAP \in Nat /\ CAP + 4 < Word
      /\ Word \in Nat \ {0} /\ touched \in Nat /\ touched <= size
  BY SizeAssumption, ReadAssumption
     DEF ReadValue, May, NoShortPacket, InInv, Readable, TypeOK, InPacket, Width
<1> HIDE DEF k
<1>2. (size - k) % Word = size - k
  BY <1>1, OutsideMeans
<1>3. CASE Outside(k) /\ Failed
  BY <1>3 DEF Failed, InInv, TypeOK, Readable, InPacket
<1>4. CASE /\ ~Outside(k)
           /\ pos' = (pos + k) % Word
           /\ touched' = Larger(touched, pos + k)
           /\ UNCHANGED <<size, error, loaded, whole>>
  <2>1. pos + k <= size
    BY <1>1, <1>2, <1>4 DEF Outside
  <2>2. pos + k \in 0 .. Word - 1
    BY <1>1, <2>1
  <2>3. (pos + k) % Word = pos + k
    BY <1>1, <2>2
  <2>4. touched' \in Nat /\ touched' <= size
    BY <1>1, <1>4, <2>1 DEF Larger
  <2>5. QED
    BY <1>1, <1>4, <2>1, <2>2, <2>3, <2>4 DEF InInv, TypeOK, Readable, InPacket
<1>5. QED
  BY <1>3, <1>4 DEF ReadValue, k

LEMMA ReadStringInv ==
    ASSUME NoShortPacket, InInv, NEW n \in Nat, ReadString(n)
    PROVE  InInv'
<1>1. /\ loaded /\ ~error /\ 2 <= size
      /\ size \in Nat /\ pos \in Nat /\ size <= CAP /\ CAP \in Nat /\ CAP + 4 < Word
      /\ Word \in Nat \ {0} /\ touched \in Nat /\ touched <= size
      /\ whole \in BOOLEAN
  <2>1. "string" \in Read
    BY DEF ReadString
  <2>2. Width("string") = 2
    BY DEF Width
  <2>3. loaded /\ ~error /\ Readable
    BY DEF ReadString, May, NoShortPacket, InInv
  <2>4. 2 <= size
    BY <2>1, <2>2, <2>3 DEF Readable
  <2>5. QED
    BY <2>3, <2>4, SizeAssumption DEF InInv, TypeOK, InPacket
<1>2. (size - 2) % Word = size - 2
  BY <1>1, OutsideMeans
<1> DEFINE start == pos + 2
<1>3. CASE Outside(2) /\ Failed
  BY <1>3 DEF Failed, InInv, TypeOK, Readable, InPacket
<1>4. CASE ~Outside(2)
  <2>1. start \in Nat /\ start <= size
    BY <1>1, <1>2, <1>4 DEF Outside
  <2>2. start \in 0 .. Word - 1 /\ start % Word = start
    <3>1. start \in 0 .. Word - 1
      BY <1>1, <2>1
    <3>2. QED
      BY <1>1, <3>1
  <2>3. CASE TooLong(start, n)
    <3>1. /\ error' = TRUE /\ pos' = start /\ touched' = Larger(touched, start)
          /\ UNCHANGED <<size, loaded, whole>>
      BY <1>3, <1>4, <2>2, <2>3 DEF ReadString
    <3>2. touched' \in Nat /\ touched' <= size
      BY <1>1, <2>1, <3>1 DEF Larger
    <3>3. QED
      BY <1>1, <2>1, <2>2, <3>1, <3>2 DEF InInv, TypeOK, Readable, InPacket
  <2>4. CASE ~TooLong(start, n)
    <3>1. /\ pos' = (start + n) % Word /\ touched' = Larger(touched, start + n)
          /\ whole' = (whole /\ Copied(n) = n)
          /\ UNCHANGED <<size, error, loaded>>
      BY <1>3, <1>4, <2>4 DEF ReadString
    <3>2. start + n <= size
      BY <1>1, <2>1, <2>4 DEF TooLong
    <3>3. start + n \in 0 .. Word - 1
      BY <1>1, <2>1, <3>2
    <3>4. (start + n) % Word = start + n
      BY <1>1, <3>3
    <3>5. touched' \in Nat /\ touched' <= size
      BY <1>1, <2>1, <3>1, <3>2 DEF Larger
    <3>6. QED
      BY <1>1, <3>1, <3>2, <3>3, <3>4, <3>5 DEF InInv, TypeOK, Readable, InPacket
  <2>5. QED
    BY <2>3, <2>4
<1>5. QED
  BY <1>3, <1>4 DEF ReadString

LEMMA OnClientScriptDataInv ==
    ASSUME NoShortPacket, NEW n \in PacketSize, InInv, OnClientScriptData(n)
    PROVE  InInv'
<1>1. /\ n \in Nat /\ n > 0 /\ \A r \in Read : Width(r) <= n
      /\ pos' = 0 /\ loaded' = TRUE /\ touched' = 0 /\ whole' = whole
  BY PacketAssumption DEF OnClientScriptData, NoShortPacket
<1>2. CASE n > CAP
  <2>1. size' = 0 /\ error' = TRUE
    BY <1>2 DEF OnClientScriptData, NoLoad
  <2>2. 0 \in 0 .. Word - 1 /\ 0 <= CAP
    BY SizeAssumption
  <2>3. QED
    BY <1>1, <2>1, <2>2 DEF InInv, TypeOK, Readable, InPacket
<1>3. CASE ~(n > CAP)
  <2>1. size' = n /\ error' = FALSE /\ n <= CAP
    BY <1>1, <1>3, SizeAssumption DEF OnClientScriptData, Load
  <2>2. 0 \in 0 .. Word - 1
    BY SizeAssumption
  <2> TypeOK'
    BY <1>1, <2>1, <2>2 DEF InInv, TypeOK
  <2>3. InPacket' /\ pos' <= size'
    BY <1>1, <2>1 DEF InPacket
  <2>4. Readable'
    BY <1>1, <2>1 DEF Readable
  <2>5. QED
    BY <2>1, <2>3, <2>4 DEF InInv
<1>4. QED
  BY <1>2, <1>3

LEMMA SetReadPositionInv ==
    ASSUME InInv, NEW p \in Int, SetReadPosition(p)
    PROVE  InInv'
<1>1. /\ size \in Nat /\ size <= CAP /\ CAP \in Nat /\ CAP + 4 < Word /\ Word \in Nat
  BY SizeAssumption DEF InInv, TypeOK
<1>2. /\ pos' \in Nat /\ pos' <= size /\ error' \in BOOLEAN /\ (error => error')
      /\ UNCHANGED <<size, loaded, touched, whole>>
  <2>1. error \in BOOLEAN
    BY DEF InInv, TypeOK
  <2>2. CASE p >= 0 /\ p <= size /\ pos' = p /\ UNCHANGED error
    BY <1>1, <2>1, <2>2 DEF SetReadPosition
  <2>3. CASE pos' = size /\ error' = TRUE
    BY <1>1, <2>1, <2>3 DEF SetReadPosition
  <2>4. QED
    BY <2>2, <2>3 DEF SetReadPosition
<1>3. pos' \in 0 .. Word - 1
  BY <1>1, <1>2
<1>4. Readable'
  BY <1>2 DEF InInv, TypeOK, Readable
<1>5. TypeOK'
  BY <1>2, <1>3 DEF InInv, TypeOK
<1>6. InPacket' /\ size' <= CAP /\ pos' <= size'
  BY <1>1, <1>2 DEF InInv, InPacket
<1>7. QED
  BY <1>4, <1>5, <1>6 DEF InInv

LEMMA InInvariance ==
    ASSUME NoShortPacket
    PROVE  Spec => []InInv
<1>1. InInv /\ [Next]_vars => InInv'
  <2> SUFFICES ASSUME InInv, [Next]_vars PROVE InInv'
    OBVIOUS
  <2>1. CASE \E n \in PacketSize : OnClientScriptData(n)
    BY <2>1, OnClientScriptDataInv
  <2>2. CASE \E p \in Position : SetReadPosition(p)
    BY <2>2, SetReadPositionInv, ArgumentAssumption
  <2>3. CASE \E r \in Read : ReadValue(r)
    BY <2>3, ReadValueInv
  <2>4. CASE \E n \in Length : ReadString(n)
    BY <2>4, ReadStringInv, ArgumentAssumption
  <2>5. CASE UNCHANGED vars
    BY <2>5 DEF vars, InInv, TypeOK, Readable, InPacket
  <2>6. QED
    BY <2>1, <2>2, <2>3, <2>4, <2>5 DEF Next
<1>2. QED
  BY InInitInv, <1>1, PTL DEF Spec

\* No read returns a byte from beyond the packet, if every packet is as long as
\* the longest read and none is read before the first has come.
THEOREM InPacketCorrect ==
    ASSUME NoShortPacket
    PROVE  Spec => []InPacket
BY InInvariance, PTL DEF InInv

\* What the size of the buffer alone is enough for, short packets or not.
Sized == size \in Nat /\ size <= CAP /\ pos \in Nat /\ StringsWhole

\* ReadString returns the string the packet declares or reports an error: the
\* branch that cuts the string to the size of its static buffer is never taken.
THEOREM StringsWholeCorrect == Spec => []StringsWhole
<1>1. Init => Sized
  BY SizeAssumption DEF Init, Sized, StringsWhole
<1>2. Sized /\ [Next]_vars => Sized'
  <2> SUFFICES ASSUME Sized, [Next]_vars PROVE Sized'
    OBVIOUS
  <2>1. /\ size \in Nat /\ size <= CAP /\ pos \in Nat /\ whole = TRUE
        /\ CAP \in Nat /\ RESULT \in Nat /\ CAP <= RESULT /\ Word \in Nat \ {0}
    <3>1. whole \in BOOLEAN => whole = TRUE
      BY DEF Sized, StringsWhole
    <3>2. QED
      BY <3>1, SizeAssumption DEF Sized, StringsWhole
  <2>2. ASSUME NEW n \in PacketSize, OnClientScriptData(n)
        PROVE  Sized'
    <3>1. size' \in Nat /\ size' <= CAP
      BY <2>1, <2>2, PacketAssumption DEF OnClientScriptData, Load, NoLoad
    <3>2. pos' = 0 /\ whole' = whole
      BY <2>2 DEF OnClientScriptData
    <3>3. QED
      BY <2>1, <3>1, <3>2 DEF Sized, StringsWhole
  <2>3. ASSUME NEW p \in Position, SetReadPosition(p)
        PROVE  Sized'
    BY <2>1, <2>3, ArgumentAssumption DEF SetReadPosition, Sized, StringsWhole
  <2>4. ASSUME NEW r \in Read, ReadValue(r)
        PROVE  Sized'
    <3>1. Width(r) \in Nat
      BY ReadAssumption DEF Width
    <3>2. (pos + Width(r)) % Word \in Nat
      BY <2>1, <3>1
    <3>3. QED
      BY <2>1, <2>4, <3>2 DEF ReadValue, Failed, Sized, StringsWhole
  <2>5. ASSUME NEW n \in Length, ReadString(n)
        PROVE  Sized'
    <3> DEFINE start == pos + 2
    <3>1. n \in Nat /\ start \in Nat /\ start >= 2
      BY <2>1, ArgumentAssumption
    <3>2. CASE Outside(2) /\ Failed
      BY <2>1, <3>2 DEF Failed, Sized, StringsWhole
    <3>3. CASE /\ pos' = start % Word
               /\ UNCHANGED <<size, loaded, whole>>
      BY <2>1, <3>1, <3>3 DEF Sized, StringsWhole
    <3>4. CASE /\ ~TooLong(start, n)
               /\ pos' = (start + n) % Word
               /\ whole' = (whole /\ Copied(n) = n)
               /\ UNCHANGED <<size, error, loaded>>
      <4>1. n <= RESULT - 1
        BY <2>1, <3>1, <3>4 DEF TooLong
      <4>2. Copied(n) = n
        BY <2>1, <3>1, <4>1 DEF Copied, Smaller
      <4>3. pos' \in Nat
        BY <2>1, <3>1, <3>4
      <4>4. QED
        BY <2>1, <3>4, <4>2, <4>3 DEF Sized, StringsWhole
    <3>5. QED
      BY <2>5, <3>2, <3>3, <3>4 DEF ReadString
  <2>6. CASE UNCHANGED vars
    BY <2>6 DEF vars, Sized, StringsWhole
  <2>7. QED
    BY <2>2, <2>3, <2>4, <2>5, <2>6 DEF Next
<1>3. QED
  BY <1>1, <1>2, PTL DEF Spec, Sized

=============================================================================
