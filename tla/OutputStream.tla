------------------------------ MODULE OutputStream ------------------------------
(***************************************************************************)
(* The half of CStream a script composes a packet with: one static buffer  *)
(* for the whole plugin, a write position that may be moved back, and a    *)
(* flag that blocks the sending once something did not fit.                *)
(*                                                                         *)
(* A byte is known by its offset alone.                                    *)
(***************************************************************************)
EXTENDS Stream

VARIABLES
    outPos,   \* outputStreamPosition
    outEnd,   \* outputStreamEnd
    outError, \* outputStreamError
    \* history
    fresh,    \* offsets written since StartWrite
    lost,     \* bytes a script wrote since StartWrite are missing
    packet    \* the last packet the server was given

outVars == <<outPos, outEnd, outError, fresh, lost, packet>>

NoPacket == [size |-> 0, fresh |-> {}, lost |-> FALSE]

OutInit ==
    /\ outPos = 0 /\ outEnd = 0 /\ outError = FALSE
    /\ fresh = {} /\ lost = FALSE /\ packet = NoPacket

-------------------------------------------------------------------------------
Reset == outPos' = 0 /\ outEnd' = 0 /\ outError' = FALSE /\ fresh' = {} /\ lost' = FALSE

StartWrite == Reset /\ UNCHANGED packet

\* A position outside the packet becomes its end, and is not an error
ClampedToBuffer(p) == IF p < 0 \/ p > CAP THEN outEnd ELSE p
Clamped(p) == IF p < 0 \/ p > outEnd THEN outEnd ELSE p

SetWritePosition(p) ==
    /\ outPos' = Clamped(p)
    /\ UNCHANGED <<outEnd, outError, fresh, lost, packet>>

CanWriteOneMore(n) == outPos <= CAP /\ n <= CAP - outPos + 1
CanWrite(n) == outPos <= CAP /\ n <= CAP - outPos

Put(n) ==
    /\ outPos' = outPos + n
    /\ outEnd' = IF outPos + n > outEnd THEN outPos + n ELSE outEnd
    /\ fresh' = fresh \cup outPos .. outPos + n - 1

Fail ==
    /\ outError' = TRUE
    /\ lost' = TRUE
    /\ UNCHANGED <<outPos, outEnd, fresh>>

\* WriteByte, WriteInt, WriteFloat: n is the size of the value
WriteValue(n) ==
    /\ \/ CanWrite(n) /\ Put(n) /\ UNCHANGED <<outError, lost>>
       \/ ~CanWrite(n) /\ Fail
    /\ UNCHANGED packet

\* WriteString of a string of n characters: what does not fit is cut off, and
\* what is left of it stays in the buffer
MaxChars == CAP - outPos - 2
Declared(n) == Smaller(n, MaxUInt16)
Stored(n) == Smaller(Declared(n), MaxChars)

CutQuietly(n) == outError
Cut(n) == outError \/ Declared(n) > MaxChars

WriteString(n) ==
    /\ \/ /\ CanWrite(2)
          /\ Put(2 + Stored(n))
          /\ outError' = Cut(n)
          /\ lost' = (lost \/ Stored(n) < n)
       \/ ~CanWrite(2) /\ Fail
    /\ UNCHANGED packet

\* WriteString of a null pointer: an empty string
WriteNull == WriteValue(2)

\* SendStream: no packet leaves for a null player or after an error; whatever
\* happens, a new packet begins
Sendable == ~outError

SendStream(player) ==
    /\ packet' = IF player /\ Sendable
                 THEN [size |-> outEnd, fresh |-> fresh, lost |-> lost]
                 ELSE packet
    /\ Reset

OutNext ==
    \/ StartWrite
    \/ \E p \in Position : SetWritePosition(p)
    \/ \E n \in {1, 4} : WriteValue(n)
    \/ \E n \in Length : WriteString(n)
    \/ WriteNull
    \/ \E player \in BOOLEAN : SendStream(player)

OutSpec == OutInit /\ [][OutNext]_outVars

-------------------------------------------------------------------------------
OutTypeOK ==
    /\ outPos \in Nat /\ outEnd \in Nat
    /\ outError \in BOOLEAN /\ lost \in BOOLEAN
    /\ fresh \subseteq Nat
    /\ packet \in [size : Nat, fresh : SUBSET Nat, lost : BOOLEAN]

\* No sequence of writes and moves of the position makes memcpy write outside
\* the buffer, or leaves a position the next write would start from outside it.
InBuffer == outPos <= outEnd /\ outEnd <= CAP /\ fresh \subseteq 0 .. CAP - 1

\* Every byte of a packet was written for it: moving the position leaves no gap
\* that shows the player bytes of a packet sent before.
NothingStale == 0 .. packet.size - 1 \subseteq packet.fresh

\* A packet that is sent holds every byte the script wrote for it, the strings
\* that were cut and the values that did not fit included.
NothingLost == ~packet.lost

===============================================================================
